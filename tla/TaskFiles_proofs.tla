-------------------------- MODULE TaskFiles_proofs --------------------------
(***************************************************************************)
(* Proofs about TaskFiles, for every number of inputs, requests, workers   *)
(* and runs.                                                               *)
(***************************************************************************)
EXTENDS TaskFiles, TLAPS

-----------------------------------------------------------------------------
(* Type correctness, with what the sessions hold *)

\* The rows of task_files that there may be.
LinkRow == {Input_(f) : f \in Input} \cup {Result_(f) : f \in Result}
             \cup {Stage(f) : f \in Input \cup Plys(Result)}

\* The role of a link says what its file is.
LEMMA Roles ==
  ASSUME NEW l \in LinkRow
  PROVE  /\ l.role = "result" => l.file \in Result /\ l = Result_(l.file)
         /\ l.role = "input"  => l.file \in Input
         /\ l.role = "stage"  => l.file \in Input \cup Plys(Result)
BY DEF LinkRow, Input_, Result_, Stage

\* The rows and files that the actions go by, apart from the sessions.
Plain ==
  /\ task \in Row /\ gone \subseteq File
  /\ link \subseteq LinkRow
  /\ runs \in 0..MaxRuns /\ made \in [Run -> SUBSET Run]
  /\ asked \subseteq Input /\ {overlapped, revived} \subseteq BOOLEAN /\ events \in 0..MaxEvents

\* A committed row is a row.
LEMMA FlushType ==
  ASSUME task \in Row, NEW from, NEW to \in Row, Flush(from, to)
  PROVE  task' \in Row
<1>1. task' = [c \in {"status", "algorithm", "cancel"} |->
                 IF to[c] = from[c] THEN task[c] ELSE to[c]]
  BY DEF Flush, Row
<1>2. /\ task' = [status |-> task'.status, algorithm |-> task'.algorithm, cancel |-> task'.cancel]
      /\ task'.status \in Status /\ task'.algorithm \in Algorithm /\ task'.cancel \in BOOLEAN
  BY <1>1 DEF Row
<1>3. QED BY <1>2 DEF Row

\* So is that of a failed stage.
LEMMA FailedType ==
  ASSUME NEW row \in Row, NEW links
  PROVE  StageFailed(row, links) \in Row
BY DEF StageFailed, Row, Status

\* A set of one file, or none.
AtMostOne(files) == \A f, g \in files : f = g

\* Links of results.
NewResults == {Result_(f) : f \in Result}
\* A PLY is among a run's new results.
WithPly(links) == \E f \in Plys(Result) : Result_(f) \in links
\* A PLY is among the results that it removes.
TakesPly(links) == \E l \in links : l.role = "result" /\ l.file.kind = "ply"

\* What a session at a step may have loaded.
Fits(step, m) ==
  /\ step = "start" => m.row \in Row /\ m.selected \subseteq Input
  /\ step = "mesh" =>
       /\ m.row \in Row /\ m.algorithm \in MeshAlgorithm
       /\ m.selected \subseteq Input \cup Plys(Result)
       /\ m.algorithm = "hunyuan3d" => m.selected \subseteq Input
       /\ AtMostOne(m.selected \ Input)
  /\ step = "delete" => m.row \in Row /\ m.file \in File /\ \A l \in m.links : l.file = m.file
  /\ step = "begin" => m.row \in Row
  /\ step = "stage" =>
       m.algorithm \in Algorithm /\ (m.algorithm = "dash_gaussian_mesh" => AtMostOne(m.inputs))
  /\ step = "run" =>
       /\ m.algorithm \in Algorithm /\ m.dir \subseteq Result
       /\ m.algorithm = "dash_gaussian_mesh" =>
            HasCfg(m.dir) /\ \A f \in m.dir : \A p \in m.inputs : f.run = p.run
  /\ step = "registered" => (m.row.algorithm = "dash_gaussian" => WithPly(m.add))
  /\ step \in {"registered", "end"} =>
       /\ m = [row |-> m.row, to |-> m.to, drop |-> m.drop, add |-> m.add]
       /\ m.row \in Row /\ m.to \in Row /\ m.add \subseteq NewResults
       /\ TakesPly(m.drop) => WithPly(m.add)

\* A session's steps.
Step == {"idle", "start", "mesh", "delete", "leased", "begin", "stage", "run", "raised",
         "registered", "end"}

\* Every session is at one of its steps and has loaded what fits that.
Held ==
  /\ pc \in [Actor -> Step] /\ mem = [a \in Actor |-> mem[a]]
  /\ \A a \in Actor : Fits(pc[a], mem[a])

\* A Mesh run's links have at most one PLY.
StageOne ==
  \A l, k \in link :
    l.role = "stage" /\ k.role = "stage" /\ l.file \notin Input /\ k.file \notin Input =>
      l.file = k.file

\* The type invariant follows.
LEMMA HeldTypes == Plain /\ Held => TypeOK
BY DEF Plain, Held, TypeOK, Step, LinkRow

\* A session may go on with what it should hold.
LEMMA GoesHeld ==
  ASSUME Held, NEW a \in Actor, NEW step \in Step, NEW m, Goes(a, step, m), Fits(step, m)
  PROVE  Held'
<1>1. \A b \in Actor : /\ pc'[b]  = IF b = a THEN step ELSE pc[b]
                       /\ mem'[b] = IF b = a THEN m ELSE mem[b]
  BY DEF Goes, Held
<1>2. pc' \in [Actor -> Step] /\ mem' = [b \in Actor |-> mem'[b]]
  BY DEF Goes, Held
<1>3. \A b \in Actor : Fits(pc'[b], mem'[b])
  BY <1>1 DEF Held
<1>4. QED BY <1>2, <1>3 DEF Held

\* It may end, or raise.
LEMMA EndsHeld ==
  ASSUME Held, NEW a \in Actor, Ends(a) \/ Goes(a, "raised", None)
  PROVE  Held'
<1>1. Fits("idle", None) /\ Fits("raised", None)
  BY DEF Fits
<1>2. QED BY <1>1, GoesHeld DEF Ends, Step

\* Events are bounded.
LEMMA EventType == Plain /\ Event => events' \in 0..MaxEvents
BY FilesAssumption DEF Plain, Event

\* A session at a step holds what fits it.
LEMMA HeldFits == ASSUME Held, NEW a \in Actor PROVE Fits(pc[a], mem[a])
BY DEF Held

\* A new task has no links, and nobody is at work on it.
LEMMA InitType == Init => Plain /\ Held /\ StageOne
<1> SUFFICES ASSUME Init PROVE Plain /\ Held /\ StageOne
  OBVIOUS
<1>1. Plain
  <2>1. task \in Row
    BY DEF Init, Row, Status, Algorithm
  <2>2. runs \in 0..MaxRuns /\ events \in 0..MaxEvents /\ made \in [Run -> SUBSET Run]
    BY FilesAssumption DEF Init
  <2>3. QED BY <2>1, <2>2 DEF Init, Plain
<1>2. Held
  <2>1. pc \in [Actor -> Step]
    BY DEF Init, Step
  <2>2. mem = [a \in Actor |-> mem[a]]
    BY DEF Init
  <2>3. \A a \in Actor : pc[a] = "idle"
    BY DEF Init
  <2>4. \A a \in Actor : Fits(pc[a], mem[a])
    BY <2>3 DEF Fits
  <2>5. QED BY <2>1, <2>2, <2>4 DEF Held
<1>3. StageOne
  BY DEF Init, StageOne
<1>4. QED BY <1>1, <1>2, <1>3

-----------------------------------------------------------------------------
(* The owner's requests *)

\* A request loads files of the task, and links them in their roles: one PLY at most.
LEMMA RequestType ==
  ASSUME Plain, Held, StageOne, NEW c \in Client,
         \/ StartCommit(c) \/ MeshCommit(c) \/ DeleteCommit(c)
         \/ \E selected \in SUBSET Input : StartLoad(c, selected)
         \/ \E alg \in MeshAlgorithm :
                   \E selected \in Selectable(alg) : MeshLoad(c, alg, selected)
         \/ \E f \in Input \cup ResultsOf(link) : DeleteLoad(c, f)
  PROVE  Plain' /\ Held' /\ StageOne'
<1> c \in Actor
  BY DEF Actor
<1>a. ResultsOf(link) \subseteq Result /\ Plys(Result) \subseteq Result
  BY Roles DEF ResultsOf, Plain, Plys
<1>b. Fits(pc[c], mem[c])
  BY HeldFits
<1>1. ASSUME NEW selected \in SUBSET Input, StartLoad(c, selected) PROVE Plain' /\ Held' /\ StageOne'
  <2>1. Fits("start", [row |-> task, selected |-> selected])
    BY DEF Fits, Plain
  <2>2. Held'
    BY <1>1, <2>1, GoesHeld DEF StartLoad, Step
  <2>3. Plain' /\ StageOne'
    BY <1>1, EventType DEF StartLoad, Joins, Plain, StageOne
  <2>4. QED BY <2>2, <2>3
<1>2. CASE StartCommit(c)
  <2>1. mem[c].selected \subseteq Input
    BY <1>2, <1>b DEF StartCommit, Fits
  <2>2. task' \in Row
    <3>1. [status |-> "queued", algorithm |-> "dash_gaussian", cancel |-> FALSE] \in Row
      BY DEF Row, Status, Algorithm
    <3>2. QED BY <1>2, <3>1, FlushType DEF StartCommit, Plain
  <2>3. link' \subseteq LinkRow /\ StageOne'
    BY <1>2, <2>1 DEF StartCommit, Plain, StageOne, LinkRow, Input_
  <2>4. Plain'
    BY <1>2, <2>1, <2>2, <2>3 DEF StartCommit, Plain
  <2>5. QED BY <1>2, <2>3, <2>4, EndsHeld DEF StartCommit
<1>3. ASSUME NEW alg \in MeshAlgorithm, NEW selected \in Selectable(alg), MeshLoad(c, alg, selected)
      PROVE  Plain' /\ Held' /\ StageOne'
  <2> DEFINE m == [row |-> task, selected |-> selected, algorithm |-> alg]
  <2>1. alg = "dash_gaussian_mesh" => \E f \in Plys(Result) : selected = {f}
    BY <1>a DEF Selectable, Plys
  <2>2. alg # "dash_gaussian_mesh" => selected \subseteq Input
    BY Roles DEF Selectable, InputsOf, Plain
  <2>3. Fits("mesh", m)
    <3>1. /\ selected \subseteq Input \cup Plys(Result) /\ AtMostOne(selected \ Input)
          /\ alg = "hunyuan3d" => selected \subseteq Input
      BY <2>1, <2>2 DEF AtMostOne
    <3>2. QED BY <3>1 DEF Fits, Plain
  <2>4. Held'
    BY <1>3, <2>3, GoesHeld DEF MeshLoad, Step
  <2>5. Plain' /\ StageOne'
    BY <1>3, EventType DEF MeshLoad, Joins, Plain, StageOne
  <2>6. QED BY <2>4, <2>5
<1>4. CASE MeshCommit(c)
  <2> DEFINE m == mem[c]
  <2>1. /\ m.algorithm \in MeshAlgorithm /\ m.selected \subseteq Input \cup Plys(Result)
        /\ m.algorithm = "hunyuan3d" => m.selected \subseteq Input
        /\ AtMostOne(m.selected \ Input)
    BY <1>4, <1>b DEF MeshCommit, Fits
  <2>2. task' \in Row
    <3>1. [status |-> "queued", algorithm |-> m.algorithm, cancel |-> FALSE] \in Row
      BY <2>1 DEF Row, Status, MeshAlgorithm
    <3>2. QED BY <1>4, <3>1, FlushType DEF MeshCommit, Plain
  <2>3. link' = {l \in link : l.role # "stage"} \cup {Stage(f) : f \in m.selected}
    BY <1>4 DEF MeshCommit
  <2> HIDE DEF m
  <2>4. link' \subseteq LinkRow
    <3>1. \A f \in m.selected : Stage(f) \in LinkRow
      BY <2>1 DEF LinkRow
    <3>2. link \subseteq LinkRow
      BY DEF Plain
    <3>3. QED BY <2>3, <3>1, <3>2
  <2>5. StageOne'
    BY <2>1, <2>3 DEF StageOne, Stage, AtMostOne
  <2>6. Plain'
    BY <1>4, <2>1, <2>2, <2>4 DEF MeshCommit, Plain, m
  <2>7. QED BY <1>4, <2>5, <2>6, EndsHeld DEF MeshCommit
<1>5. ASSUME NEW f \in Input \cup ResultsOf(link), DeleteLoad(c, f)
      PROVE  Plain' /\ Held' /\ StageOne'
  <2>1. Fits("delete", [row |-> task, file |-> f, links |-> {l \in link : l.file = f}])
    BY <1>a DEF Fits, Plain, File
  <2>2. Held'
    BY <1>5, <2>1, GoesHeld DEF DeleteLoad, Step
  <2>3. Plain' /\ StageOne'
    BY <1>5, EventType DEF DeleteLoad, Joins, Plain, StageOne
  <2>4. QED BY <2>2, <2>3
<1>6. CASE DeleteCommit(c)
  <2> DEFINE m == mem[c]
  <2>1. m.row \in Row /\ m.file \in File
    BY <1>6, <1>b DEF DeleteCommit, Fits
  <2>2. task' \in Row
    <3>1. [m.row EXCEPT !.status = "cancelled", !.cancel = TRUE] \in Row
      BY <2>1 DEF Row, Status
    <3>2. QED BY <1>6, <3>1, FlushType DEF DeleteCommit, Plain
  <2>3. Plain'
    BY <1>6, <2>1, <2>2 DEF DeleteCommit, Plain, ghosts
  <2>4. StageOne'
    BY <1>6 DEF DeleteCommit, StageOne
  <2>5. QED BY <1>6, <2>3, <2>4, EndsHeld DEF DeleteCommit
<1>7. QED BY <1>1, <1>2, <1>3, <1>4, <1>5, <1>6

-----------------------------------------------------------------------------
(* Runs *)

\* The files of a PLY's generation are results of one run.
LEMMA RestoredOne ==
  ASSUME Plain, NEW p
  PROVE  Restored(link, p) \subseteq Result /\ \A f \in Restored(link, p) : f.run = p.run
<1>1. ResultsOf(link) \subseteq Result
  BY Roles DEF ResultsOf, Plain
<1>2. QED BY <1>1 DEF Restored

\* A Mesh run stages one PLY at most.
LEMMA StagedOne ==
  ASSUME StageOne
  PROVE  AtMostOne(Staged("dash_gaussian_mesh"))
BY DEF StageOne, Staged, AtMostOne

\* What a run adds are results; a Gaussian run takes PLYs away and adds one.
LEMMA AddsPly ==
  ASSUME NEW alg \in Algorithm, NEW n \in Run
  PROVE  /\ Adds(alg, n) \subseteq {Result_(f) : f \in {g \in Result : g.run = n}}
         /\ alg = "dash_gaussian" => WithPly(Adds(alg, n))
         /\ TakesPly(OfKind(Replaces(alg))) => alg = "dash_gaussian"
<1>1. Adds(alg, n) \subseteq {Result_(f) : f \in {g \in Result : g.run = n}}
  BY DEF Adds, Result, Algorithm
<1>2. ASSUME alg = "dash_gaussian" PROVE WithPly(Adds(alg, n))
  <2> DEFINE f == [kind |-> "ply", run |-> n]
  <2>1. f \in Plys(Result) /\ Result_(f) \in Adds(alg, n)
    BY <1>2 DEF Plys, Result, Adds
  <2>2. QED BY <2>1 DEF WithPly
<1>3. TakesPly(OfKind(Replaces(alg))) => alg = "dash_gaussian"
  BY DEF TakesPly, OfKind, Replaces, Algorithm
<1>4. QED BY <1>1, <1>2, <1>3

\* A step of worker w that keeps rows and links.
LEMMA RunType ==
  ASSUME Plain, Held, StageOne, NEW w \in Worker,
         \/ Dispatch(w) \/ RunLeaves(w) \/ RunLoad(w) \/ BeginCommit(w) \/ StageInputs(w)
         \/ Raise(w) \/ Crash(w) \/ FailLoad(w) \/ CancelLoad(w) \/ RegisterLoad(w)
         \/ RegisterPly(w) \/ EndCommit(w)
  PROVE  Plain' /\ Held' /\ StageOne'
<1> w \in Actor
  BY DEF Actor
<1>a. Fits(pc[w], mem[w])
  BY HeldFits
<1>b. task \in Row /\ StageFailed(task, link) \in Row
  BY FailedType DEF Plain
<1>c. TakesPly({}) = FALSE
  BY DEF TakesPly
<1>d. CASE Dispatch(w)
  <2>1. Fits("leased", None)
    BY DEF Fits
  <2>2. Held'
    BY <1>d, <2>1, GoesHeld DEF Dispatch, Step
  <2>3. Plain' /\ StageOne'
    BY <1>d, EventType DEF Dispatch, Plain, StageOne, ghosts
  <2>4. QED BY <2>2, <2>3
<1>e. CASE RunLeaves(w)
  <2>1. task' \in Row
    BY <1>e, <1>b DEF RunLeaves, Row, Status
  <2>2. QED
    BY <1>e, <2>1, EndsHeld DEF RunLeaves, Plain, StageOne, ghosts
<1>1. CASE RunLoad(w)
  <2>1. Fits("begin", [row |-> task])
    BY <1>b DEF Fits
  <2>2. Held'
    BY <1>1, <2>1, GoesHeld DEF RunLoad, Step
  <2>3. Plain' /\ StageOne'
    BY <1>1, EventType DEF RunLoad, Joins, Plain, StageOne
  <2>4. QED BY <2>2, <2>3
<1>2. CASE BeginCommit(w)
  <2> DEFINE m == [algorithm |-> mem[w].row.algorithm, inputs |-> Staged(mem[w].row.algorithm)]
  <2>1. mem[w].row \in Row
    BY <1>2, <1>a DEF BeginCommit, Fits
  <2>2. Fits("stage", m)
    BY <2>1, StagedOne DEF Fits, Row
  <2>3. Held'
    BY <1>2, <2>2, GoesHeld DEF BeginCommit, Step
  <2>4. task' \in Row
    <3>1. [mem[w].row EXCEPT !.status = "processing"] \in Row
      BY <2>1 DEF Row, Status
    <3>2. QED BY <1>2, <1>b, <3>1, FlushType DEF BeginCommit
  <2>5. Plain' /\ StageOne'
    BY <1>2, <2>4 DEF BeginCommit, Plain, StageOne, ghosts
  <2>6. QED BY <2>3, <2>5
<1>3. CASE StageInputs(w)
  <2> DEFINE m   == mem[w]
             dir == IF m.algorithm = "dash_gaussian_mesh" /\ m.inputs # {}
                      THEN Restored(link, CHOOSE p \in m.inputs : TRUE)
                      ELSE {}
             n   == [algorithm |-> m.algorithm, inputs |-> m.inputs, dir |-> dir]
  <2>1. Plain' /\ StageOne'
    BY <1>3 DEF StageInputs, Plain, StageOne, ghosts
  <2>2. /\ m.algorithm \in Algorithm
        /\ m.algorithm = "dash_gaussian_mesh" => AtMostOne(m.inputs)
    BY <1>3, <1>a DEF StageInputs, Fits
  <2>3. CASE m.inputs # {} /\ (m.algorithm = "dash_gaussian_mesh" => HasCfg(dir))
    <3>1. Goes(w, "run", n)
      BY <1>3, <2>3 DEF StageInputs
    <3>2. dir \subseteq Result
      BY RestoredOne
    <3>3. ASSUME m.algorithm = "dash_gaussian_mesh", NEW f \in dir, NEW p \in m.inputs
          PROVE  f.run = p.run
      <4>1. (CHOOSE q \in m.inputs : TRUE) = p
        BY <2>2, <3>3 DEF AtMostOne
      <4>2. f \in Restored(link, p)
        BY <3>3, <4>1
      <4>3. QED BY <4>2, RestoredOne
    <3> HIDE DEF dir
    <3>4. Fits("run", n)
      BY <2>2, <2>3, <3>2, <3>3 DEF Fits
    <3>5. QED BY <2>1, <3>1, <3>4, GoesHeld DEF Step
  <2>4. CASE ~(m.inputs # {} /\ (m.algorithm = "dash_gaussian_mesh" => HasCfg(dir)))
    <3>1. Goes(w, "raised", None)
      BY <1>3, <2>4 DEF StageInputs
    <3>2. QED BY <2>1, <3>1, EndsHeld
  <2>5. QED BY <2>3, <2>4
<1>4. CASE Raise(w)
  BY <1>4, EventType, EndsHeld DEF Raise, Plain, StageOne, ghosts
<1>5. CASE Crash(w)
  BY <1>5, EventType, EndsHeld DEF Crash, Plain, StageOne, ghosts
<1>6. CASE FailLoad(w)
  <2>1. Fits("end", [row |-> task, to |-> StageFailed(task, link), drop |-> {}, add |-> {}])
    BY <1>b, <1>c DEF Fits
  <2>2. QED
    BY <1>6, <2>1, GoesHeld DEF FailLoad, Step, Plain, StageOne, ghosts
<1>7. CASE CancelLoad(w)
  <2>1. [task EXCEPT !.status = "cancelled"] \in Row
    BY <1>b DEF Row, Status
  <2>2. Fits("end", [row |-> task, to |-> [task EXCEPT !.status = "cancelled"],
                     drop |-> {}, add |-> {}])
    BY <1>b, <1>c, <2>1 DEF Fits
  <2>3. QED
    BY <1>7, <2>2, GoesHeld DEF CancelLoad, Step, Plain, StageOne, ghosts
<1>8. CASE RegisterLoad(w)
  <2>1. CASE task.algorithm # mem[w].algorithm
    <3>1. Fits("end", [row |-> task, to |-> StageFailed(task, link), drop |-> {}, add |-> {}])
      BY <1>b, <1>c DEF Fits
    <3>2. QED
      BY <1>8, <2>1, <3>1, GoesHeld DEF RegisterLoad, Step, Plain, StageOne
  <2>2. CASE task.algorithm = mem[w].algorithm
    <3> DEFINE m == [row  |-> task, to |-> [task EXCEPT !.status = "completed"],
                     drop |-> OfKind(Replaces(task.algorithm)),
                     add  |-> Adds(task.algorithm, runs')]
    <3>1. runs' \in Run /\ runs' \in 0..MaxRuns
      BY <1>8, <2>2, FilesAssumption DEF RegisterLoad, Plain, Run
    <3>2. task.algorithm \in Algorithm /\ [task EXCEPT !.status = "completed"] \in Row
      BY <1>b DEF Row, Status
    <3>3. /\ m.add \subseteq NewResults
          /\ task.algorithm = "dash_gaussian" => WithPly(m.add)
          /\ TakesPly(m.drop) => WithPly(m.add)
      BY <3>1, <3>2, AddsPly DEF NewResults
    <3>4. Fits("registered", m)
      BY <1>b, <3>2, <3>3 DEF Fits
    <3>5. Held'
      BY <1>8, <2>2, <3>4, GoesHeld DEF RegisterLoad, Step
    <3>6. made' \in [Run -> SUBSET Run]
      <4>1. \A f \in mem[w].dir : f.run \in Run
        BY <1>8, <1>a DEF RegisterLoad, Fits, Result
      <4>2. QED BY <1>8, <2>2, <4>1 DEF RegisterLoad, Plain
    <3>7. QED
      BY <1>8, <3>1, <3>5, <3>6 DEF RegisterLoad, Plain, StageOne
  <2>3. QED BY <2>1, <2>2
<1>9. CASE RegisterPly(w)
  <2> DEFINE m == mem[w]
             n == IF m.row.algorithm = "dash_gaussian"
                    THEN [m EXCEPT !.drop = @ \cup OfKind({"ply"}) \cup Outdated]
                    ELSE m
  <2>1. pc[w] = "registered" /\ Goes(w, "end", n)
    BY <1>9 DEF RegisterPly
  <2>2. Fits("registered", m)
    BY <1>a, <2>1
  <2>3. /\ n = [row |-> n.row, to |-> n.to, drop |-> n.drop, add |-> n.add]
        /\ n.row = m.row /\ n.to = m.to /\ n.add = m.add
        /\ m.row.algorithm # "dash_gaussian" => n.drop = m.drop
    <3>1. m = [row |-> m.row, to |-> m.to, drop |-> m.drop, add |-> m.add]
      BY <2>2 DEF Fits
    <3>2. QED BY <3>1
  <2> HIDE DEF m, n
  <2>4. Fits("end", n)
    BY <2>2, <2>3 DEF Fits
  <2>5. QED
    BY <1>9, <2>1, <2>4, GoesHeld DEF RegisterPly, Step, Plain, StageOne, ghosts
<1>10. CASE EndCommit(w)
  <2> DEFINE m == mem[w]
  <2>1. m.to \in Row /\ m.add \subseteq NewResults
    BY <1>10, <1>a DEF EndCommit, Fits
  <2>2. task' \in Row
    BY <1>10, <1>b, <2>1, FlushType DEF EndCommit
  <2>3. link' = (link \ m.drop) \cup m.add
    BY <1>10 DEF EndCommit
  <2>4. link' \subseteq LinkRow
    BY <2>1, <2>3 DEF Plain, LinkRow, NewResults
  <2>5. StageOne'
    <3>1. \A l \in m.add : l.role = "result"
      BY <2>1 DEF NewResults, Result_
    <3>2. QED BY <2>3, <3>1 DEF StageOne
  <2>6. Plain'
    BY <1>10, <2>2, <2>4 DEF EndCommit, Plain, ghosts
  <2>7. QED BY <1>10, <2>5, <2>6, EndsHeld DEF EndCommit
<1>11. QED BY <1>d, <1>e, <1>1, <1>2, <1>3, <1>4, <1>5, <1>6, <1>7, <1>8, <1>9, <1>10

-----------------------------------------------------------------------------

\* No step breaks types, what the sessions hold, and that a Mesh run has one PLY.
LEMMA NextType ==
  Plain /\ Held /\ StageOne /\ [Next]_vars => Plain' /\ Held' /\ StageOne'
<1> SUFFICES ASSUME Plain, Held, StageOne, [Next]_vars PROVE Plain' /\ Held' /\ StageOne'
  OBVIOUS
<1>1. CASE UNCHANGED vars
  BY <1>1 DEF vars, sessions, ghosts, Plain, Held, StageOne
<1>2. ASSUME NEW f \in Input, Attach(f) PROVE Plain' /\ Held' /\ StageOne'
  <2>1. link' \subseteq LinkRow /\ StageOne'
    BY <1>2 DEF Attach, Plain, LinkRow, StageOne, Input_
  <2>2. QED
    BY <1>2, <2>1, EventType DEF Attach, Plain, Held, sessions, ghosts
<1>3. ASSUME NEW again \in BOOLEAN, Recover(again) PROVE Plain' /\ Held' /\ StageOne'
  <2>1. task' \in Row
    <3>1. [task EXCEPT !.status = "queued"] \in Row
      BY DEF Plain, Row, Status
    <3>2. QED BY <1>3, <3>1, FailedType DEF Recover, Plain
  <2>2. {overlapped', revived'} \subseteq BOOLEAN /\ events' \in 0..MaxEvents
    BY <1>3, EventType DEF Recover, Plain
  <2>3. QED
    BY <1>3, <2>1, <2>2 DEF Recover, Plain, Held, StageOne, sessions
<1>4. QED
  BY <1>1, <1>2, <1>3, RequestType, RunType DEF Next

\* Links, rows and what sessions hold of them (models.task) keep their types.
THEOREM TypeCorrect == Spec => []TypeOK
<1>1. (Plain /\ Held /\ StageOne) /\ [Next]_vars => (Plain /\ Held /\ StageOne)'
  BY NextType
<1>2. QED BY <1>1, InitType, HeldTypes, PTL DEF Spec

\* A Mesh run (run_reconstruction_algorithm) works in the model directory of one generation,
\* the selected PLY's.
THEOREM GenerationsApart == Spec => []OneGeneration
<1>1. (Plain /\ Held /\ StageOne) /\ [Next]_vars => (Plain /\ Held /\ StageOne)'
  BY NextType
<1>2. Held => OneGeneration
  BY HeldFits DEF Fits, OneGeneration, Actor
<1>3. QED BY <1>1, <1>2, InitType, PTL DEF Spec

-----------------------------------------------------------------------------
(* A PLY stays *)

\* Results that somebody can have seen, or is deleting.
Shown ==
  {f \in Result : Result_(f) \in link} \cup gone
    \cup {mem[a].file : a \in {b \in Actor : pc[b] = "delete"}}

\* Results that session a is about to link.
Adding(a) ==
  IF pc[a] \in {"registered", "end"} THEN {f \in Result : Result_(f) \in mem[a].add} ELSE {}

\* They are new: nobody has seen them, and no other session adds them.
Unseen ==
  /\ \A f \in Shown \cap Result : f.run <= runs
  /\ \A a \in Actor : \A f \in Adding(a) :
       f.run <= runs /\ f \notin Shown /\ \A b \in Actor : f \in Adding(b) => b = a

\* At first nothing is shown or added.
LEMMA InitUnseen == Init => Unseen
BY DEF Init, Unseen, Shown, Adding

\* A step that shows and adds nothing new.
LEMMA UnseenKept ==
  ASSUME Unseen, runs' = runs, Shown' \cap Result \subseteq Shown,
         \A a \in Actor : Adding(a)' \subseteq Adding(a)
  PROVE  Unseen'
BY DEF Unseen, Adding

\* The sessions after a step of one of them.
LEMMA GoesTo ==
  ASSUME Held, NEW a \in Actor, NEW step, NEW m, Goes(a, step, m)
  PROVE  \A b \in Actor : /\ pc'[b]  = IF b = a THEN step ELSE pc[b]
                          /\ mem'[b] = IF b = a THEN m ELSE mem[b]
BY DEF Goes, Held

\* A session that goes to a step without results, or with those that it had.
LEMMA AddingGoes ==
  ASSUME Held, NEW a \in Actor, NEW step, NEW m, Goes(a, step, m),
         \/ step \notin {"registered", "end"}
         \/ m.add = {}
         \/ pc[a] \in {"registered", "end"} /\ m.add = mem[a].add
  PROVE  \A b \in Actor : Adding(b)' \subseteq Adding(b)
<1>1. ASSUME NEW b \in Actor PROVE Adding(b)' \subseteq Adding(b)
  <2>1. /\ pc'[b]  = IF b = a THEN step ELSE pc[b]
        /\ mem'[b] = IF b = a THEN m ELSE mem[b]
    BY GoesTo
  <2>2. QED BY <2>1 DEF Adding
<1>2. QED BY <1>1

\* What is shown after a step of session a that deletes nothing new.
LEMMA ShownGoes ==
  ASSUME Held, NEW a \in Actor, NEW step, NEW m, Goes(a, step, m),
         gone' = gone, step # "delete",
         \A f \in Result : Result_(f) \in link' => Result_(f) \in link
  PROVE  Shown' \subseteq Shown
<1>1. \A b \in Actor : pc'[b] = "delete" => pc[b] = "delete" /\ mem'[b] = mem[b]
  BY GoesTo
<1>2. QED BY <1>1 DEF Shown

\* A result's link is no other's.
LEMMA ResultLinks ==
  /\ \A f, g : Result_(f) = Result_(g) => f = g
  /\ \A f, g : Result_(f) # Input_(g) /\ Result_(f) # Stage(g)
  /\ \A f : Result_(f).role = "result" /\ Result_(f).file = f
BY DEF Result_, Input_, Stage

\* A request deletes only what has been linked, and adds no results.
LEMMA RequestUnseen ==
  ASSUME Plain, Held, Unseen, NEW c \in Client,
         \/ StartCommit(c) \/ MeshCommit(c) \/ DeleteCommit(c)
         \/ \E selected \in SUBSET Input : StartLoad(c, selected)
         \/ \E alg \in MeshAlgorithm :
                   \E selected \in Selectable(alg) : MeshLoad(c, alg, selected)
         \/ \E f \in Input \cup ResultsOf(link) : DeleteLoad(c, f)
  PROVE  Unseen'
<1> c \in Actor
  BY DEF Actor
<1>1. ASSUME NEW selected \in SUBSET Input, StartLoad(c, selected) PROVE Unseen'
  BY <1>1, AddingGoes, ShownGoes, UnseenKept DEF StartLoad
<1>2. CASE StartCommit(c)
  <2>1. \A f \in Result : Result_(f) \in link' => Result_(f) \in link
    BY <1>2, ResultLinks DEF StartCommit
  <2>2. Goes(c, "idle", None) /\ gone' = gone /\ runs' = runs
    BY <1>2 DEF StartCommit, Ends
  <2>3. QED BY <2>1, <2>2, AddingGoes, ShownGoes, UnseenKept
<1>3. ASSUME NEW alg \in MeshAlgorithm, NEW selected \in Selectable(alg), MeshLoad(c, alg, selected)
      PROVE  Unseen'
  BY <1>3, AddingGoes, ShownGoes, UnseenKept DEF MeshLoad
<1>4. CASE MeshCommit(c)
  <2>1. \A f \in Result : Result_(f) \in link' => Result_(f) \in link
    BY <1>4, ResultLinks DEF MeshCommit
  <2>2. Goes(c, "idle", None) /\ gone' = gone /\ runs' = runs
    BY <1>4 DEF MeshCommit, Ends
  <2>3. QED BY <2>1, <2>2, AddingGoes, ShownGoes, UnseenKept
<1>5. ASSUME NEW f \in Input \cup ResultsOf(link), DeleteLoad(c, f) PROVE Unseen'
  <2> DEFINE m == [row |-> task, file |-> f, links |-> {l \in link : l.file = f}]
  <2>1. Goes(c, "delete", m) /\ m.file = f /\ UNCHANGED <<link, gone, runs>>
    BY <1>5 DEF DeleteLoad
  <2> HIDE DEF m
  <2>2. \A b \in Actor : pc'[b] = "delete" =>
          \/ pc[b] = "delete" /\ mem'[b] = mem[b]
          \/ mem'[b].file = f
    BY <2>1, GoesTo
  <2>3. f \in Result => f \in Shown
    <3>1. ASSUME f \in Result PROVE f \in Shown
      <4>1. PICK l \in link : l.role = "result" /\ l.file = f
        BY <3>1, FilesAssumption DEF ResultsOf
      <4>2. l = Result_(f)
        BY <4>1, Roles DEF Plain
      <4>3. QED BY <3>1, <4>1, <4>2 DEF Shown
    <3>2. QED BY <3>1
  <2>4. Shown' \subseteq Shown \cup {f}
    BY <2>1, <2>2 DEF Shown
  <2>5. QED BY <2>1, <2>3, <2>4, AddingGoes, UnseenKept
<1>6. CASE DeleteCommit(c)
  <2>1. /\ pc[c] = "delete" /\ Goes(c, "idle", None) /\ runs' = runs
        /\ link' \subseteq link /\ gone' = gone \cup {mem[c].file}
    BY <1>6 DEF DeleteCommit, Ends
  <2>2. \A b \in Actor : pc'[b] = "delete" => pc[b] = "delete" /\ mem'[b] = mem[b]
    BY <2>1, GoesTo
  <2>3. Shown' \subseteq Shown
    BY <2>1, <2>2 DEF Shown
  <2>4. QED BY <2>1, <2>3, AddingGoes, UnseenKept
<1>7. QED BY <1>1, <1>2, <1>3, <1>4, <1>5, <1>6

\* A run registers results with a number of its own, and shows them when it ends.
LEMMA RunUnseen ==
  ASSUME Plain, Held, Unseen, NEW w \in Worker,
         \/ Dispatch(w) \/ RunLeaves(w) \/ RunLoad(w) \/ BeginCommit(w) \/ StageInputs(w)
         \/ Raise(w) \/ Crash(w) \/ FailLoad(w) \/ CancelLoad(w) \/ RegisterLoad(w)
         \/ RegisterPly(w) \/ EndCommit(w)
  PROVE  Unseen'
<1> w \in Actor
  BY DEF Actor
<1>1. CASE Dispatch(w) \/ RunLeaves(w) \/ RunLoad(w)
  <2>1. /\ UNCHANGED <<link, gone, runs>>
        /\ \E step \in {"leased", "idle", "begin"} : \E m : Goes(w, step, m)
    BY <1>1 DEF Dispatch, RunLeaves, RunLoad, Ends
  <2>2. QED BY <2>1, AddingGoes, ShownGoes, UnseenKept
<1>2. CASE BeginCommit(w)
  BY <1>2, AddingGoes, ShownGoes, UnseenKept DEF BeginCommit
<1>3. CASE StageInputs(w)
  <2>1. \E m : Goes(w, "run", m) \/ Goes(w, "raised", m)
    BY <1>3 DEF StageInputs
  <2>2. QED BY <1>3, <2>1, AddingGoes, ShownGoes, UnseenKept DEF StageInputs
<1>4. CASE Raise(w)
  BY <1>4, AddingGoes, ShownGoes, UnseenKept DEF Raise
<1>5. CASE Crash(w)
  BY <1>5, AddingGoes, ShownGoes, UnseenKept DEF Crash, Ends
<1>6. CASE FailLoad(w) \/ CancelLoad(w)
  <2>1. /\ UNCHANGED <<link, gone, runs>>
        /\ \E to : Goes(w, "end", [row |-> task, to |-> to, drop |-> {}, add |-> {}])
    BY <1>6 DEF FailLoad, CancelLoad
  <2>2. QED BY <2>1, AddingGoes, ShownGoes, UnseenKept
<1>7. CASE RegisterLoad(w)
  <2>1. CASE task.algorithm # mem[w].algorithm
    <3>1. /\ UNCHANGED <<link, gone, runs>>
          /\ \E to : Goes(w, "end", [row |-> task, to |-> to, drop |-> {}, add |-> {}])
      BY <1>7, <2>1 DEF RegisterLoad
    <3>2. QED BY <3>1, AddingGoes, ShownGoes, UnseenKept
  <2>2. CASE task.algorithm = mem[w].algorithm
    <3> DEFINE m == [row  |-> task, to |-> [task EXCEPT !.status = "completed"],
                     drop |-> OfKind(Replaces(task.algorithm)),
                     add  |-> Adds(task.algorithm, runs')]
    <3>1. Goes(w, "registered", m) /\ runs' = runs + 1 /\ UNCHANGED <<link, gone>>
      BY <1>7, <2>2 DEF RegisterLoad
    <3>2. runs \in Nat /\ runs' \in Run
      BY <1>7, <2>2, FilesAssumption DEF RegisterLoad, Plain, Run
    <3>3. \A f \in Result : Result_(f) \in m.add => f.run = runs'
      BY <3>2, AddsPly, ResultLinks DEF Plain, Row
    <3> HIDE DEF m
    <3>4. Shown' \subseteq Shown
      BY <3>1, ShownGoes
    <3>5. \A b \in Actor : b # w => Adding(b)' = Adding(b)
      BY <3>1, GoesTo DEF Adding
    <3>6. \A f \in Adding(w)' : f.run = runs'
      BY <3>1, <3>3, GoesTo DEF Adding
    <3>7. \A f \in Result : f.run \in Nat
      BY DEF Result, Run
    <3>8. \A f \in Shown' \cap Result : f.run <= runs
      BY <3>4 DEF Unseen
    <3>9. \A b \in Actor : b # w => \A f \in Adding(b) : f.run <= runs /\ f \notin Shown'
      BY <3>4 DEF Unseen
    <3>10. \A b \in Actor : Adding(b)' \subseteq Result
      BY DEF Adding
    <3>11. \A f \in Shown' \cap Result : f.run <= runs'
      BY <3>1, <3>2, <3>7, <3>8
    <3>12. ASSUME NEW b \in Actor, NEW f \in Adding(b)'
           PROVE  f.run <= runs' /\ f \notin Shown' /\ \A d \in Actor : f \in Adding(d)' => d = b
      <4>1. f \in Result
        BY <3>10
      <4>2. CASE b = w
        <5>1. f.run = runs'
          BY <3>6, <4>2
        <5>2. f \notin Shown'
          BY <3>1, <3>2, <3>8, <4>1, <5>1
        <5>3. \A d \in Actor : d # w => f \notin Adding(d)'
          BY <3>1, <3>2, <3>5, <3>9, <5>1
        <5>4. QED BY <3>2, <4>2, <5>1, <5>2, <5>3 DEF Run
      <4>3. CASE b # w
        <5>1. f \in Adding(b)
          BY <3>5, <4>3
        <5>2. f.run <= runs /\ f \notin Shown'
          BY <3>9, <4>3, <5>1
        <5>3. f.run # runs'
          BY <3>1, <3>2, <3>7, <4>1, <5>2
        <5>4. \A d \in Actor : f \in Adding(d)' => d = b
          <6>1. ASSUME NEW d \in Actor, f \in Adding(d)' PROVE d = b
            <7>1. d # w
              BY <3>6, <5>3, <6>1
            <7>2. f \in Adding(d)
              BY <3>5, <6>1, <7>1
            <7>3. QED BY <5>1, <7>2 DEF Unseen
          <6>2. QED BY <6>1
        <5>5. QED BY <3>1, <3>2, <3>7, <4>1, <5>2, <5>4
      <4>4. QED BY <4>2, <4>3
    <3>13. QED BY <3>11, <3>12 DEF Unseen
  <2>3. QED BY <2>1, <2>2
<1>8. CASE RegisterPly(w)
  <2> DEFINE n == IF mem[w].row.algorithm = "dash_gaussian"
                    THEN [mem[w] EXCEPT !.drop = @ \cup OfKind({"ply"}) \cup Outdated]
                    ELSE mem[w]
  <2>1. pc[w] = "registered" /\ UNCHANGED <<link, gone, runs>> /\ Goes(w, "end", n)
    BY <1>8 DEF RegisterPly
  <2>2. n.add = mem[w].add
    <3>1. mem[w] = [row |-> mem[w].row, to |-> mem[w].to, drop |-> mem[w].drop, add |-> mem[w].add]
      BY <2>1, HeldFits DEF Fits
    <3>2. QED BY <3>1
  <2> HIDE DEF n
  <2>3. QED BY <2>1, <2>2, AddingGoes, ShownGoes, UnseenKept
<1>9. CASE EndCommit(w)
  <2>1. /\ pc[w] = "end" /\ Goes(w, "idle", None) /\ gone' = gone /\ runs' = runs
        /\ link' \subseteq link \cup mem[w].add
    BY <1>9 DEF EndCommit, Ends
  <2>2. \A b \in Actor : pc'[b] = "delete" => pc[b] = "delete" /\ mem'[b] = mem[b]
    BY <2>1, GoesTo
  <2>3. Shown' \subseteq Shown \cup Adding(w)
    BY <2>1, <2>2 DEF Shown, Adding
  <2>4. \A b \in Actor : /\ pc'[b]  = IF b = w THEN "idle" ELSE pc[b]
                         /\ mem'[b] = IF b = w THEN None ELSE mem[b]
    BY <2>1, GoesTo
  <2>5. Adding(w)' = {} /\ \A b \in Actor : b # w => Adding(b)' = Adding(b)
    BY <2>4 DEF Adding
  <2>6. QED BY <2>1, <2>3, <2>5 DEF Unseen
<1>10. QED BY <1>1, <1>2, <1>3, <1>4, <1>5, <1>6, <1>7, <1>8, <1>9

\* So results that are to be added stay unseen.
LEMMA NextUnseen == Plain /\ Held /\ Unseen /\ [Next]_vars => Unseen'
<1> SUFFICES ASSUME Plain, Held, Unseen, [Next]_vars PROVE Unseen'
  OBVIOUS
<1>1. CASE UNCHANGED <<link, gone, runs, pc, mem>>
  BY <1>1, UnseenKept DEF Shown, Adding
<1>2. ASSUME NEW f \in Input, Attach(f) PROVE Unseen'
  <2>1. \A g \in Result : Result_(g) \in link' => Result_(g) \in link
    BY <1>2, ResultLinks DEF Attach
  <2>2. UNCHANGED <<gone, runs, pc, mem>>
    BY <1>2 DEF Attach, sessions
  <2>3. QED BY <2>1, <2>2, UnseenKept DEF Shown, Adding
<1>3. QED
  BY <1>1, <1>2, RequestUnseen, RunUnseen DEF Next, vars, sessions, Recover

\* A PLY is a result of the task if it is linked as one and was not deleted.
LEMMA HasPlyIs ==
  ASSUME Plain
  PROVE  HasPly(link) <=> \E p \in Plys(Result) : Result_(p) \in link /\ p \notin gone
<1>1. ASSUME HasPly(link) PROVE \E p \in Plys(Result) : Result_(p) \in link /\ p \notin gone
  <2>1. PICK p \in ResultsOf(link) : p.kind = "ply"
    BY <1>1 DEF HasPly, Plys
  <2>2. PICK l \in link : l.role = "result" /\ l.file = p /\ p \notin gone
    BY <2>1 DEF ResultsOf
  <2>3. p \in Result /\ l = Result_(p)
    BY <2>2, Roles DEF Plain
  <2>4. QED BY <2>1, <2>2, <2>3 DEF Plys
<1>2. ASSUME NEW p \in Plys(Result), Result_(p) \in link, p \notin gone PROVE HasPly(link)
  <2>1. p \in ResultsOf(link) /\ p.kind = "ply"
    BY <1>2, ResultLinks DEF ResultsOf, Plys
  <2>2. QED BY <2>1 DEF HasPly, Plys
<1>3. QED BY <1>1, <1>2

\* A PLY that is linked after a step, and was not deleted, is a result of the task.
LEMMA HasPlyNext ==
  ASSUME Plain', NEW p \in Plys(Result), Result_(p) \in link', p \notin gone'
  PROVE  HasPly(link)'
<1>1. p \in ResultsOf(link)' /\ p.kind = "ply"
  BY ResultLinks DEF ResultsOf, Plys
<1>2. QED BY <1>1 DEF HasPly, Plys

\* The end of a run that removes a PLY adds one, which nobody can have deleted.
LEMMA EndPly ==
  ASSUME Plain, Held, Unseen, NEW w \in Worker, EndCommit(w), Plain', HasPly(link)
  PROVE  HasPly(link)'
<1> DEFINE m == mem[w]
<1> w \in Actor
  BY DEF Actor
<1>1. /\ pc[w] = "end" /\ gone' = gone
      /\ link' = (link \ m.drop) \cup m.add
  BY DEF EndCommit
<1>2. TakesPly(m.drop) => WithPly(m.add)
  BY <1>1, HeldFits DEF Fits
<1>3. PICK p \in Plys(Result) : Result_(p) \in link /\ p \notin gone
  BY HasPlyIs
<1>4. CASE Result_(p) \in m.drop
  <2>1. TakesPly(m.drop)
    BY <1>4, ResultLinks DEF TakesPly, Plys
  <2>2. PICK q \in Plys(Result) : Result_(q) \in m.add
    BY <1>2, <2>1 DEF WithPly
  <2>3. q \in Adding(w)
    BY <1>1, <2>2 DEF Adding, Plys
  <2>4. q \notin gone
    BY <2>3 DEF Unseen, Shown
  <2>5. QED BY <1>1, <2>2, <2>4, HasPlyNext
<1>5. CASE Result_(p) \notin m.drop
  BY <1>1, <1>3, <1>5, HasPlyNext
<1>6. QED BY <1>4, <1>5

\* No step takes the last PLY, unless it deletes a file.
LEMMA NextPly ==
  Plain /\ Held /\ Unseen /\ Plain' /\ [Next]_vars
    => [HasPly(link) => HasPly(link)' \/ gone' # gone]_vars
<1> SUFFICES ASSUME Plain, Held, Unseen, Plain', Next, HasPly(link), gone' = gone
             PROVE  HasPly(link)'
  BY DEF vars
<1> DEFINE Kept == \A f \in Result : Result_(f) \in link => Result_(f) \in link'
<1>1. ASSUME Kept PROVE HasPly(link)'
  <2>1. PICK p \in Plys(Result) : Result_(p) \in link /\ p \notin gone
    BY HasPlyIs
  <2>2. QED BY <1>1, <2>1, HasPlyNext DEF Plys
<1>2. ASSUME NEW c \in Client, StartCommit(c) \/ MeshCommit(c) PROVE Kept
  BY <1>2, ResultLinks DEF StartCommit, MeshCommit
<1>3. ASSUME NEW c \in Client, DeleteCommit(c) PROVE HasPly(link)'
  <2>1. \A l \in mem[c].links : l.file = mem[c].file
    BY <1>3, HeldFits DEF DeleteCommit, Fits, Actor
  <2>2. mem[c].file \in gone /\ link' = link \ mem[c].links
    BY <1>3 DEF DeleteCommit
  <2>3. PICK p \in Plys(Result) : Result_(p) \in link /\ p \notin gone
    BY HasPlyIs
  <2>4. Result_(p) \notin mem[c].links
    BY <2>1, <2>2, <2>3, ResultLinks
  <2>5. QED BY <2>2, <2>3, <2>4, HasPlyNext
<1>4. ASSUME NEW c \in Client,
             \/ \E selected \in SUBSET Input : StartLoad(c, selected)
             \/ \E alg \in MeshAlgorithm :
                   \E selected \in Selectable(alg) : MeshLoad(c, alg, selected)
             \/ \E f \in Input \cup ResultsOf(link) : DeleteLoad(c, f)
      PROVE  Kept
  BY <1>4 DEF StartLoad, MeshLoad, DeleteLoad
<1>5. ASSUME NEW f \in Input, Attach(f) PROVE Kept
  BY <1>5 DEF Attach
<1>6. ASSUME NEW w \in Worker,
             \/ Dispatch(w) \/ RunLeaves(w) \/ RunLoad(w) \/ BeginCommit(w) \/ StageInputs(w)
             \/ Raise(w) \/ Crash(w) \/ FailLoad(w) \/ CancelLoad(w) \/ RegisterLoad(w)
             \/ RegisterPly(w)
      PROVE  Kept
  BY <1>6 DEF Dispatch, RunLeaves, RunLoad, BeginCommit, StageInputs, Raise, Crash, FailLoad, CancelLoad,
              RegisterLoad, RegisterPly
<1>7. ASSUME NEW again \in BOOLEAN, Recover(again) PROVE Kept
  BY <1>7 DEF Recover
<1> HIDE DEF Kept
<1>8. QED
  BY <1>1, <1>2, <1>3, <1>4, <1>5, <1>6, <1>7, EndPly DEF Next

\* The task keeps a PLY through every run, whether it ends, fails, dies or is overtaken by
\* another one: registering results brings the new one with the commit that takes the old.
THEOREM PlyKept == Spec => PlyStays
<1>1. Init => Plain /\ Held /\ StageOne /\ Unseen
  BY InitType, InitUnseen
<1>2. (Plain /\ Held /\ StageOne /\ Unseen) /\ [Next]_vars => (Plain /\ Held /\ StageOne /\ Unseen)'
  BY NextType, NextUnseen
<1>3. Plain /\ Held /\ Unseen /\ Plain' /\ [Next]_vars
        => [HasPly(link) => HasPly(link)' \/ gone' # gone]_vars
  BY NextPly
<1>4. QED BY <1>1, <1>2, <1>3, PTL DEF Spec, PlyStays

-----------------------------------------------------------------------------
(* One request and one run at a time *)

\* Steps of a request or a run that is under way: a worker that only has its lease may still
\* leave the task alone.
Busy == Step \ {"idle", "leased"}

\* One of them at most is under way.
AtMostOneBusy(actors) == \A a, b \in actors : pc[a] \in Busy /\ pc[b] \in Busy => a = b

\* So it is with requests and with runs, unless two have overlapped.
Alone == ~overlapped => AtMostOneBusy(Client) /\ AtMostOneBusy(Worker)

\* A new task has nobody at work on it.
LEMMA InitAlone == Init => Alone
BY DEF Init, Alone, AtMostOneBusy, Busy, Actor

\* Nobody joins in a step without a load.
LEMMA AloneKept ==
  ASSUME Alone, overlapped => overlapped',
         \A a \in Actor : pc'[a] \in Busy => pc[a] \in Busy
  PROVE  Alone'
BY DEF Alone, AtMostOneBusy, Actor

\* Nor in one that a session takes after it has begun.
LEMMA AloneGoes ==
  ASSUME Held, Alone, NEW a \in Actor, NEW step, NEW m, Goes(a, step, m),
         pc[a] \in Busy \/ step \in {"idle", "leased"}, overlapped' = overlapped
  PROVE  Alone'
<1>1. \A b \in Actor : pc'[b] \in Busy => pc[b] \in Busy
  BY GoesTo DEF Busy
<1>2. QED BY <1>1, AloneKept

\* A session that begins sees who else is at work.
LEMMA AloneJoins ==
  ASSUME Plain, Held, Alone, NEW a \in Actor, NEW step, NEW m, Goes(a, step, m),
         \/ a \in Client /\ Joins(a, Client)
         \/ a \in Worker /\ Joins(a, Worker)
  PROVE  Alone'
<1> SUFFICES ASSUME ~overlapped' PROVE AtMostOneBusy(Client)' /\ AtMostOneBusy(Worker)'
  BY DEF Alone
<1>1. \A b \in Actor : pc'[b]  = IF b = a THEN step ELSE pc[b]
  BY GoesTo
<1>2. AtMostOneBusy(Client) /\ AtMostOneBusy(Worker)
  BY DEF Alone, Joins
<1>3. CASE a \in Client /\ Joins(a, Client)
  <2>1. a \notin Worker /\ \A b \in Client \ {a} : pc[b] \notin Busy
    BY <1>3, FilesAssumption DEF Joins, Busy
  <2>2. QED BY <1>1, <1>2, <2>1 DEF AtMostOneBusy, Actor
<1>4. CASE a \in Worker /\ Joins(a, Worker)
  <2>1. a \notin Client /\ \A b \in Worker \ {a} : pc[b] \notin Busy
    BY <1>4, FilesAssumption DEF Joins, Busy
  <2>2. QED BY <1>1, <1>2, <2>1 DEF AtMostOneBusy, Actor
<1>5. QED BY <1>3, <1>4

\* No step lets two work at one time without noting it, or forgets that two did.
LEMMA NextAlone ==
  Plain /\ Held /\ Alone /\ [Next]_vars => Alone' /\ (overlapped => overlapped')
<1> SUFFICES ASSUME Plain, Held, Alone, [Next]_vars PROVE Alone' /\ (overlapped => overlapped')
  OBVIOUS
<1> Client \subseteq Actor /\ Worker \subseteq Actor
  BY DEF Actor
<1>1. CASE UNCHANGED vars
  BY <1>1 DEF vars, sessions, ghosts, Alone, AtMostOneBusy
<1>2. ASSUME NEW c \in Client, NEW selected \in SUBSET Input, StartLoad(c, selected)
      PROVE  Alone' /\ (overlapped => overlapped')
  BY <1>2, AloneJoins DEF StartLoad, Joins
<1>3. ASSUME NEW c \in Client, NEW alg \in MeshAlgorithm, NEW selected \in Selectable(alg),
             MeshLoad(c, alg, selected)
      PROVE  Alone' /\ (overlapped => overlapped')
  BY <1>3, AloneJoins DEF MeshLoad, Joins
<1>4. ASSUME NEW c \in Client, NEW f \in Input \cup ResultsOf(link), DeleteLoad(c, f)
      PROVE  Alone' /\ (overlapped => overlapped')
  BY <1>4, AloneJoins DEF DeleteLoad, Joins
<1>5. ASSUME NEW c \in Client, StartCommit(c) \/ MeshCommit(c) \/ DeleteCommit(c)
      PROVE  Alone' /\ (overlapped => overlapped')
  BY <1>5, AloneGoes DEF StartCommit, MeshCommit, DeleteCommit, Ends, ghosts
<1>6. ASSUME NEW f \in Input, Attach(f) PROVE Alone' /\ (overlapped => overlapped')
  BY <1>6, AloneKept DEF Attach, sessions, ghosts
<1>d. ASSUME NEW w \in Worker, Dispatch(w) \/ RunLeaves(w)
      PROVE  Alone' /\ (overlapped => overlapped')
  BY <1>d, AloneGoes DEF Dispatch, RunLeaves, Ends, ghosts
<1>7. ASSUME NEW w \in Worker, RunLoad(w) PROVE Alone' /\ (overlapped => overlapped')
  BY <1>7, AloneJoins DEF RunLoad, Joins
<1>8. ASSUME NEW w \in Worker,
             \/ BeginCommit(w) \/ StageInputs(w) \/ Raise(w) \/ Crash(w)
             \/ FailLoad(w) \/ CancelLoad(w) \/ RegisterLoad(w) \/ RegisterPly(w) \/ EndCommit(w)
      PROVE  Alone' /\ (overlapped => overlapped')
  <2>1. overlapped' = overlapped
    BY <1>8 DEF BeginCommit, StageInputs, Raise, Crash, FailLoad, CancelLoad, RegisterLoad,
                RegisterPly, EndCommit, ghosts
  <2>2. \E step, m : Goes(w, step, m) /\ (pc[w] \in Busy \/ step = "idle")
    <3>1. CASE BeginCommit(w) \/ Raise(w) \/ Crash(w) \/ FailLoad(w)
      BY <3>1 DEF BeginCommit, Raise, Crash, FailLoad, Ends, Busy, Step
    <3>2. CASE StageInputs(w)
      BY <3>2 DEF StageInputs, Busy, Step
    <3>3. CASE CancelLoad(w) \/ RegisterPly(w) \/ EndCommit(w)
      BY <3>3 DEF CancelLoad, RegisterPly, EndCommit, Ends, Busy, Step
    <3>4. CASE RegisterLoad(w)
      BY <3>4 DEF RegisterLoad, Busy, Step
    <3>5. QED BY <1>8, <3>1, <3>2, <3>3, <3>4
  <2>3. QED BY <2>1, <2>2, AloneGoes
<1>9. ASSUME NEW again \in BOOLEAN, Recover(again) PROVE Alone' /\ (overlapped => overlapped')
  <2>1. (overlapped => overlapped') /\ pc' = pc
    BY <1>9 DEF Recover, sessions
  <2>2. QED BY <2>1, AloneKept
<1>10. QED BY <1>1, <1>2, <1>3, <1>4, <1>5, <1>6, <1>d, <1>7, <1>8, <1>9 DEF Next

-----------------------------------------------------------------------------
(* A task has the inputs it was started with *)

\* The task waits or runs.
Active(row) == row.status \in {"queued", "processing"}

\* An input that is there and linked.
Present(f) == Input_(f) \in link /\ f \notin gone

\* The end of a run writes no column but the status, an inactive one, and removes no input.
EndsWell(step, m) ==
  step \in {"registered", "end"} =>
    /\ ~Active(m.to) /\ m.to.cancel = m.row.cancel
    /\ \A l \in m.drop : l.role # "input"

\* Every run that is about to end does.
EndsOnly == \A w \in Worker : EndsWell(pc[w], mem[w])

\* A request that starts a stage found the task at rest; what it selected is still there.
StartsFresh ==
  \A c \in Client :
    /\ pc[c] \in {"start", "mesh"} => ~Active(mem[c].row)
    /\ pc[c] = "start" => mem[c].selected \cap gone = {}
    /\ pc[c] = "mesh" /\ mem[c].algorithm = "hunyuan3d" =>
         \A f \in mem[c].selected : Present(f)

\* A request that deletes an input of an active task has seen that it is one.
DeletesKnown ==
  \A c \in Client : pc[c] = "delete" =>
    /\ mem[c].row.cancel => task.cancel
    /\ mem[c].file \in asked /\ Active(task) /\ ~task.cancel =>
         Input_(mem[c].file) \in mem[c].links /\ Active(mem[c].row)

\* A run that is to set the status does so for a task that is queued, or was told to stop since.
BeginsQueued ==
  \A w \in Worker : pc[w] = "begin" /\ mem[w].row.status # "processing" =>
    task.status = "queued" \/ task.cancel

\* InputsKept, link by link.
AskedPresent == Active(task) /\ ~task.cancel => \A f \in asked : Present(f)

KeptNow == DeletesKnown /\ BeginsQueued /\ AskedPresent

\* What makes InputsKept inductive.  A start sets it right again after a run that was begun of a
\* task that neither waited nor ran: so StartsFresh has to hold through that one.
KeepsInputs ==
  /\ EndsOnly
  /\ ~overlapped => StartsFresh
  /\ ~overlapped /\ ~revived => KeptNow

\* An original input is linked, and was not deleted.
LEMMA PresentIs ==
  ASSUME Plain, NEW f
  PROVE  f \in InputsOf(link) <=> Present(f)
<1>1. ASSUME f \in InputsOf(link) PROVE Present(f)
  <2>1. PICK l \in link : l.role = "input" /\ l.file = f /\ f \notin gone
    BY <1>1 DEF InputsOf
  <2>2. l = Input_(f)
    BY <2>1 DEF Plain, LinkRow, Input_, Result_, Stage
  <2>3. QED BY <2>1, <2>2 DEF Present
<1>2. Input_(f).role = "input" /\ Input_(f).file = f
  BY DEF Input_
<1>3. QED BY <1>1, <1>2 DEF Present, InputsOf

\* InputsKept follows.
LEMMA KeptInputs == Plain /\ KeepsInputs => InputsKept
BY PresentIs DEF KeepsInputs, KeptNow, AskedPresent, Active, InputsKept

\* A new task has been asked for nothing.
LEMMA InitInputs == Init => KeepsInputs
BY DEF Init, KeepsInputs, EndsOnly, EndsWell, KeptNow, StartsFresh, DeletesKnown, BeginsQueued,
       AskedPresent, Active, Actor

\* The end of a failed stage, a cancelled one and one that ends well.
LEMMA EndRows ==
  ASSUME NEW row \in Row, NEW links, NEW to,
         \/ to = StageFailed(row, links)
         \/ to = [row EXCEPT !.status = "cancelled"]
         \/ to = [row EXCEPT !.status = "completed"]
  PROVE  ~Active(to) /\ to.cancel = row.cancel
BY DEF StageFailed, Row, Active

\* A session goes to where it ends well.
LEMMA EndsGoes ==
  ASSUME Held, EndsOnly, NEW a \in Actor, NEW step, NEW m, Goes(a, step, m), EndsWell(step, m)
  PROVE  EndsOnly'
BY GoesTo DEF EndsOnly, Actor

\* No step plans to write or to remove anything else.
LEMMA NextEnds == Plain /\ Held /\ EndsOnly /\ [Next]_vars => EndsOnly'
<1> SUFFICES ASSUME Plain, Held, EndsOnly, [Next]_vars PROVE EndsOnly'
  OBVIOUS
<1> Client \subseteq Actor /\ Worker \subseteq Actor
  BY DEF Actor
<1>1. \A step, m : step \notin {"registered", "end"} => EndsWell(step, m)
  BY DEF EndsWell
<1>2. CASE UNCHANGED <<pc, mem>>
  BY <1>2 DEF EndsOnly
<1>3. ASSUME NEW a \in Actor, NEW step, NEW m, Goes(a, step, m), step \notin {"registered", "end"}
      PROVE  EndsOnly'
  BY <1>1, <1>3, EndsGoes
<1>4. ASSUME NEW w \in Worker, NEW to, to = StageFailed(task, link) \/ to = [task EXCEPT !.status = "cancelled"],
             Goes(w, "end", [row |-> task, to |-> to, drop |-> {}, add |-> {}])
      PROVE  EndsOnly'
  <2>1. ~Active(to) /\ to.cancel = task.cancel
    BY <1>4, EndRows DEF Plain
  <2>2. EndsWell("end", [row |-> task, to |-> to, drop |-> {}, add |-> {}])
    BY <2>1 DEF EndsWell
  <2>3. QED BY <1>4, <2>2, EndsGoes
<1>5. ASSUME NEW w \in Worker, RegisterLoad(w) PROVE EndsOnly'
  <2>1. CASE task.algorithm # mem[w].algorithm
    BY <1>4, <1>5, <2>1 DEF RegisterLoad
  <2>2. CASE task.algorithm = mem[w].algorithm
    <3> DEFINE to == [task EXCEPT !.status = "completed"]
               m  == [row  |-> task, to |-> to,
                      drop |-> OfKind(Replaces(task.algorithm)),
                      add  |-> Adds(task.algorithm, runs')]
    <3>1. Goes(w, "registered", m)
      BY <1>5, <2>2 DEF RegisterLoad
    <3>2. ~Active(to) /\ to.cancel = task.cancel
      BY EndRows DEF Plain
    <3>3. \A l \in m.drop : l.role # "input"
      BY DEF OfKind
    <3> HIDE DEF to
    <3>4. EndsWell("registered", m)
      BY <3>2, <3>3 DEF EndsWell
    <3> HIDE DEF m
    <3>5. QED BY <3>1, <3>4, EndsGoes
  <2>3. QED BY <2>1, <2>2
<1>6. ASSUME NEW w \in Worker, RegisterPly(w) PROVE EndsOnly'
  <2> DEFINE m == mem[w]
             n == IF m.row.algorithm = "dash_gaussian"
                    THEN [m EXCEPT !.drop = @ \cup OfKind({"ply"}) \cup Outdated]
                    ELSE m
  <2>1. pc[w] = "registered" /\ Goes(w, "end", n)
    BY <1>6 DEF RegisterPly
  <2>2. Fits("registered", m) /\ EndsWell("registered", m)
    BY <2>1, HeldFits DEF EndsOnly
  <2>3. /\ n.row = m.row /\ n.to = m.to
        /\ n.drop \subseteq m.drop \cup OfKind({"ply"}) \cup Outdated
    <3>1. m = [row |-> m.row, to |-> m.to, drop |-> m.drop, add |-> m.add]
      BY <2>2 DEF Fits
    <3>2. QED BY <3>1
  <2>4. \A l \in OfKind({"ply"}) \cup Outdated : l.role # "input"
    BY DEF OfKind, Outdated
  <2> HIDE DEF m, n
  <2>5. EndsWell("end", n)
    BY <2>2, <2>3, <2>4 DEF EndsWell
  <2>6. QED BY <2>1, <2>5, EndsGoes
<1>7. ASSUME NEW c \in Client,
         \/ StartCommit(c) \/ MeshCommit(c) \/ DeleteCommit(c)
         \/ \E selected \in SUBSET Input : StartLoad(c, selected)
         \/ \E alg \in MeshAlgorithm :
                   \E selected \in Selectable(alg) : MeshLoad(c, alg, selected)
         \/ \E f \in Input \cup ResultsOf(link) : DeleteLoad(c, f)
      PROVE  EndsOnly'
  <2>1. CASE StartCommit(c) \/ MeshCommit(c) \/ DeleteCommit(c)
    BY <1>3, <2>1 DEF StartCommit, MeshCommit, DeleteCommit, Ends
  <2>2. CASE \E selected \in SUBSET Input : StartLoad(c, selected)
    BY <1>3, <2>2 DEF StartLoad
  <2>3. CASE \E alg \in MeshAlgorithm : \E selected \in Selectable(alg) : MeshLoad(c, alg, selected)
    BY <1>3, <2>3 DEF MeshLoad
  <2>4. CASE \E f \in Input \cup ResultsOf(link) : DeleteLoad(c, f)
    BY <1>3, <2>4 DEF DeleteLoad
  <2>5. QED BY <1>7, <2>1, <2>2, <2>3, <2>4
<1>8. ASSUME NEW w \in Worker,
             \/ Dispatch(w) \/ RunLeaves(w) \/ RunLoad(w) \/ BeginCommit(w) \/ StageInputs(w)
             \/ Raise(w) \/ Crash(w) \/ EndCommit(w)
      PROVE  EndsOnly'
  <2>1. \E step, m : Goes(w, step, m) /\ step \notin {"registered", "end"}
    <3>1. CASE Dispatch(w) \/ RunLeaves(w) \/ RunLoad(w)
      BY <3>1 DEF Dispatch, RunLeaves, RunLoad, Ends
    <3>2. CASE BeginCommit(w)
      BY <3>2 DEF BeginCommit
    <3>3. CASE StageInputs(w)
      BY <3>3 DEF StageInputs
    <3>4. CASE Raise(w) \/ Crash(w) \/ EndCommit(w)
      BY <3>4 DEF Raise, Crash, EndCommit, Ends
    <3>5. QED BY <1>8, <3>1, <3>2, <3>3, <3>4
  <2>2. QED BY <1>3, <2>1
<1>9. ASSUME NEW w \in Worker, FailLoad(w) \/ CancelLoad(w) PROVE EndsOnly'
  BY <1>4, <1>9 DEF FailLoad, CancelLoad
<1>10. ASSUME NEW f \in Input, Attach(f) PROVE EndsOnly'
  BY <1>2, <1>10 DEF Attach, sessions
<1>11. ASSUME NEW again \in BOOLEAN, Recover(again) PROVE EndsOnly'
  BY <1>2, <1>11 DEF Recover, sessions
<1>12. QED
  BY <1>2, <1>5, <1>6, <1>7, <1>8, <1>9, <1>10, <1>11 DEF Next, vars, sessions

\* A request that starts a stage keeps what it has while no other one deletes.
LEMMA FreshFrame ==
  ASSUME StartsFresh, \A f : Present(f) => Present(f)', UNCHANGED gone,
         \A c \in Client : pc'[c] \in {"start", "mesh"} => pc'[c] = pc[c] /\ mem'[c] = mem[c]
  PROVE  StartsFresh'
BY DEF StartsFresh, Active

\* A request loads the task as it is, with inputs that are there.
LEMMA FreshLoad ==
  ASSUME Plain, Held, StartsFresh, NEW c \in Client,
         \/ \E selected \in SUBSET Input : StartLoad(c, selected)
         \/ \E alg \in MeshAlgorithm :
                   \E selected \in Selectable(alg) : MeshLoad(c, alg, selected)
  PROVE  StartsFresh'
<1> c \in Actor /\ Client \subseteq Actor
  BY DEF Actor
<1>1. UNCHANGED <<task, link, gone>> /\ \A f : UNCHANGED Present(f)
  BY DEF StartLoad, MeshLoad, Present
<1>2. ASSUME NEW step, NEW m, Goes(c, step, m), ~Active(m.row),
             step = "start" => m.selected \cap gone = {},
             step = "mesh" /\ m.algorithm = "hunyuan3d" => \A f \in m.selected : Present(f)
      PROVE  StartsFresh'
  <2>1. \A b \in Client : /\ pc'[b]  = IF b = c THEN step ELSE pc[b]
                          /\ mem'[b] = IF b = c THEN m ELSE mem[b]
    BY <1>2, GoesTo
  <2>2. QED BY <1>1, <1>2, <2>1 DEF StartsFresh, Active
<1>3. ASSUME NEW selected \in SUBSET Input, StartLoad(c, selected) PROVE StartsFresh'
  <2>1. ~Active(task) /\ selected \cap gone = {}
    BY <1>3 DEF StartLoad, Active
  <2>2. Goes(c, "start", [row |-> task, selected |-> selected])
    BY <1>3 DEF StartLoad
  <2>3. QED BY <1>2, <2>1, <2>2
<1>4. ASSUME NEW alg \in MeshAlgorithm, NEW selected \in Selectable(alg), MeshLoad(c, alg, selected)
      PROVE  StartsFresh'
  <2>1. ~Active(task)
    BY <1>4 DEF MeshLoad, MeshReady, Active
  <2>2. alg = "hunyuan3d" => \A f \in selected : Present(f)
    BY PresentIs DEF Selectable
  <2>3. Goes(c, "mesh", [row |-> task, selected |-> selected, algorithm |-> alg])
    BY <1>4 DEF MeshLoad
  <2>4. QED BY <1>2, <2>1, <2>2, <2>3
<1>5. QED BY <1>3, <1>4

\* A run takes no input away.
LEMMA RunPresent ==
  ASSUME Held, EndsOnly, NEW w \in Worker,
         \/ Dispatch(w) \/ RunLeaves(w) \/ RunLoad(w) \/ BeginCommit(w) \/ StageInputs(w)
         \/ Raise(w) \/ Crash(w) \/ FailLoad(w) \/ CancelLoad(w) \/ RegisterLoad(w)
         \/ RegisterPly(w) \/ EndCommit(w)
  PROVE  /\ UNCHANGED <<gone, asked>> /\ \A f : Present(f) => Present(f)'
         /\ \E step \in Step \ {"start", "mesh", "delete"} : \E m : Goes(w, step, m)
<1> DEFINE Ok == /\ UNCHANGED <<gone, asked>> /\ \A f : Present(f) => Present(f)'
                 /\ \E step \in Step \ {"start", "mesh", "delete"} : \E m : Goes(w, step, m)
<1>1. ASSUME UNCHANGED <<gone, asked, link>>,
             \E step \in Step \ {"start", "mesh", "delete"} : \E m : Goes(w, step, m)
      PROVE  Ok
  BY <1>1 DEF Present
<1>2. CASE EndCommit(w)
  <2> DEFINE m == mem[w]
  <2>1. /\ Goes(w, "idle", None) /\ pc[w] = "end" /\ link' = (link \ m.drop) \cup m.add
        /\ UNCHANGED <<gone, asked>>
    BY <1>2 DEF EndCommit, Ends, ghosts
  <2>2. \A l \in m.drop : l.role # "input"
    BY <2>1 DEF EndsOnly, EndsWell
  <2>3. \A f : Present(f) => Present(f)'
    BY <2>1, <2>2 DEF Present, Input_
  <2>4. QED BY <2>1, <2>3 DEF Step
<1>3. ASSUME ~EndCommit(w) PROVE Ok
  <2>1. UNCHANGED <<gone, asked, link>>
    BY <1>3 DEF Dispatch, RunLeaves, RunLoad, BeginCommit, StageInputs, Raise, Crash, FailLoad,
                CancelLoad, RegisterLoad, RegisterPly, ghosts
  <2>2. \E step \in Step \ {"start", "mesh", "delete"} : \E m : Goes(w, step, m)
    <3>1. CASE Dispatch(w) \/ RunLeaves(w) \/ RunLoad(w) \/ Crash(w)
      BY <3>1 DEF Dispatch, RunLeaves, RunLoad, Crash, Ends, Step
    <3>2. CASE BeginCommit(w) \/ Raise(w) \/ FailLoad(w) \/ CancelLoad(w)
      BY <3>2 DEF BeginCommit, Raise, FailLoad, CancelLoad, Step
    <3>3. CASE StageInputs(w)
      BY <3>3 DEF StageInputs, Step
    <3>4. CASE RegisterLoad(w)
      BY <3>4 DEF RegisterLoad, Step
    <3>5. CASE RegisterPly(w)
      BY <3>5 DEF RegisterPly, Step
    <3>6. QED BY <1>3, <3>1, <3>2, <3>3, <3>4, <3>5
  <2>3. QED BY <1>1, <2>1, <2>2
<1>4. QED BY <1>2, <1>3

\* What a request has selected stays there until it starts the stage.
LEMMA NextFresh ==
  Plain /\ Held /\ Alone /\ EndsOnly /\ StartsFresh /\ [Next]_vars /\ ~overlapped'
    => StartsFresh'
<1> SUFFICES ASSUME Plain, Held, Alone, EndsOnly, StartsFresh, [Next]_vars, ~overlapped'
             PROVE  StartsFresh'
  OBVIOUS
<1> Client \subseteq Actor /\ Worker \subseteq Actor /\ Client \cap Worker = {}
  BY FilesAssumption DEF Actor
<1>1. AtMostOneBusy(Client)
  BY NextAlone DEF Alone
<1>2. CASE UNCHANGED <<link, gone, pc, mem>>
  BY <1>2, FreshFrame DEF Present
<1>3. ASSUME NEW c \in Client, StartCommit(c) \/ MeshCommit(c) \/ DeleteCommit(c)
      PROVE  StartsFresh'
  <2>1. Goes(c, "idle", None) /\ pc[c] \in Busy
    BY <1>3 DEF StartCommit, MeshCommit, DeleteCommit, Ends, Busy, Step
  <2>2. \A b \in Client : pc'[b] \notin Busy
    BY <1>1, <2>1, GoesTo DEF AtMostOneBusy, Busy
  <2>3. QED BY <2>2 DEF StartsFresh, Busy, Step
<1>4. ASSUME NEW c \in Client, NEW f \in Input \cup ResultsOf(link), DeleteLoad(c, f)
      PROVE  StartsFresh'
  <2>1. UNCHANGED <<link, gone>> /\ \E m : Goes(c, "delete", m)
    BY <1>4 DEF DeleteLoad
  <2>2. \A b \in Client : pc'[b] \in {"start", "mesh"} => pc'[b] = pc[b] /\ mem'[b] = mem[b]
    BY <2>1, GoesTo
  <2>3. QED BY <2>1, <2>2, FreshFrame DEF Present
<1>5. ASSUME NEW f \in Input, Attach(f) PROVE StartsFresh'
  BY <1>5, FreshFrame DEF Attach, sessions, Present
<1>6. ASSUME NEW w \in Worker,
             \/ Dispatch(w) \/ RunLeaves(w) \/ RunLoad(w) \/ BeginCommit(w) \/ StageInputs(w)
             \/ Raise(w) \/ Crash(w) \/ FailLoad(w) \/ CancelLoad(w) \/ RegisterLoad(w)
             \/ RegisterPly(w) \/ EndCommit(w)
      PROVE  StartsFresh'
  <2>1. /\ UNCHANGED gone /\ \A f : Present(f) => Present(f)'
        /\ \E step, m : Goes(w, step, m)
    BY <1>6, RunPresent
  <2>2. \A c \in Client : pc'[c] = pc[c] /\ mem'[c] = mem[c]
    BY <2>1, GoesTo
  <2>3. QED BY <2>1, <2>2, FreshFrame
<1>7. QED
  BY <1>2, <1>3, FreshLoad, <1>4, <1>5, <1>6 DEF Next, vars, sessions, Recover

\* A step that starts, deletes or begins nothing, and takes no input away.
LEMMA KeptFrame ==
  ASSUME KeptNow, Held,
         Active(task') /\ ~task'.cancel => Active(task) /\ ~task.cancel,
         task.cancel => task'.cancel,
         \A f : Present(f) => Present(f)',
         UNCHANGED <<gone, asked>>,
         \A a \in Actor :
           pc'[a] \in {"delete", "begin"} => pc'[a] = pc[a] /\ mem'[a] = mem[a],
         \A w \in Worker : pc'[w] = "begin" /\ mem[w].row.status # "processing" =>
                             task'.status = task.status \/ task'.cancel
  PROVE  KeptNow'
<1> Client \subseteq Actor /\ Worker \subseteq Actor
  BY DEF Actor
<1>1. DeletesKnown'
  BY DEF KeptNow, DeletesKnown, Active
<1>2. BeginsQueued'
  BY DEF KeptNow, BeginsQueued
<1>3. AskedPresent'
  BY DEF KeptNow, AskedPresent, Active
<1>4. QED BY <1>1, <1>2, <1>3 DEF KeptNow

\* A request loads the task as it is.
LEMMA LoadKept ==
  ASSUME Plain, Held, KeptNow, NEW c \in Client,
         \/ \E selected \in SUBSET Input : StartLoad(c, selected)
         \/ \E alg \in MeshAlgorithm :
                   \E selected \in Selectable(alg) : MeshLoad(c, alg, selected)
         \/ \E f \in Input \cup ResultsOf(link) : DeleteLoad(c, f)
  PROVE  KeptNow'
<1> c \in Actor /\ Client \subseteq Actor /\ Worker \subseteq Actor /\ c \notin Worker
  BY FilesAssumption DEF Actor
<1>1. UNCHANGED <<task, link, gone, asked>>
  BY DEF StartLoad, MeshLoad, DeleteLoad
<1>2. AskedPresent'
  BY <1>1 DEF KeptNow, AskedPresent, Present, Active
<1>3. ASSUME NEW step, NEW m, Goes(c, step, m), step # "begin",
             step = "delete" => m.row = task /\ (m.file \in asked /\ Active(task) /\ ~task.cancel =>
                                   Input_(m.file) \in m.links)
      PROVE  KeptNow'
  <2>1. \A b \in Actor : /\ pc'[b]  = IF b = c THEN step ELSE pc[b]
                         /\ mem'[b] = IF b = c THEN m ELSE mem[b]
    BY <1>3, GoesTo
  <2>2. DeletesKnown'
    BY <1>1, <1>3, <2>1 DEF KeptNow, DeletesKnown, Active
  <2>3. BeginsQueued'
    BY <1>1, <2>1 DEF KeptNow, BeginsQueued
  <2>4. QED BY <1>2, <2>2, <2>3 DEF KeptNow
<1>4. ASSUME \/ \E selected \in SUBSET Input : StartLoad(c, selected)
             \/ \E alg \in MeshAlgorithm :
                   \E selected \in Selectable(alg) : MeshLoad(c, alg, selected)
      PROVE  KeptNow'
  <2>1. \E step \in {"start", "mesh"} : \E m : Goes(c, step, m)
    BY <1>4 DEF StartLoad, MeshLoad
  <2>2. QED BY <1>3, <2>1
<1>5. ASSUME NEW f \in Input \cup ResultsOf(link), DeleteLoad(c, f) PROVE KeptNow'
  <2> DEFINE links == {l \in link : l.file = f}
  <2>1. Goes(c, "delete", [row |-> task, file |-> f, links |-> links])
    BY <1>5 DEF DeleteLoad
  <2>2. Present(f) => Input_(f) \in links
    BY DEF Present, Input_
  <2>3. f \in asked /\ Active(task) /\ ~task.cancel => Input_(f) \in links
    BY <2>2 DEF KeptNow, AskedPresent
  <2> HIDE DEF links
  <2>4. QED BY <1>3, <2>1, <2>3
<1>6. QED BY <1>4, <1>5

\* A stage that is started has the inputs that were selected, whatever was wrong before.
LEMMA StartKept ==
  ASSUME Plain, Held, StartsFresh, AtMostOneBusy(Client), NEW c \in Client,
         StartCommit(c) \/ MeshCommit(c)
  PROVE  KeptNow'
<1> DEFINE m == mem[c]
<1> c \in Actor /\ Client \subseteq Actor /\ Worker \subseteq Actor /\ c \notin Worker
  BY FilesAssumption DEF Actor
<1>1. Goes(c, "idle", None) /\ UNCHANGED gone /\ pc[c] \in Busy
  BY DEF StartCommit, MeshCommit, Ends, Busy, Step
<1>2. \A b \in Actor : /\ pc'[b]  = IF b = c THEN "idle" ELSE pc[b]
                       /\ mem'[b] = IF b = c THEN None ELSE mem[b]
  BY <1>1, GoesTo
<1>3. \A b \in Client : pc'[b] # "delete"
  BY <1>1, <1>2 DEF AtMostOneBusy, Busy, Step
<1>4. task'.status = "queued"
  <2>1. pc[c] \in {"start", "mesh"} /\ m.row.status # "queued"
    BY DEF StartCommit, MeshCommit, StartsFresh, Active
  <2>2. ASSUME NEW alg, Flush(m.row, [status |-> "queued", algorithm |-> alg, cancel |-> FALSE])
        PROVE  task'.status = "queued"
    BY <2>1, <2>2 DEF Flush, Plain, Row
  <2>3. QED BY <2>2 DEF StartCommit, MeshCommit
<1>5. \A f \in asked' : Present(f)'
  <2>1. CASE StartCommit(c)
    <3>1. link' = link \cup {Input_(f) : f \in m.selected} /\ asked' = m.selected /\ m.selected \cap gone = {}
      BY <2>1 DEF StartCommit, StartsFresh
    <3>2. QED BY <1>1, <3>1 DEF Present
  <2>2. CASE MeshCommit(c)
    <3>1. m.algorithm = "hunyuan3d" => \A f \in m.selected : Present(f)
      BY <2>2 DEF MeshCommit, StartsFresh
    <3>2. \A f : Present(f) => Present(f)'
      BY <1>1, <2>2 DEF MeshCommit, Present, Input_
    <3>3. asked' = IF m.algorithm = "hunyuan3d" THEN m.selected ELSE {}
      BY <2>2 DEF MeshCommit
    <3>4. QED BY <3>1, <3>2, <3>3
  <2>3. QED BY <2>1, <2>2
<1>6. DeletesKnown'
  BY <1>3 DEF DeletesKnown
<1>7. BeginsQueued'
  BY <1>4 DEF BeginsQueued
<1>8. QED BY <1>5, <1>6, <1>7 DEF KeptNow, AskedPresent

\* A task whose input is deleted is told to stop.
LEMMA DeleteKept ==
  ASSUME Plain, Held, KeptNow, AtMostOneBusy(Client), NEW c \in Client, DeleteCommit(c)
  PROVE  KeptNow'
<1> DEFINE m == mem[c]
<1> c \in Actor /\ Client \subseteq Actor /\ Worker \subseteq Actor /\ c \notin Worker
  BY FilesAssumption DEF Actor
<1>1. /\ Goes(c, "idle", None) /\ pc[c] = "delete"
      /\ gone' = gone \cup {m.file} /\ link' = link \ m.links /\ UNCHANGED asked
  BY DEF DeleteCommit, Ends, ghosts
<1>2. \A b \in Actor : /\ pc'[b]  = IF b = c THEN "idle" ELSE pc[b]
                       /\ mem'[b] = IF b = c THEN None ELSE mem[b]
  BY <1>1, GoesTo
<1>3. \A b \in Client : pc'[b] # "delete"
  BY <1>1, <1>2 DEF AtMostOneBusy, Busy, Step
<1>4. /\ m.row \in Row /\ \A l \in m.links : l.file = m.file
      /\ m.row.cancel => task.cancel
      /\ m.file \in asked /\ Active(task) /\ ~task.cancel =>
           Input_(m.file) \in m.links /\ Active(m.row)
  BY <1>1, HeldFits DEF Fits, KeptNow, DeletesKnown
<1>5. CASE Cancels(m.row, m.file, m.links)
  <2>1. Flush(m.row, [m.row EXCEPT !.status = "cancelled", !.cancel = TRUE])
    BY <1>5 DEF DeleteCommit
  <2>2. task'.cancel
    BY <1>4, <2>1 DEF Flush, Plain, Row
  <2>3. QED BY <1>3, <2>2 DEF KeptNow, BeginsQueued, DeletesKnown, AskedPresent
<1>6. CASE ~Cancels(m.row, m.file, m.links)
  <2>1. UNCHANGED task
    BY <1>6 DEF DeleteCommit
  <2>2. BeginsQueued'
    BY <1>2, <2>1 DEF KeptNow, BeginsQueued
  <2>3. AskedPresent'
    <3> SUFFICES ASSUME Active(task), ~task.cancel, NEW f \in asked PROVE Present(f)'
      BY <1>1, <2>1 DEF AskedPresent, Active
    <3>1. Present(f)
      BY DEF KeptNow, AskedPresent
    <3>2. f # m.file
      BY <1>4, <1>6 DEF Cancels, Active
    <3>3. Input_(f) \notin m.links
      BY <1>4, <3>2 DEF Input_
    <3>4. QED BY <1>1, <3>1, <3>2, <3>3 DEF Present
  <2>4. QED BY <1>3, <2>2, <2>3 DEF KeptNow, DeletesKnown
<1>7. QED BY <1>5, <1>6

\* A run removes no input, and begins, ends and fails a stage that is active.
LEMMA RunKept ==
  ASSUME Plain, Held, EndsOnly, KeptNow, AtMostOneBusy(Worker), ~revived', NEW w \in Worker,
         \/ Dispatch(w) \/ RunLeaves(w) \/ RunLoad(w) \/ BeginCommit(w) \/ StageInputs(w)
         \/ Raise(w) \/ Crash(w) \/ FailLoad(w) \/ CancelLoad(w) \/ RegisterLoad(w)
         \/ RegisterPly(w) \/ EndCommit(w)
  PROVE  KeptNow'
<1> DEFINE m == mem[w]
<1> w \in Actor /\ Client \subseteq Actor /\ Worker \subseteq Actor /\ w \notin Client
  BY FilesAssumption DEF Actor
<1>a. /\ UNCHANGED <<gone, asked>> /\ \A f : Present(f) => Present(f)'
      /\ \E step \in Step \ {"start", "mesh", "delete"} : \E n : Goes(w, step, n)
  BY RunPresent
<1>1. CASE RunLoad(w)
  <2>1. /\ Goes(w, "begin", [row |-> task]) /\ task.status \in {"queued", "processing"}
        /\ UNCHANGED <<task, link, gone, asked>>
    BY <1>1 DEF RunLoad
  <2>2. \A b \in Actor : /\ pc'[b]  = IF b = w THEN "begin" ELSE pc[b]
                         /\ mem'[b] = IF b = w THEN [row |-> task] ELSE mem[b]
    BY <2>1, GoesTo
  <2>3. DeletesKnown'
    BY <2>1, <2>2 DEF KeptNow, DeletesKnown, Active
  <2>4. BeginsQueued'
    BY <2>1, <2>2 DEF KeptNow, BeginsQueued
  <2>5. AskedPresent'
    BY <2>1 DEF KeptNow, AskedPresent, Present, Active
  <2>6. QED BY <2>3, <2>4, <2>5 DEF KeptNow
<1>2. ASSUME Active(task') /\ ~task'.cancel => Active(task) /\ ~task.cancel,
             task.cancel => task'.cancel,
             task'.status = task.status \/ task'.cancel \/ \A v \in Worker : pc'[v] # "begin",
             pc'[w] # "begin"
      PROVE  KeptNow'
  <2>1. \A a \in Actor : pc'[a] \in {"delete", "begin"} => pc'[a] = pc[a] /\ mem'[a] = mem[a]
    BY <1>a, <1>2, GoesTo
  <2>2. QED BY <1>a, <1>2, <2>1, KeptFrame
<1>3. ASSUME pc[w] \in Busy, pc'[w] # "begin" PROVE \A v \in Worker : pc'[v] # "begin"
  BY <1>a, <1>3, GoesTo DEF AtMostOneBusy, Busy, Step
<1>4. CASE BeginCommit(w)
  <2>1. pc[w] = "begin" /\ pc'[w] = "stage" /\ Flush(m.row, [m.row EXCEPT !.status = "processing"])
    BY <1>4, GoesTo DEF BeginCommit
  <2>2. m.row \in Row
    BY <2>1, HeldFits DEF Fits
  <2>3. /\ task'.cancel = task.cancel
        /\ m.row.status = "processing" => task'.status = task.status
    BY <2>1, <2>2 DEF Flush, Plain, Row
  <2>4. m.row.status # "processing" => task.status = "queued" \/ task.cancel
    BY <2>1 DEF KeptNow, BeginsQueued
  <2>5. QED BY <1>2, <1>3, <2>1, <2>3, <2>4 DEF Active, Busy, Step
<1>5. CASE RunLeaves(w)
  <2>1. pc'[w] = "idle"
    BY <1>5, GoesTo DEF RunLeaves, Ends
  <2>2. task' = task \/ (task.cancel /\ task'.cancel)
    BY <1>5 DEF RunLeaves, Plain, Row
  <2>3. QED BY <1>2, <2>1, <2>2 DEF Active
<1>6. CASE \/ Dispatch(w) \/ StageInputs(w) \/ Raise(w) \/ Crash(w) \/ FailLoad(w)
           \/ CancelLoad(w) \/ RegisterLoad(w) \/ RegisterPly(w)
  <2>1. UNCHANGED task
    BY <1>6 DEF Dispatch, StageInputs, Raise, Crash, FailLoad, CancelLoad, RegisterLoad,
                RegisterPly
  <2>2. \E step \in Step \ {"begin"} : \E n : Goes(w, step, n)
    <3>1. CASE StageInputs(w)
      BY <3>1 DEF StageInputs, Step
    <3>2. CASE RegisterLoad(w)
      BY <3>2 DEF RegisterLoad, Step
    <3>3. CASE Dispatch(w) \/ Raise(w) \/ Crash(w) \/ FailLoad(w) \/ CancelLoad(w)
      BY <3>3 DEF Dispatch, Raise, Crash, FailLoad, CancelLoad, Ends, Step
    <3>4. CASE RegisterPly(w)
      BY <3>4 DEF RegisterPly, Step
    <3>5. QED BY <1>6, <3>1, <3>2, <3>3, <3>4
  <2>3. pc'[w] # "begin"
    BY <2>2, GoesTo
  <2>4. QED BY <1>2, <2>1, <2>3 DEF Active
<1>7. CASE EndCommit(w)
  <2>1. pc'[w] = "idle" /\ pc[w] = "end" /\ Flush(m.row, m.to)
    BY <1>7, GoesTo DEF EndCommit, Ends
  <2>2. m.row \in Row /\ m.to \in Row /\ ~Active(m.to) /\ m.to.cancel = m.row.cancel
    BY <2>1, HeldFits DEF Fits, EndsOnly, EndsWell
  <2>3. task'.cancel = task.cancel /\ (Active(task') => Active(task))
    BY <2>1, <2>2 DEF Flush, Plain, Row, Active
  <2>4. QED BY <1>2, <1>3, <2>1, <2>3 DEF Busy, Step
<1>8. QED BY <1>1, <1>4, <1>5, <1>6, <1>7

\* No step takes an input away from an active task without telling it to stop.
LEMMA NextInputs ==
  Plain /\ Held /\ Alone /\ KeepsInputs /\ [Next]_vars => KeepsInputs'
<1> SUFFICES ASSUME Plain, Held, Alone, KeepsInputs, [Next]_vars, ~overlapped', ~revived'
             PROVE  KeptNow'
  BY NextEnds, NextFresh, NextAlone DEF KeepsInputs
<1>1. ~overlapped /\ StartsFresh /\ EndsOnly /\ AtMostOneBusy(Client) /\ AtMostOneBusy(Worker)
  BY NextAlone DEF Alone, KeepsInputs
<1>2. ASSUME NEW c \in Client, StartCommit(c) \/ MeshCommit(c) PROVE KeptNow'
  BY <1>1, <1>2, StartKept
<1>3. ASSUME ~revived PROVE KeptNow'
  <2>1. KeptNow
    BY <1>1, <1>3 DEF KeepsInputs
  <2>2. CASE UNCHANGED vars
    BY <2>1, <2>2
       DEF vars, sessions, ghosts, KeptNow, DeletesKnown, BeginsQueued, AskedPresent, Present,
           Active
  <2>3. ASSUME NEW f \in Input, Attach(f) PROVE KeptNow'
    <3>1. UNCHANGED <<task, gone, asked, pc, mem>> /\ link \subseteq link'
      BY <2>3 DEF Attach, sessions, ghosts
    <3>2. QED
      BY <2>1, <3>1 DEF KeptNow, DeletesKnown, BeginsQueued, AskedPresent, Present, Active
  <2>4. ASSUME NEW again \in BOOLEAN, Recover(again) PROVE KeptNow'
    <3>1. UNCHANGED <<link, gone, asked, pc, mem>> /\ task.status = "processing"
      BY <2>4 DEF Recover, sessions
    <3>2. task'.cancel = task.cancel
      BY <2>4 DEF Recover, StageFailed, Plain, Row
    <3>3. \A w \in Worker : pc'[w] = "begin" /\ mem[w].row.status # "processing" => task'.cancel
      BY <2>1, <3>1, <3>2 DEF KeptNow, BeginsQueued
    <3>4. QED
      BY <2>1, <3>1, <3>2, <3>3, KeptFrame DEF Active, Present
  <2>5. QED
    BY <1>1, <1>2, <2>1, <2>2, <2>3, <2>4, LoadKept, DeleteKept, RunKept DEF Next
<1>4. ASSUME revived PROVE KeptNow'
  <2>1. \E c \in Client : StartCommit(c) \/ MeshCommit(c)
    BY <1>4 DEF Next, vars, ghosts, StartLoad, MeshLoad, DeleteLoad, DeleteCommit, Attach,
       Dispatch, RunLeaves, RunLoad, BeginCommit, StageInputs, Raise, Crash, FailLoad, CancelLoad,
       RegisterLoad, RegisterPly, EndCommit, Recover
  <2>2. QED BY <1>2, <2>1
<1>5. QED BY <1>3, <1>4

\* A task that waits or runs, and was not told to stop, has the inputs it was started with:
\* delete_file cancels it, a run's end (_register_algorithm_results) leaves them alone.  Not so
\* in a run that a message delivered twice has begun of a task that was partially completed.
THEOREM InputsStay == Spec => []InputsKept
<1>1. Init => Plain /\ Held /\ StageOne /\ Alone /\ KeepsInputs
  BY InitType, InitAlone, InitInputs
<1>2. (Plain /\ Held /\ StageOne /\ Alone /\ KeepsInputs) /\ [Next]_vars
        => (Plain /\ Held /\ StageOne /\ Alone /\ KeepsInputs)'
  BY NextType, NextAlone, NextInputs
<1>3. QED BY <1>1, <1>2, KeptInputs, PTL DEF Spec

-----------------------------------------------------------------------------
(* The meshes of a task are those of its PLY *)

\* The PLY of the n-th run is a result of the task, or was deleted.
PlyKnown(n) == \E p \in Plys(Result) : p.run = n /\ (Result_(p) \in link \/ p \in gone)

\* The meshes among the results.
Meshes(links) == {l \in links : l.role = "result" /\ l.file.kind = "mesh"}

\* The meshes among the links were made from PLYs that are known.
OfKnownPly(links) == \A l \in Meshes(links) : \A n \in made[l.file.run] : PlyKnown(n)

\* A Mesh run has staged PLYs only.
StagesPly ==
  \A w \in Worker : pc[w] = "stage" /\ mem[w].algorithm = "dash_gaussian_mesh" =>
    mem[w].inputs \subseteq Plys(Result)

\* The generation it works in is known, ...
RunsKnown ==
  \A w \in Worker : pc[w] = "run" /\ mem[w].algorithm = "dash_gaussian_mesh" =>
    \A f \in mem[w].dir : PlyKnown(f.run)

\* ... as is that of the meshes it will add.
AddsKnown == \A w \in Worker : pc[w] \in {"registered", "end"} => OfKnownPly(mem[w].add)

\* A run that is to take PLYs away adds no meshes and takes all there are.
TakesMeshes(step, m) ==
  /\ step = "registered" =>
       /\ TakesPly(m.drop) => m.row.algorithm = "dash_gaussian"
       /\ m.row.algorithm = "dash_gaussian" => Meshes(m.add) = {}
  /\ step = "end" /\ TakesPly(m.drop) => Meshes(m.add) = {} /\ Meshes(link) \subseteq m.drop

Replacing == \A w \in Worker : pc[w] \in {"registered", "end"} => TakesMeshes(pc[w], mem[w])

KnownNow == RunsKnown /\ AddsKnown /\ Replacing /\ OfKnownPly(link)

\* What makes MeshOfPly inductive.
KnowsMeshes == StagesPly /\ (~overlapped => KnownNow)

\* MeshOfPly follows.
LEMMA KnownMeshes == KnowsMeshes => MeshOfPly
BY DEF KnowsMeshes, KnownNow, OfKnownPly, Meshes, PlyKnown, MeshOfPly

\* A new task has no meshes.
LEMMA InitMeshes == Init => KnowsMeshes
BY DEF Init, KnowsMeshes, StagesPly, KnownNow, RunsKnown, AddsKnown, Replacing, OfKnownPly,
       Meshes, Actor

\* Mesh runs take their PLY from the links of their stage.
LEMMA NextStages == Plain /\ Held /\ StagesPly /\ [Next]_vars => StagesPly'
<1> SUFFICES ASSUME Plain, Held, StagesPly, [Next]_vars PROVE StagesPly'
  OBVIOUS
<1> Client \subseteq Actor /\ Worker \subseteq Actor
  BY DEF Actor
<1>1. CASE UNCHANGED <<pc, mem>>
  BY <1>1 DEF StagesPly
<1>2. ASSUME NEW a \in Actor, NEW step, NEW m, Goes(a, step, m), step # "stage"
      PROVE  StagesPly'
  BY <1>2, GoesTo DEF StagesPly
<1>3. ASSUME NEW w \in Worker, BeginCommit(w) PROVE StagesPly'
  <2> DEFINE alg == mem[w].row.algorithm
             n == [algorithm |-> alg, inputs |-> Staged(alg)]
  <2>1. alg = "dash_gaussian_mesh" => Staged(alg) \subseteq Plys(Result)
    <3>1. \A l \in link : l.role = "stage" => l.file \in Input \cup Plys(Result)
      BY Roles DEF Plain
    <3>2. QED BY <3>1 DEF Staged
  <2>2. Goes(w, "stage", n)
    BY <1>3 DEF BeginCommit
  <2> HIDE DEF alg
  <2>3. QED BY <2>1, <2>2, GoesTo DEF StagesPly
<1>4. ASSUME NEW c \in Client,
         \/ StartCommit(c) \/ MeshCommit(c) \/ DeleteCommit(c)
         \/ \E selected \in SUBSET Input : StartLoad(c, selected)
         \/ \E alg \in MeshAlgorithm :
                   \E selected \in Selectable(alg) : MeshLoad(c, alg, selected)
         \/ \E f \in Input \cup ResultsOf(link) : DeleteLoad(c, f)
      PROVE  StagesPly'
  <2>1. CASE StartCommit(c) \/ MeshCommit(c) \/ DeleteCommit(c)
    BY <1>2, <2>1 DEF StartCommit, MeshCommit, DeleteCommit, Ends
  <2>2. CASE \E selected \in SUBSET Input : StartLoad(c, selected)
    BY <1>2, <2>2 DEF StartLoad
  <2>3. CASE \E alg \in MeshAlgorithm : \E selected \in Selectable(alg) : MeshLoad(c, alg, selected)
    BY <1>2, <2>3 DEF MeshLoad
  <2>4. CASE \E f \in Input \cup ResultsOf(link) : DeleteLoad(c, f)
    BY <1>2, <2>4 DEF DeleteLoad
  <2>5. QED BY <1>4, <2>1, <2>2, <2>3, <2>4
<1>5. ASSUME NEW w \in Worker,
             \/ Dispatch(w) \/ RunLeaves(w) \/ RunLoad(w) \/ StageInputs(w) \/ Raise(w)
             \/ Crash(w) \/ FailLoad(w) \/ CancelLoad(w) \/ RegisterLoad(w) \/ RegisterPly(w)
             \/ EndCommit(w)
      PROVE  StagesPly'
  <2>1. CASE Dispatch(w) \/ RunLeaves(w) \/ RunLoad(w)
    BY <1>2, <2>1 DEF Dispatch, RunLeaves, RunLoad, Ends
  <2>2. CASE StageInputs(w)
    BY <1>2, <2>2 DEF StageInputs
  <2>3. CASE Raise(w) \/ Crash(w) \/ FailLoad(w) \/ CancelLoad(w) \/ EndCommit(w)
    BY <1>2, <2>3 DEF Raise, Crash, FailLoad, CancelLoad, EndCommit, Ends
  <2>4. CASE RegisterLoad(w)
    BY <1>2, <2>4 DEF RegisterLoad
  <2>5. CASE RegisterPly(w)
    BY <1>2, <2>5 DEF RegisterPly
  <2>6. QED BY <1>5, <2>1, <2>2, <2>3, <2>4, <2>5
<1>6. ASSUME NEW f \in Input, Attach(f) PROVE StagesPly'
  BY <1>1, <1>6 DEF Attach, sessions
<1>7. ASSUME NEW again \in BOOLEAN, Recover(again) PROVE StagesPly'
  BY <1>1, <1>7 DEF Recover, sessions
<1>8. QED
  BY <1>1, <1>3, <1>4, <1>5, <1>6, <1>7 DEF Next, vars, sessions

\* A known PLY stays known unless its link goes and the file does not.
LEMMA KnownKept ==
  ASSUME gone \subseteq gone',
         \A p \in Plys(Result) : Result_(p) \in link => Result_(p) \in link' \/ p \in gone'
  PROVE  \A n : PlyKnown(n) => PlyKnown(n)'
BY DEF PlyKnown

\* A step that takes no PLY, adds no mesh, and registers no run.
LEMMA KnownFrame ==
  ASSUME KnownNow, UNCHANGED made, \A n : PlyKnown(n) => PlyKnown(n)',
         Meshes(link') \subseteq Meshes(link),
         \A w \in Worker : pc'[w] \in {"run", "registered", "end"} =>
                             pc'[w] = pc[w] /\ mem'[w] = mem[w]
  PROVE  KnownNow'
<1>1. RunsKnown' /\ AddsKnown'
  BY DEF KnownNow, RunsKnown, AddsKnown, OfKnownPly, Meshes
<1>2. Replacing'
  BY DEF KnownNow, Replacing, TakesMeshes, TakesPly, Meshes
<1>3. OfKnownPly(link)'
  BY DEF KnownNow, OfKnownPly, Meshes
<1>4. QED BY <1>1, <1>2, <1>3 DEF KnownNow

\* Requests add no meshes, and take a PLY only by deleting it.
LEMMA RequestKnown ==
  ASSUME Plain, Held, KnownNow, NEW c \in Client,
         \/ StartCommit(c) \/ MeshCommit(c) \/ DeleteCommit(c)
         \/ \E selected \in SUBSET Input : StartLoad(c, selected)
         \/ \E alg \in MeshAlgorithm :
                   \E selected \in Selectable(alg) : MeshLoad(c, alg, selected)
         \/ \E f \in Input \cup ResultsOf(link) : DeleteLoad(c, f)
  PROVE  KnownNow'
<1> c \in Actor /\ Worker \subseteq Actor /\ c \notin Worker
  BY FilesAssumption DEF Actor
<1>1. UNCHANGED made
  BY DEF StartCommit, MeshCommit, DeleteCommit, StartLoad, MeshLoad, DeleteLoad, ghosts
<1>2. \A w \in Worker : pc'[w] = pc[w] /\ mem'[w] = mem[w]
  <2>1. \E step, m : Goes(c, step, m)
    BY DEF StartCommit, MeshCommit, DeleteCommit, StartLoad, MeshLoad, DeleteLoad, Ends
  <2>2. QED BY <2>1, GoesTo
<1>3. /\ \A n : PlyKnown(n) => PlyKnown(n)'
      /\ Meshes(link') \subseteq Meshes(link)
  <2>1. CASE UNCHANGED <<link, gone>>
    BY <2>1, KnownKept
  <2>2. CASE StartCommit(c)
    <3>1. link' = link \cup {Input_(f) : f \in mem[c].selected} /\ UNCHANGED gone
      BY <2>2 DEF StartCommit
    <3>2. Meshes(link') \subseteq Meshes(link)
      BY <3>1 DEF Meshes, Input_
    <3>3. QED BY <3>1, <3>2, KnownKept
  <2>3. CASE MeshCommit(c)
    <3>1. /\ link' = {l \in link : l.role # "stage"} \cup {Stage(f) : f \in mem[c].selected}
          /\ UNCHANGED gone
      BY <2>3 DEF MeshCommit
    <3>2. Meshes(link') \subseteq Meshes(link)
      BY <3>1 DEF Meshes, Stage
    <3>3. \A p \in Plys(Result) : Result_(p) \in link => Result_(p) \in link'
      BY <3>1, ResultLinks
    <3>4. QED BY <3>1, <3>2, <3>3, KnownKept
  <2>4. CASE DeleteCommit(c)
    <3>1. /\ link' = link \ mem[c].links /\ gone' = gone \cup {mem[c].file}
          /\ \A l \in mem[c].links : l.file = mem[c].file
      BY <2>4, HeldFits DEF DeleteCommit, Fits
    <3>2. \A p \in Plys(Result) : Result_(p) \in link => Result_(p) \in link' \/ p \in gone'
      BY <3>1, ResultLinks
    <3>3. QED BY <3>1, <3>2, KnownKept DEF Meshes
  <2>5. QED BY <2>1, <2>2, <2>3, <2>4 DEF StartLoad, MeshLoad, DeleteLoad
<1>4. QED BY <1>1, <1>2, <1>3, KnownFrame

\* What the only run that is under way has to show after a step of it.
LEMMA KnownGoes ==
  ASSUME Held, AtMostOneBusy(Worker), NEW w \in Worker, pc[w] \in Busy,
         NEW step, NEW m, Goes(w, step, m), OfKnownPly(link)',
         step = "run" /\ m.algorithm = "dash_gaussian_mesh" => \A f \in m.dir : PlyKnown(f.run)',
         step \in {"registered", "end"} => OfKnownPly(m.add)' /\ TakesMeshes(step, m)'
  PROVE  KnownNow'
<1>1. \A v \in Worker : IF v = w THEN pc'[v] = step /\ mem'[v] = m ELSE pc'[v] \notin Busy
  BY GoesTo DEF AtMostOneBusy, Actor
<1>2. RunsKnown'
  BY <1>1 DEF RunsKnown, Busy, Step
<1>3. AddsKnown'
  BY <1>1 DEF AddsKnown, Busy, Step
<1>4. Replacing'
  BY <1>1 DEF Replacing, Busy, Step
<1>5. QED BY <1>2, <1>3, <1>4 DEF KnownNow

\* A run without results, as it ends.
LEMMA NothingTaken ==
  ASSUME NEW step, NEW m, m.add = {}, m.drop = {}
  PROVE  OfKnownPly(m.add) /\ TakesMeshes(step, m)
BY DEF OfKnownPly, Meshes, TakesMeshes, TakesPly

\* Linked meshes are of runs that have registered.
LEMMA MeshRuns ==
  ASSUME Plain, Unseen, NEW l \in Meshes(link)
  PROVE  l.file \in Result /\ l.file.run \in Run /\ l.file.run <= runs
<1>1. l.file \in Result /\ l = Result_(l.file) /\ l \in link
  BY Roles DEF Plain, Meshes
<1>2. l.file \in Shown \cap Result
  BY <1>1 DEF Shown
<1>3. QED BY <1>1, <1>2 DEF Unseen, Result

\* A step of a run keeps the meshes those of known PLYs.
LEMMA RunKnown ==
  ASSUME Plain, Held, Unseen, StagesPly, KnownNow, AtMostOneBusy(Worker), NEW w \in Worker,
         \/ Dispatch(w) \/ RunLeaves(w) \/ RunLoad(w) \/ BeginCommit(w) \/ StageInputs(w)
         \/ Raise(w) \/ Crash(w) \/ FailLoad(w) \/ CancelLoad(w) \/ RegisterLoad(w)
         \/ RegisterPly(w) \/ EndCommit(w)
  PROVE  KnownNow'
<1> DEFINE m == mem[w]
<1> w \in Actor /\ Worker \subseteq Actor
  BY DEF Actor
<1>a. Fits(pc[w], m)
  BY HeldFits
<1>b. OfKnownPly(link)
  BY DEF KnownNow
<1>1. CASE Dispatch(w) \/ RunLeaves(w) \/ RunLoad(w) \/ Crash(w)
  <2>1. /\ \E step \in {"leased", "idle", "begin"} : \E n : Goes(w, step, n)
        /\ UNCHANGED <<link, gone, made>>
    BY <1>1 DEF Dispatch, RunLeaves, RunLoad, Crash, Ends, ghosts
  <2>2. \A v \in Worker : pc'[v] \in {"run", "registered", "end"} =>
                             pc'[v] = pc[v] /\ mem'[v] = mem[v]
    BY <2>1, GoesTo
  <2>3. QED BY <2>1, <2>2, KnownFrame, KnownKept
<1>2. ASSUME pc[w] \in Busy, UNCHANGED <<link, gone, made>>, NEW step, NEW n, Goes(w, step, n),
             step = "run" /\ n.algorithm = "dash_gaussian_mesh" => \A f \in n.dir : PlyKnown(f.run),
             step \in {"registered", "end"} => OfKnownPly(n.add) /\ TakesMeshes(step, n)
      PROVE  KnownNow'
  <2>1. /\ OfKnownPly(link)'
        /\ step = "run" /\ n.algorithm = "dash_gaussian_mesh" => \A f \in n.dir : PlyKnown(f.run)'
        /\ step \in {"registered", "end"} => OfKnownPly(n.add)' /\ TakesMeshes(step, n)'
    BY <1>b, <1>2 DEF OfKnownPly, PlyKnown, TakesMeshes
  <2>2. QED BY <1>2, <2>1, KnownGoes
<1>3. CASE BeginCommit(w) \/ Raise(w)
  BY <1>2, <1>3 DEF BeginCommit, Raise, Busy, Step, ghosts
<1>5. CASE FailLoad(w) \/ CancelLoad(w)
  <2>1. /\ UNCHANGED <<link, gone, made>> /\ pc[w] \in Busy
        /\ \E to : Goes(w, "end", [row |-> task, to |-> to, drop |-> {}, add |-> {}])
    BY <1>5 DEF FailLoad, CancelLoad, Busy, Step, ghosts
  <2>2. QED BY <1>2, <2>1, NothingTaken
<1>6. CASE StageInputs(w)
  <2> DEFINE dir == IF m.algorithm = "dash_gaussian_mesh" /\ m.inputs # {}
                      THEN Restored(link, CHOOSE p \in m.inputs : TRUE)
                      ELSE {}
             n   == [algorithm |-> m.algorithm, inputs |-> m.inputs, dir |-> dir]
  <2>1. pc[w] = "stage" /\ UNCHANGED <<link, gone, made>>
    BY <1>6 DEF StageInputs, ghosts
  <2>2. CASE Goes(w, "run", n)
    <3>1. ASSUME m.algorithm = "dash_gaussian_mesh", NEW f \in dir PROVE PlyKnown(f.run)
      <4> DEFINE p == CHOOSE q \in m.inputs : TRUE
      <4>1. m.inputs # {} /\ f \in Restored(link, p)
        BY <3>1
      <4>2. p \in Plys(Result)
        BY <2>1, <3>1, <4>1 DEF StagesPly
      <4>3. f.run = p.run /\ p \in ResultsOf(link)
        BY <4>1 DEF Restored
      <4> HIDE DEF p
      <4>4. PICK l \in link : l.role = "result" /\ l.file = p
        BY <4>3 DEF ResultsOf
      <4>5. l = Result_(p)
        BY <4>4, Roles DEF Plain
      <4>6. QED BY <4>2, <4>3, <4>4, <4>5 DEF PlyKnown
    <3> HIDE DEF dir
    <3>2. QED BY <1>2, <2>1, <2>2, <3>1 DEF Busy, Step
  <2>3. CASE Goes(w, "raised", None)
    BY <1>2, <2>1, <2>3 DEF Busy, Step
  <2>4. QED BY <1>6, <2>2, <2>3 DEF StageInputs
<1>7. CASE RegisterLoad(w)
  <2>1. CASE task.algorithm # m.algorithm
    <3>1. /\ UNCHANGED <<link, gone, made>> /\ pc[w] \in Busy
          /\ \E to : Goes(w, "end", [row |-> task, to |-> to, drop |-> {}, add |-> {}])
      BY <1>7, <2>1 DEF RegisterLoad, Busy, Step
    <3>2. QED BY <1>2, <3>1, NothingTaken
  <2>2. CASE task.algorithm = m.algorithm
    <3> DEFINE alg == task.algorithm
    <3>1. /\ pc[w] = "run" /\ UNCHANGED <<link, gone>>
          /\ runs' = runs + 1 /\ runs < MaxRuns
          /\ made' = [made EXCEPT ![runs'] = {f.run : f \in m.dir}]
      BY <1>7, <2>2 DEF RegisterLoad
    <3>n. PICK n : /\ Goes(w, "registered", n) /\ n.row = task
                   /\ n.drop = OfKind(Replaces(alg)) /\ n.add = Adds(alg, runs')
      BY <1>7, <2>2 DEF RegisterLoad
    <3>2. runs \in Nat /\ runs' \in Run /\ alg \in Algorithm
      BY <3>1, FilesAssumption DEF Plain, Run, Row
    <3>3. /\ made'[runs'] = {f.run : f \in m.dir}
          /\ \A r \in Run : r # runs' => made'[r] = made[r]
      BY <3>1, <3>2 DEF Plain
    <3>4. \A k : PlyKnown(k) <=> PlyKnown(k)'
      BY <3>1 DEF PlyKnown
    <3>5. OfKnownPly(link)'
      <4> SUFFICES ASSUME NEW l \in Meshes(link), NEW k \in made'[l.file.run] PROVE PlyKnown(k)
        BY <3>1, <3>4 DEF OfKnownPly
      <4>1. l.file.run \in Run /\ l.file.run <= runs
        BY MeshRuns
      <4>2. made'[l.file.run] = made[l.file.run]
        BY <3>1, <3>2, <3>3, <4>1 DEF Run
      <4>3. QED BY <1>b, <4>2 DEF OfKnownPly
    <3>6. \A l \in n.add : l.file.run = runs' /\ (l.file.kind = "mesh" => alg = "dash_gaussian_mesh")
      BY <3>2, <3>n DEF Adds, Result_, Algorithm
    <3>7. OfKnownPly(n.add)'
      <4> SUFFICES ASSUME NEW l \in Meshes(n.add), NEW k \in made'[l.file.run] PROVE PlyKnown(k)
        BY <3>4 DEF OfKnownPly
      <4>1. l.file.run = runs' /\ alg = "dash_gaussian_mesh"
        BY <3>6 DEF Meshes
      <4>2. \E f \in m.dir : k = f.run
        BY <3>3, <4>1
      <4>3. QED BY <2>2, <3>1, <4>1, <4>2 DEF KnownNow, RunsKnown
    <3>8. TakesMeshes("registered", n)'
      <4>1. TakesPly(n.drop) => alg = "dash_gaussian"
        BY <3>2, <3>n, AddsPly
      <4>2. alg = "dash_gaussian" => Meshes(n.add) = {}
        BY <3>6 DEF Meshes
      <4>3. n.row.algorithm = alg
        BY <3>n
      <4>4. QED BY <4>1, <4>2, <4>3 DEF TakesMeshes
    <3>9. QED BY <3>1, <3>n, <3>5, <3>7, <3>8, KnownGoes DEF Busy, Step
  <2>3. QED BY <2>1, <2>2
<1>8. CASE RegisterPly(w)
  <2> DEFINE n == IF m.row.algorithm = "dash_gaussian"
                    THEN [m EXCEPT !.drop = @ \cup OfKind({"ply"}) \cup Outdated]
                    ELSE m
  <2>1. pc[w] = "registered" /\ Goes(w, "end", n) /\ UNCHANGED <<link, gone, made>>
    BY <1>8 DEF RegisterPly, ghosts
  <2>2. /\ n.row = m.row /\ n.add = m.add
        /\ n.drop = IF m.row.algorithm = "dash_gaussian"
                      THEN m.drop \cup OfKind({"ply"}) \cup Outdated ELSE m.drop
    <3>1. m = [row |-> m.row, to |-> m.to, drop |-> m.drop, add |-> m.add]
      BY <1>a, <2>1 DEF Fits
    <3>2. QED BY <3>1
  <2> HIDE DEF n
  <2>3. OfKnownPly(m.add) /\ TakesMeshes("registered", m)
    BY <2>1 DEF KnownNow, AddsKnown, Replacing
  <2>4. Meshes(link) \subseteq Outdated
    BY DEF Meshes, Outdated, OfKind
  <2>5. TakesMeshes("end", n)
    <3>1. CASE m.row.algorithm = "dash_gaussian"
      BY <2>2, <2>3, <2>4, <3>1 DEF TakesMeshes
    <3>2. CASE m.row.algorithm # "dash_gaussian"
      BY <2>2, <2>3, <3>2 DEF TakesMeshes
    <3>3. QED BY <3>1, <3>2
  <2>6. QED BY <1>2, <2>1, <2>2, <2>3, <2>5 DEF Busy, Step
<1>9. CASE EndCommit(w)
  <2>1. /\ pc[w] = "end" /\ Goes(w, "idle", None) /\ UNCHANGED <<gone, made>>
        /\ link' = (link \ m.drop) \cup m.add
    BY <1>9 DEF EndCommit, Ends, ghosts
  <2>2. OfKnownPly(m.add) /\ TakesMeshes("end", m)
    BY <2>1 DEF KnownNow, AddsKnown, Replacing
  <2>3. CASE TakesPly(m.drop)
    <3>1. Meshes(link') = {}
      BY <2>1, <2>2, <2>3 DEF TakesMeshes, Meshes
    <3>2. OfKnownPly(link)'
      BY <3>1 DEF OfKnownPly
    <3>3. QED BY <2>1, <3>2, KnownGoes DEF Busy, Step
  <2>4. CASE ~TakesPly(m.drop)
    <3>1. \A p \in Plys(Result) : Result_(p) \in link => Result_(p) \in link'
      BY <2>1, <2>4, ResultLinks DEF TakesPly, Plys
    <3>2. \A k : PlyKnown(k) => PlyKnown(k)'
      BY <2>1, <3>1, KnownKept
    <3>3. Meshes(link') \subseteq Meshes(link) \cup Meshes(m.add)
      BY <2>1 DEF Meshes
    <3>4. OfKnownPly(link)'
      BY <1>b, <2>1, <2>2, <3>2, <3>3 DEF OfKnownPly
    <3>5. QED BY <2>1, <3>4, KnownGoes DEF Busy, Step
  <2>5. QED BY <2>3, <2>4
<1>10. QED BY <1>1, <1>3, <1>5, <1>6, <1>7, <1>8, <1>9

\* No step leaves a mesh whose PLY has been replaced.
LEMMA NextMeshes ==
  Plain /\ Held /\ Unseen /\ Alone /\ KnowsMeshes /\ [Next]_vars => KnowsMeshes'
<1> SUFFICES ASSUME Plain, Held, Unseen, Alone, KnowsMeshes, [Next]_vars, ~overlapped'
             PROVE  KnownNow'
  BY NextStages DEF KnowsMeshes
<1>1. ~overlapped /\ KnownNow /\ StagesPly /\ AtMostOneBusy(Worker)
  BY NextAlone DEF Alone, KnowsMeshes
<1>2. ASSUME UNCHANGED <<gone, made, pc, mem>>, Meshes(link') \subseteq Meshes(link), link \subseteq link'
      PROVE  KnownNow'
  BY <1>1, <1>2, KnownFrame, KnownKept
<1>3. CASE UNCHANGED vars
  BY <1>2, <1>3 DEF vars, sessions, ghosts
<1>4. ASSUME NEW f \in Input, Attach(f) PROVE KnownNow'
  <2>1. Meshes(link') \subseteq Meshes(link) /\ link \subseteq link'
    BY <1>4 DEF Attach, Meshes, Input_
  <2>2. QED BY <1>2, <1>4, <2>1 DEF Attach, sessions, ghosts
<1>5. ASSUME NEW again \in BOOLEAN, Recover(again) PROVE KnownNow'
  BY <1>2, <1>5 DEF Recover, sessions
<1>6. QED
  BY <1>1, <1>3, <1>4, <1>5, RequestKnown, RunKnown DEF Next

\* A mesh that is a result of the task has the PLY it was made from beside it, unless its owner
\* deleted that one: a Gaussian rerun that replaces the PLY leaves none of its meshes
\* (_remove_mesh_result_links), whatever fails or is begun a second time.
THEOREM MeshesFollow == Spec => []MeshOfPly
<1>1. Init => Plain /\ Held /\ StageOne /\ Unseen /\ Alone /\ KnowsMeshes
  BY InitType, InitUnseen, InitAlone, InitMeshes
<1>2. (Plain /\ Held /\ StageOne /\ Unseen /\ Alone /\ KnowsMeshes) /\ [Next]_vars
        => (Plain /\ Held /\ StageOne /\ Unseen /\ Alone /\ KnowsMeshes)'
  BY NextType, NextUnseen, NextAlone, NextMeshes
<1>3. QED BY <1>1, <1>2, KnownMeshes, PTL DEF Spec
=============================================================================

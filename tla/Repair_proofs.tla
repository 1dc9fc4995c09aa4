---------------------------- MODULE Repair_proofs ---------------------------
(***************************************************************************)
(* The safety of repair for any nodes, workers, queue and number of        *)
(* mishaps: listed nodes and the sources of jobs have the chunk, and the   *)
(* repair implements ChunkReplicas.                                        *)
(***************************************************************************)
EXTENDS Repair, TLAPS

\* The names that the model gives to single updates.
USE DEF GetChunksByNode, GetJobsByStatus, GetPendingJobsForNode, excludeNode,
        UpdateRepairJobStatus, proposeEvictChunk, proposeAddReplica,
        appendUnique, removeJob, enqueueJob, NewRepairScheduler

\* What a task has read so far: the jobs it holds exist, the replicas it read
\* had the chunk, and a report of a success is about a target that has it.
Fits(c, t) ==
  /\ t.stuck \subseteq DOMAIN jobs
  /\ t.live \subseteq copies
  /\ t.pc = "create" => t.source \in copies
  /\ t.pc \in {"add", "retry"} => c[2] \in DOMAIN jobs /\ t.node \in Nodes
  /\ t.pc = "add" => jobs[c[2]].target \in copies

TasksFit == \A c \in DOMAIN tasks : Fits(c, tasks[c])

\* The jobs that the scheduler and the storage nodes hold exist, and a node that
\* has finished one successfully has copied the chunk to its target.
JobsExist ==
  /\ \A i \in 1..Len(queue) : queue[i] \in DOMAIN jobs
  /\ executing \subseteq DOMAIN jobs
  /\ \A n \in Nodes :
       /\ pendingJobs[n] \subseteq DOMAIN jobs /\ response[n] \subseteq DOMAIN jobs
       /\ \A j \in DOMAIN work[n] :
            j \in DOMAIN jobs /\ (work[n][j] = "ok" => jobs[j].target \in copies)

IInv == TypeOK /\ TasksFit /\ JobsExist /\ ListedReplicasHold /\ SourcesHold

-----------------------------------------------------------------------------
(* Types *)

\* Storing a value of the right type under a key of the right type keeps a
\* registry a registry (upsert).
LEMMA PutRegistry ==
  ASSUME NEW K, NEW V, NEW m, IsRegistry(m, K, V), NEW k \in K, NEW v \in V
  PROVE  IsRegistry(Put(m, k, v), K, V)
BY Zenon DEF IsRegistry, Put

\* Deleting a key keeps a registry a registry.
LEMMA DeleteRegistry ==
  ASSUME NEW K, NEW V, NEW m, IsRegistry(m, K, V), NEW k
  PROVE  IsRegistry(Delete(m, k), K, V)
BY Zenon DEF IsRegistry, Delete

\* Replacing the record of a key that is there keeps a registry a registry.
LEMMA UpdateRegistry ==
  ASSUME NEW K, NEW V, NEW m, IsRegistry(m, K, V), NEW k \in DOMAIN m, NEW v \in V
  PROVE  IsRegistry([m EXCEPT ![k] = v], K, V)
BY Zenon DEF IsRegistry

\* A task that has just started.
LEMMA NewTaskType ==
  ASSUME NEW pc \in {"evict", "locate", "add", "retry", "recover"}, NEW n \in Nodes \cup {NoNode}
  PROVE  NewTask(pc, n) \in Task
BY Zenon DEF NewTask, Task

\* Changing a job's status, or its source and status, keeps the list's type.
LEMMA JobsUpdate ==
  ASSUME jobs \in Seq(Job), NEW j \in DOMAIN jobs, NEW v \in Job
  PROVE  /\ [jobs EXCEPT ![j] = v] \in Seq(Job)
         /\ Len([jobs EXCEPT ![j] = v]) = Len(jobs)
         /\ DOMAIN [jobs EXCEPT ![j] = v] = DOMAIN jobs
OBVIOUS

\* Init
LEMMA IInvInit == Init => IInv
<1> SUFFICES ASSUME Init PROVE IInv
  BY Zenon
<1> USE RepairAssumption DEF Init
<1>1. IsRegistry(tasks, Causes, Task)
  <2>1. NewTask("locate", NoNode) \in Task /\ <<"commit", NoNode>> \in Causes
    BY NewTaskType, Zenon DEF Causes
  <2>2. IsRegistry(EmptyRegistry, Causes, Task)
    BY Zenon DEF IsRegistry, EmptyRegistry
  <2> QED
    BY <2>1, <2>2, PutRegistry, Zenon
<1>2. \A n \in Nodes : IsRegistry(work[n], JobIDs, {"queued", "ok", "failed"}) /\ DOMAIN work[n] = {}
  BY Zenon DEF IsRegistry, EmptyRegistry
<1>3. IsRegistry(pendingJobsSet, Nodes, JobIDs)
  BY Zenon DEF IsRegistry, EmptyRegistry
<1>4. TypeOK
  BY <1>1, <1>2, <1>3 DEF TypeOK
<1>5. TasksFit
  <2>1. CASE tasks = EmptyRegistry
    BY <2>1, Zenon DEF TasksFit, EmptyRegistry
  <2>2. CASE tasks = Put(EmptyRegistry, <<"commit", NoNode>>, NewTask("locate", NoNode))
    BY <2>2 DEF TasksFit, EmptyRegistry, Put, Fits, NewTask
  <2> QED
    BY <2>1, <2>2, Zenon
<1>6. JobsExist
  BY <1>2 DEF JobsExist
<1> QED
  BY <1>4, <1>5, <1>6 DEF IInv, ListedReplicasHold, SourcesHold

-----------------------------------------------------------------------------
(* What every step keeps *)

\* No copy disappears, jobs stay, and their targets are never changed.
Grows ==
  /\ copies \subseteq copies'
  /\ DOMAIN jobs \subseteq DOMAIN jobs'
  /\ \A j \in DOMAIN jobs : jobs'[j].target = jobs[j].target

\* Fits for the task t in the next state.
NextFits(c, t) ==
  /\ t.stuck \subseteq DOMAIN jobs'
  /\ t.live \subseteq copies'
  /\ t.pc = "create" => t.source \in copies'
  /\ t.pc \in {"add", "retry"} => c[2] \in DOMAIN jobs' /\ t.node \in Nodes
  /\ t.pc = "add" => jobs'[c[2]].target \in copies'

\* The other tasks are as they were.
LEMMA KeepFits ==
  ASSUME IInv, Grows, NEW c \in DOMAIN tasks
  PROVE  NextFits(c, tasks[c])
BY Zenon DEF IInv, TasksFit, Fits, Grows, NextFits

\* A task starts or goes on.
LEMMA GotoFits ==
  ASSUME IInv, Grows, NEW c \in Causes, NEW t \in Task, tasks' = Put(tasks, c, t), NextFits(c, t)
  PROVE  IsRegistry(tasks', Causes, Task) /\ TasksFit'
<1>1. IsRegistry(tasks', Causes, Task)
  BY PutRegistry, Zenon DEF IInv, TypeOK
<1>2. ASSUME NEW d \in DOMAIN tasks' PROVE NextFits(d, tasks'[d])
  BY KeepFits, Zenon DEF Put
<1> QED
  BY <1>1, <1>2, Zenon DEF TasksFit, Fits, NextFits

\* A task ends.
LEMMA FinishFits ==
  ASSUME IInv, Grows, NEW c, tasks' = Delete(tasks, c)
  PROVE  IsRegistry(tasks', Causes, Task) /\ TasksFit'
<1>1. IsRegistry(tasks', Causes, Task)
  BY DeleteRegistry, Zenon DEF IInv, TypeOK
<1>2. ASSUME NEW d \in DOMAIN tasks' PROVE NextFits(d, tasks'[d])
  BY KeepFits, Zenon DEF Delete
<1> QED
  BY <1>1, <1>2, Zenon DEF TasksFit, Fits, NextFits

\* No task changes.
LEMMA SameFits ==
  ASSUME IInv, Grows, UNCHANGED tasks
  PROVE  IsRegistry(tasks', Causes, Task) /\ TasksFit'
<1>1. IsRegistry(tasks', Causes, Task)
  BY Zenon DEF IInv, TypeOK
<1>2. ASSUME NEW d \in DOMAIN tasks' PROVE NextFits(d, tasks'[d])
  BY KeepFits, Zenon
<1> QED
  BY <1>1, <1>2, Zenon DEF TasksFit, Fits, NextFits

\* Steps that leave the scheduler's and the nodes' jobs alone.
LEMMA SameJobs ==
  ASSUME IInv, Grows, UNCHANGED <<queue, executing, pendingJobs, response, work>>
  PROVE  JobsExist'
BY Zenon DEF IInv, JobsExist, Grows

-----------------------------------------------------------------------------
(* What starts a task *)

\* The watcher
LEMMA MarkNodeDeadKeeps == ASSUME IInv, NEW n \in Nodes, MarkNodeDead(n) PROVE IInv'
<1>1. Grows
  BY Zenon DEF MarkNodeDead, Grows, storageVars
<1>2. <<"watcher", n>> \in Causes /\ NewTask("evict", n) \in Task
  BY NewTaskType, Zenon DEF Causes
<1>3. NextFits(<<"watcher", n>>, NewTask("evict", n))
  BY Zenon DEF NextFits, NewTask
<1>4. IsRegistry(tasks', Causes, Task) /\ TasksFit'
  BY <1>1, <1>2, <1>3, GotoFits, Zenon DEF MarkNodeDead
<1>5. JobsExist'
  BY <1>1, SameJobs, Zenon DEF MarkNodeDead, storageVars
<1>6. TypeOK'
  BY <1>4, Zenon DEF IInv, TypeOK, MarkNodeDead, storageVars
<1> QED
  BY <1>4, <1>5, <1>6, Zenon DEF IInv, ListedReplicasHold, SourcesHold, MarkNodeDead, storageVars

\* A node leaves.
LEMMA DeregisterNodeKeeps == ASSUME IInv, NEW n \in Nodes, DeregisterNode(n) PROVE IInv'
<1>1. Grows
  BY Zenon DEF DeregisterNode, Grows, storageVars
<1>2. <<"leave", n>> \in Causes /\ NewTask("evict", n) \in Task
  BY NewTaskType, Zenon DEF Causes
<1>3. NextFits(<<"leave", n>>, NewTask("evict", n))
  BY Zenon DEF NextFits, NewTask
<1>4. IsRegistry(tasks', Causes, Task) /\ TasksFit'
  BY <1>1, <1>2, <1>3, GotoFits, Zenon DEF DeregisterNode
<1>5. JobsExist'
  BY <1>1, SameJobs, Zenon DEF DeregisterNode, storageVars
<1>6. TypeOK'
  BY <1>4, Zenon DEF IInv, TypeOK, DeregisterNode, storageVars
<1> QED
  BY <1>4, <1>5, <1>6, Zenon DEF IInv, ListedReplicasHold, SourcesHold, DeregisterNode, storageVars

\* A corrupt copy is evicted.
LEMMA ReportCorruptionKeeps == ASSUME IInv, NEW n \in Nodes, ReportCorruption(n) PROVE IInv'
<1>1. Grows
  BY Zenon DEF ReportCorruption, Grows, storageVars
<1>2. <<"corruption", n>> \in Causes /\ NewTask("locate", NoNode) \in Task
  BY NewTaskType, Zenon DEF Causes
<1>3. NextFits(<<"corruption", n>>, NewTask("locate", NoNode))
  BY Zenon DEF NextFits, NewTask
<1>4. IsRegistry(tasks', Causes, Task) /\ TasksFit'
  BY <1>1, <1>2, <1>3, GotoFits, Zenon DEF ReportCorruption
<1>5. JobsExist'
  BY <1>1, SameJobs, Zenon DEF ReportCorruption, storageVars
<1>6. TypeOK'
  BY <1>4, Zenon DEF IInv, TypeOK, ReportCorruption, storageVars
<1> QED
  BY <1>4, <1>5, <1>6, Zenon DEF IInv, ListedReplicasHold, SourcesHold, ReportCorruption, storageVars

-----------------------------------------------------------------------------
(* The steps of TriggerRepair and scheduleRepairJobs *)

\* A task that goes on has the type of a task.
LEMMA TaskType ==
  ASSUME IInv, NEW c \in DOMAIN tasks
  PROVE  c \in Causes /\ tasks[c] \in Task /\ Fits(c, tasks[c])
BY Zenon DEF IInv, TypeOK, IsRegistry, TasksFit

\* The dead node is evicted.
LEMMA EvictKeeps == ASSUME IInv, NEW c \in DOMAIN tasks, Evict(c) PROVE IInv'
<1> DEFINE t == [tasks[c] EXCEPT !.pc = "locate"]
<1>1. Grows
  BY Zenon DEF Evict, Grows, storageVars
<1>2. c \in Causes /\ t \in Task
  BY TaskType, Zenon DEF Task
<1>3. NextFits(c, t)
  <2>1. NextFits(c, tasks[c])
    BY <1>1, KeepFits, Zenon
  <2>2. t.pc = "locate" /\ t.stuck = tasks[c].stuck /\ t.live = tasks[c].live
    BY TaskType, Zenon DEF Task
  <2> HIDE DEF t
  <2> QED
    BY <2>1, <2>2, Zenon DEF NextFits
<1>4. tasks' = Put(tasks, c, t) \/ tasks' = Delete(tasks, c)
  BY Zenon DEF Evict, Goto, Finish
<1>5. IsRegistry(tasks', Causes, Task) /\ TasksFit'
  BY <1>1, <1>2, <1>3, <1>4, GotoFits, FinishFits, Zenon
<1>6. JobsExist'
  BY <1>1, SameJobs, Zenon DEF Evict, storageVars
<1>7. replicas' \subseteq replicas
  BY Zenon DEF Evict
<1>8. TypeOK'
  BY <1>5, <1>7, Zenon DEF IInv, TypeOK, Evict, storageVars
<1> QED
  BY <1>5, <1>6, <1>7, <1>8, Zenon DEF IInv, ListedReplicasHold, SourcesHold, Evict, storageVars

\* The live replicas are read.
LEMMA LocateKeeps == ASSUME IInv, NEW c \in DOMAIN tasks, Locate(c) PROVE IInv'
<1> DEFINE live == GetChunkLocations \ {tasks[c].node}
           t == [tasks[c] EXCEPT !.pc = "place", !.live = live]
<1>1. Grows
  BY Zenon DEF Locate, Grows, storageVars, fsmVars
<1>2. live \subseteq copies /\ live \subseteq Nodes
  BY Zenon DEF IInv, TypeOK, GetChunkLocations, ListedReplicasHold
<1>3. c \in Causes /\ t \in Task
  BY <1>2, TaskType, ZenonT(30) DEF Task
<1>4. NextFits(c, t)
  <2>1. NextFits(c, tasks[c])
    BY <1>1, KeepFits, Zenon
  <2>2. t.pc = "place" /\ t.stuck = tasks[c].stuck /\ t.live = live
    BY TaskType, Zenon DEF Task
  <2> HIDE DEF t
  <2> QED
    BY <1>1, <1>2, <2>1, <2>2, Zenon DEF NextFits, Grows
<1>5. tasks' = Put(tasks, c, t) \/ tasks' = Delete(tasks, c)
  BY Zenon DEF Locate, Goto, Finish
<1>6. IsRegistry(tasks', Causes, Task) /\ TasksFit'
  BY <1>1, <1>3, <1>4, <1>5, GotoFits, FinishFits, Zenon
<1>7. JobsExist'
  BY <1>1, SameJobs, Zenon DEF Locate, storageVars
<1>8. TypeOK'
  BY <1>6, Zenon DEF IInv, TypeOK, Locate, storageVars, fsmVars
<1> QED
  BY <1>6, <1>7, <1>8, Zenon DEF IInv, ListedReplicasHold, SourcesHold, Locate, storageVars, fsmVars

\* Source and targets are chosen.
LEMMA PlaceKeeps == ASSUME IInv, NEW c \in DOMAIN tasks, Place(c) PROVE IInv'
<1>1. Grows
  BY ZenonT(30) DEF Place, Grows, storageVars, fsmVars
<1>2. IsRegistry(tasks', Causes, Task) /\ TasksFit'
  <2>1. CASE tasks' = Delete(tasks, c)
    BY <1>1, <2>1, FinishFits, Zenon
  <2>2. ASSUME NEW source \in tasks[c].live, NEW targets \in SUBSET (GetLiveNodes \ tasks[c].live),
               Goto(c, [tasks[c] EXCEPT !.pc = "create", !.source = source, !.targets = targets])
        PROVE  IsRegistry(tasks', Causes, Task) /\ TasksFit'
    <3> DEFINE t == [tasks[c] EXCEPT !.pc = "create", !.source = source, !.targets = targets]
    <3>1. source \in copies /\ source \in Nodes /\ targets \subseteq Nodes
      BY TaskType, Zenon DEF Fits, IInv, TypeOK, GetLiveNodes
    <3>2. c \in Causes /\ t \in Task
      BY <3>1, TaskType, ZenonT(30) DEF Task
    <3>3. t.pc = "create" /\ t.stuck = tasks[c].stuck /\ t.live = tasks[c].live /\ t.source = source
      BY TaskType, Zenon DEF Task
    <3>4. NextFits(c, tasks[c])
      BY <1>1, KeepFits, Zenon
    <3>5. tasks' = Put(tasks, c, t)
      BY <2>2, Zenon DEF Goto
    <3> HIDE DEF t
    <3>6. NextFits(c, t)
      BY <1>1, <3>1, <3>3, <3>4, Zenon DEF NextFits, Grows
    <3> QED
      BY <1>1, <3>2, <3>5, <3>6, GotoFits, Zenon
  <2> QED
    BY <2>1, <2>2, Zenon DEF Place, Finish
<1>3. JobsExist'
  BY <1>1, SameJobs, Zenon DEF Place, storageVars
<1>4. TypeOK'
  BY <1>2, Zenon DEF IInv, TypeOK, Place, storageVars, fsmVars
<1> QED
  BY <1>2, <1>3, <1>4, Zenon DEF IInv, ListedReplicasHold, SourcesHold, Place, storageVars, fsmVars

\* A job is created for one target.
LEMMA CreateJobKeeps == ASSUME IInv, NEW c \in DOMAIN tasks, CreateJob(c) PROVE IInv'
<1> USE RepairAssumption
<1>1. PICK target \in tasks[c].targets :
        /\ AfterTarget(c, target)
        /\ \/ UNCHANGED <<jobs, queue>>
           \/ /\ Len(jobs) < MaxJobs
              /\ jobs' = Append(jobs, [source |-> tasks[c].source, target |-> target,
                                       status |-> "pending"])
              /\ queue' = IF Len(queue) < QueueCapacity
                            THEN Append(queue, Len(jobs) + 1) ELSE queue
  BY Zenon DEF CreateJob
<1> DEFINE job == [source |-> tasks[c].source, target |-> target, status |-> "pending"]
           t == [tasks[c] EXCEPT !.targets = tasks[c].targets \ {target}]
<1>2. tasks[c].pc = "create" /\ tasks[c].source \in copies /\ tasks[c].source \in Nodes
  BY TaskType, Zenon DEF CreateJob, Fits, IInv, TypeOK
<1>3. target \in Nodes /\ job \in Job
  BY <1>2, TaskType, Zenon DEF Task, Job
<1>4. jobs \in Seq(Job) /\ Len(jobs) \in Nat /\ Len(jobs) <= MaxJobs /\ DOMAIN jobs = 1..Len(jobs)
  BY DEF IInv, TypeOK
<1>5. /\ jobs' \in Seq(Job) /\ Len(jobs') <= MaxJobs
      /\ DOMAIN jobs \subseteq DOMAIN jobs'
      /\ \A j \in DOMAIN jobs : jobs'[j] = jobs[j]
      /\ \A j \in DOMAIN jobs' : jobs'[j].source \in copies
  <2>1. CASE UNCHANGED <<jobs, queue>>
    BY <1>4, <2>1, Zenon DEF IInv, SourcesHold
  <2>2. CASE Len(jobs) < MaxJobs /\ jobs' = Append(jobs, job)
    <3>1. /\ jobs' \in Seq(Job) /\ Len(jobs') = Len(jobs) + 1 /\ DOMAIN jobs' = 1..(Len(jobs) + 1)
          /\ \A j \in 1..Len(jobs) : jobs'[j] = jobs[j]
          /\ jobs'[Len(jobs) + 1] = job
      BY <1>3, <1>4, <2>2
    <3>2. \A j \in DOMAIN jobs' : j \in DOMAIN jobs \/ j = Len(jobs) + 1
      BY <1>4, <3>1, SMTT(30)
    <3>3. job.source \in copies
      BY <1>2, Zenon
    <3> HIDE DEF job
    <3> QED
      BY <1>4, <2>2, <3>1, <3>2, <3>3 DEF IInv, SourcesHold
  <2> QED
    BY <1>1, <2>1, <2>2, Zenon
<1>6. Grows
  BY <1>5, Zenon DEF CreateJob, Grows, storageVars
<1>7. /\ queue' \in Seq(JobIDs) /\ Len(queue') <= QueueCapacity
      /\ \A i \in 1..Len(queue') : queue'[i] \in DOMAIN jobs'
  <2>1. queue \in Seq(JobIDs) /\ Len(queue) <= QueueCapacity /\ \A i \in 1..Len(queue) : queue[i] \in DOMAIN jobs
    BY Zenon DEF IInv, TypeOK, JobsExist
  <2>2. CASE UNCHANGED queue
    BY <1>5, <2>1, <2>2, Zenon
  <2>3. CASE /\ Len(jobs) < MaxJobs /\ jobs' = Append(jobs, job)
             /\ Len(queue) < QueueCapacity /\ queue' = Append(queue, Len(jobs) + 1)
    <3>1. Len(jobs) + 1 \in JobIDs /\ Len(jobs) + 1 \in DOMAIN jobs'
      BY <1>3, <1>4, <2>3, SMTT(30) DEF JobIDs
    <3> QED
      BY <1>5, <2>1, <2>3, <3>1, SMTT(30)
  <2> QED
    BY <1>1, <2>2, <2>3, Zenon
<1>8. IsRegistry(tasks', Causes, Task) /\ TasksFit'
  <2>1. c \in Causes /\ t \in Task
    BY TaskType DEF Task
  <2>2. /\ t.pc = tasks[c].pc /\ t.stuck = tasks[c].stuck /\ t.live = tasks[c].live
        /\ t.source = tasks[c].source
    BY TaskType DEF Task
  <2>3. NextFits(c, tasks[c])
    BY <1>6, KeepFits, Zenon
  <2>4. tasks' = Put(tasks, c, t) \/ tasks' = Delete(tasks, c)
    BY <1>1, Zenon DEF AfterTarget, Goto, Finish
  <2> HIDE DEF t
  <2>5. NextFits(c, t)
    BY <1>2, <2>2, <2>3, Zenon DEF NextFits
  <2> QED
    BY <1>6, <2>1, <2>4, <2>5, GotoFits, FinishFits, Zenon
<1>9. JobsExist'
  BY <1>6, <1>7, Zenon DEF IInv, JobsExist, Grows, CreateJob, storageVars
<1>10. TypeOK'
  BY <1>5, <1>7, <1>8, Zenon DEF IInv, TypeOK, CreateJob, storageVars
<1> QED
  BY <1>5, <1>8, <1>9, <1>10, Zenon DEF IInv, ListedReplicasHold, SourcesHold, CreateJob, storageVars

-----------------------------------------------------------------------------
(* Workers, delivery and the storage nodes *)

\* A worker takes a job from the queue.
LEMMA ExecuteJobKeeps == ASSUME IInv, ExecuteJob PROVE IInv'
<1> DEFINE j == Head(queue)
<1>1. Grows
  BY Zenon DEF ExecuteJob, Grows, storageVars, fsmVars
<1>2. queue \in Seq(JobIDs) /\ queue # <<>> /\ j \in JobIDs /\ j \in DOMAIN jobs /\ jobs[j] \in Job
  <2>1. queue \in Seq(JobIDs) /\ queue # <<>> /\ \A i \in 1..Len(queue) : queue[i] \in DOMAIN jobs
    BY Zenon DEF ExecuteJob, IInv, TypeOK, JobsExist
  <2>2. j = queue[1] /\ 1 \in 1..Len(queue) /\ j \in JobIDs
    BY <2>1
  <2> QED
    BY <2>1, <2>2 DEF IInv, TypeOK
<1>3. /\ queue' \in Seq(JobIDs) /\ Len(queue') <= QueueCapacity
      /\ \A i \in 1..Len(queue') : queue'[i] \in DOMAIN jobs'
  <2>1. queue' = Tail(queue) /\ Len(queue) <= QueueCapacity /\ jobs' = jobs
    BY Zenon DEF ExecuteJob, IInv, TypeOK, fsmVars
  <2>2. \A i \in 1..Len(queue) : queue[i] \in DOMAIN jobs
    BY Zenon DEF IInv, JobsExist
  <2>3. /\ queue' \in Seq(JobIDs) /\ Len(queue') = Len(queue) - 1
        /\ \A i \in 1..Len(queue') : queue'[i] = queue[i + 1] /\ i + 1 \in 1..Len(queue)
    BY <1>2, <2>1
  <2>4. Len(queue') <= QueueCapacity
    BY <1>2, <2>1, <2>3, RepairAssumption
  <2> QED
    BY <2>1, <2>2, <2>3, <2>4, Zenon
<1> HIDE DEF j
<1>4. jobs[j].source \in Nodes /\ jobs[j].target \in Nodes
  BY <1>2, Zenon DEF Job
<1>5. /\ pendingJobs' = [pendingJobs EXCEPT ![jobs[j].source] = @ \cup {j}]
      /\ pendingJobsSet' = Put(pendingJobsSet, jobs[j].target, j)
      /\ executing' = executing \cup {j}
  BY Zenon DEF ExecuteJob, j
<1>6. IsRegistry(pendingJobsSet', Nodes, JobIDs)
  BY <1>2, <1>4, <1>5, PutRegistry, Zenon DEF IInv, TypeOK
<1>7. /\ pendingJobs' \in [Nodes -> SUBSET JobIDs] /\ executing' \subseteq JobIDs
      /\ \A n \in Nodes : pendingJobs'[n] \subseteq DOMAIN jobs'
      /\ executing' \subseteq DOMAIN jobs'
  <2>1. jobs' = jobs
    BY Zenon DEF ExecuteJob, fsmVars
  <2>2. /\ pendingJobs \in [Nodes -> SUBSET JobIDs] /\ executing \subseteq JobIDs
        /\ \A n \in Nodes : pendingJobs[n] \subseteq DOMAIN jobs
        /\ executing \subseteq DOMAIN jobs
    BY Zenon DEF IInv, TypeOK, JobsExist
  <2>3. \A n \in Nodes : pendingJobs'[n] = IF n = jobs[j].source THEN pendingJobs[n] \cup {j}
                                                              ELSE pendingJobs[n]
    BY <1>4, <1>5, <2>2, Zenon
  <2>4. pendingJobs' \in [Nodes -> SUBSET JobIDs]
    BY <1>2, <1>4, <1>5, <2>2, Zenon
  <2> QED
    BY <1>2, <1>5, <2>1, <2>2, <2>3, <2>4, Zenon
<1>8. IsRegistry(tasks', Causes, Task) /\ TasksFit'
  BY <1>1, SameFits, Zenon DEF ExecuteJob
<1>9. JobsExist'
  BY <1>1, <1>3, <1>7, Zenon DEF IInv, JobsExist, Grows, ExecuteJob, storageVars, fsmVars
<1>10. TypeOK'
  BY <1>3, <1>6, <1>7, <1>8, Zenon DEF IInv, TypeOK, ExecuteJob, storageVars, fsmVars
<1> QED
  BY <1>8, <1>9, <1>10, Zenon DEF IInv, ListedReplicasHold, SourcesHold, ExecuteJob, storageVars, fsmVars

\* Changing one job, not its target and to a source that has the chunk.
LEMMA OneJob ==
  ASSUME IInv, NEW j \in DOMAIN jobs, NEW v \in Job, jobs' = [jobs EXCEPT ![j] = v],
         v.target = jobs[j].target, v.source \in copies, UNCHANGED copies
  PROVE  /\ jobs' \in Seq(Job) /\ Len(jobs') <= MaxJobs
         /\ Grows /\ SourcesHold'
<1>1. jobs' \in Seq(Job) /\ Len(jobs') = Len(jobs) /\ DOMAIN jobs' = DOMAIN jobs
  BY JobsUpdate, Zenon DEF IInv, TypeOK
<1>2. \A k \in DOMAIN jobs : jobs'[k] = IF k = j THEN v ELSE jobs[k]
  BY Zenon DEF IInv, TypeOK
<1> QED
  BY <1>1, <1>2, Zenon DEF IInv, TypeOK, Grows, SourcesHold

\* Setting the status of a job.
LEMMA StatusJob ==
  ASSUME IInv, NEW j \in DOMAIN jobs, NEW st \in {"pending", "in-progress", "done", "failed"},
         jobs' = [jobs EXCEPT ![j].status = st], UNCHANGED copies
  PROVE  /\ jobs' \in Seq(Job) /\ Len(jobs') <= MaxJobs
         /\ Grows /\ SourcesHold'
<1> DEFINE v == [jobs[j] EXCEPT !.status = st]
<1>1. jobs[j] \in Job /\ jobs[j].source \in copies
  BY DEF IInv, TypeOK, SourcesHold
<1>2. v \in Job /\ v.target = jobs[j].target /\ v.source = jobs[j].source
  BY <1>1, Zenon DEF Job
<1>3. jobs' = [jobs EXCEPT ![j] = v]
  BY Zenon
<1> HIDE DEF v
<1> QED
  BY <1>1, <1>2, <1>3, OneJob, Zenon

\* A job is marked in progress.
LEMMA MarkInProgressKeeps == ASSUME IInv, NEW j \in JobIDs, MarkInProgress(j) PROVE IInv'
<1>1. j \in DOMAIN jobs
  BY Zenon DEF MarkInProgress, IInv, JobsExist
<1>2. jobs' \in Seq(Job) /\ Len(jobs') <= MaxJobs /\ Grows /\ SourcesHold'
  <2>1. CASE jobs' = [jobs EXCEPT ![j].status = "in-progress"]
    BY <1>1, <2>1, StatusJob, Zenon DEF MarkInProgress, storageVars
  <2>2. CASE UNCHANGED jobs
    BY <2>2, Zenon DEF MarkInProgress, storageVars, IInv, TypeOK, Grows, SourcesHold
  <2> QED
    BY <2>1, <2>2, Zenon DEF MarkInProgress
<1>3. IsRegistry(tasks', Causes, Task) /\ TasksFit'
  BY <1>2, SameFits, Zenon DEF MarkInProgress
<1>4. JobsExist'
  BY <1>2, Zenon DEF IInv, JobsExist, Grows, MarkInProgress, storageVars
<1>5. TypeOK'
  BY <1>2, <1>3, Zenon DEF IInv, TypeOK, MarkInProgress, storageVars
<1> QED
  BY <1>2, <1>3, <1>4, <1>5, Zenon DEF IInv, ListedReplicasHold, MarkInProgress, storageVars

\* A heartbeat is answered.
LEMMA HeartbeatKeeps == ASSUME IInv, NEW n \in Nodes, Heartbeat(n) PROVE IInv'
<1>1. Grows
  BY Zenon DEF Heartbeat, Grows, fsmVars
<1>2. IsRegistry(tasks', Causes, Task) /\ TasksFit'
  BY <1>1, SameFits, Zenon DEF Heartbeat, leaderVars
<1>3. /\ response' \in [Nodes -> SUBSET JobIDs]
      /\ \A m \in Nodes : response'[m] \subseteq DOMAIN jobs'
  BY Zenon DEF Heartbeat, IInv, TypeOK, JobsExist, fsmVars
<1>4. JobsExist'
  BY <1>1, <1>3, Zenon DEF IInv, JobsExist, Grows, Heartbeat, leaderVars
<1>5. TypeOK'
  BY <1>2, <1>3, Zenon DEF IInv, TypeOK, Heartbeat, leaderVars, fsmVars
<1> QED
  BY <1>2, <1>4, <1>5, Zenon DEF IInv, ListedReplicasHold, SourcesHold, Heartbeat, leaderVars, fsmVars

\* A change of the work of one node that keeps what JobsExist says of it.
LEMMA OneWork ==
  ASSUME IInv, NEW n \in Nodes, NEW w, IsRegistry(w, JobIDs, {"queued", "ok", "failed"}),
         work' = [work EXCEPT ![n] = w],
         \A j \in DOMAIN w : j \in DOMAIN jobs' /\ (w[j] = "ok" => jobs'[j].target \in copies'),
         Grows
  PROVE  /\ DOMAIN work' = Nodes
         /\ \A m \in Nodes :
              /\ IsRegistry(work'[m], JobIDs, {"queued", "ok", "failed"})
              /\ \A j \in DOMAIN work'[m] :
                   j \in DOMAIN jobs' /\ (work'[m][j] = "ok" => jobs'[j].target \in copies')
<1>1. DOMAIN work = Nodes /\ DOMAIN work' = Nodes /\ work'[n] = w
  BY Zenon DEF IInv, TypeOK
<1> SUFFICES ASSUME NEW m \in Nodes
             PROVE  /\ IsRegistry(work'[m], JobIDs, {"queued", "ok", "failed"})
                    /\ \A j \in DOMAIN work'[m] :
                         j \in DOMAIN jobs' /\ (work'[m][j] = "ok" => jobs'[j].target \in copies')
  BY <1>1, Zenon
<1>2. m # n => work'[m] = work[m]
  BY <1>1, Zenon
<1>3. CASE work'[m] = w
  BY <1>3, Zenon
<1>4. CASE work'[m] = work[m]
  BY <1>4, Zenon DEF IInv, TypeOK, JobsExist, Grows
<1> QED
  BY <1>1, <1>2, <1>3, <1>4

\* What IInv says of a node's work.
LEMMA WorkIs ==
  ASSUME IInv, NEW n \in Nodes
  PROVE  /\ IsRegistry(work[n], JobIDs, {"queued", "ok", "failed"})
         /\ \A j \in DOMAIN work[n] :
              /\ j \in JobIDs /\ j \in DOMAIN jobs /\ jobs[j] \in Job
              /\ work[n][j] = "ok" => jobs[j].target \in copies
BY DEF IInv, TypeOK, JobsExist, IsRegistry

\* A node takes a job of the answer.
LEMMA EnqueueRepairKeeps == ASSUME IInv, NEW n \in Nodes, EnqueueRepair(n) PROVE IInv'
<1>1. Grows
  BY Zenon DEF EnqueueRepair, Grows, fsmVars
<1>2. PICK j \in response[n] :
        /\ response' = [response EXCEPT ![n] = @ \ {j}]
        /\ work' = work \/ work' = [work EXCEPT ![n] = Put(work[n], j, "queued")]
  BY ZenonT(30) DEF EnqueueRepair
<1>3. j \in JobIDs /\ j \in DOMAIN jobs
  BY Zenon DEF IInv, TypeOK, JobsExist
<1>4. /\ DOMAIN work' = Nodes
      /\ \A m \in Nodes :
           /\ IsRegistry(work'[m], JobIDs, {"queued", "ok", "failed"})
           /\ \A k \in DOMAIN work'[m] :
                k \in DOMAIN jobs' /\ (work'[m][k] = "ok" => jobs'[k].target \in copies')
  <2>1. CASE work' = work
    BY <1>1, <2>1, Zenon DEF IInv, TypeOK, JobsExist, Grows
  <2>2. CASE work' = [work EXCEPT ![n] = Put(work[n], j, "queued")]
    <3> DEFINE w == Put(work[n], j, "queued")
    <3>1. IsRegistry(w, JobIDs, {"queued", "ok", "failed"})
      BY <1>3, WorkIs, PutRegistry, Zenon
    <3>2. \A k \in DOMAIN w : k \in DOMAIN jobs /\ (w[k] = "ok" => jobs[k].target \in copies)
      BY <1>3, WorkIs, Zenon DEF Put
    <3>3. jobs' = jobs /\ copies' = copies
      BY Zenon DEF EnqueueRepair, fsmVars
    <3> HIDE DEF w
    <3> QED
      BY <1>1, <2>2, <3>1, <3>2, <3>3, OneWork, Zenon DEF w
  <2> QED
    BY <1>2, <2>1, <2>2, Zenon
<1>5. /\ response' \in [Nodes -> SUBSET JobIDs]
      /\ \A m \in Nodes : response'[m] \subseteq DOMAIN jobs'
  BY <1>2, Zenon DEF EnqueueRepair, IInv, TypeOK, JobsExist, fsmVars
<1>6. IsRegistry(tasks', Causes, Task) /\ TasksFit'
  BY <1>1, SameFits, Zenon DEF EnqueueRepair, leaderVars
<1>7. JobsExist'
  BY <1>1, <1>4, <1>5, ZenonT(30) DEF IInv, JobsExist, Grows, EnqueueRepair, leaderVars
<1>8. TypeOK'
  BY <1>4, <1>5, <1>6, Zenon DEF IInv, TypeOK, EnqueueRepair, leaderVars, fsmVars
<1> QED
  BY <1>6, <1>7, <1>8, Zenon DEF IInv, ListedReplicasHold, SourcesHold, EnqueueRepair, leaderVars, fsmVars

\* A node carries out a job.
LEMMA RunRepairKeeps == ASSUME IInv, NEW n \in Nodes, RunRepair(n) PROVE IInv'
<1>1. PICK j \in Queued(n), r \in {"ok", "failed"} :
        /\ work' = [work EXCEPT ![n][j] = r]
        /\ copies' \in {copies, copies \cup {jobs[j].target}}
        /\ r = "ok" => jobs[j].target \in copies'
  <2>1. PICK j \in Queued(n) :
          LET target == jobs[j].target
              possible == n \in copies /\ target \in up
          IN  \/ /\ possible
                 /\ copies' = copies \cup {target}
                 /\ work' = [work EXCEPT ![n][j] = "ok"]
                 /\ UNCHANGED budget
              \/ /\ ~possible
                 /\ work' = [work EXCEPT ![n][j] = "failed"]
                 /\ UNCHANGED <<copies, budget>>
              \/ /\ possible
                 /\ Spend("fault")
                 /\ copies' \in {copies, copies \cup {target}}
                 /\ work' = [work EXCEPT ![n][j] = "failed"]
    BY Zenon DEF RunRepair
  <2>2. CASE work' = [work EXCEPT ![n][j] = "ok"] /\ copies' = copies \cup {jobs[j].target}
    BY <2>2, Zenon
  <2>3. CASE work' = [work EXCEPT ![n][j] = "failed"] /\ copies' \in {copies, copies \cup {jobs[j].target}}
    BY <2>3, Zenon
  <2> QED
    BY <2>1, <2>2, <2>3, Zenon
<1>2. j \in DOMAIN work[n] /\ j \in JobIDs /\ j \in DOMAIN jobs /\ jobs[j] \in Job
  BY WorkIs, Zenon DEF Queued
<1>3. copies \subseteq copies' /\ copies' \subseteq Nodes
  BY <1>1, <1>2, Zenon DEF IInv, TypeOK, Job
<1>4. jobs' = jobs /\ replicas' = replicas
  BY Zenon DEF RunRepair, fsmVars
<1>5. Grows
  BY <1>3, <1>4, Zenon DEF Grows
<1>6. /\ DOMAIN work' = Nodes
      /\ \A m \in Nodes :
           /\ IsRegistry(work'[m], JobIDs, {"queued", "ok", "failed"})
           /\ \A k \in DOMAIN work'[m] :
                k \in DOMAIN jobs' /\ (work'[m][k] = "ok" => jobs'[k].target \in copies')
  <2> DEFINE w == [work[n] EXCEPT ![j] = r]
  <2>1. IsRegistry(w, JobIDs, {"queued", "ok", "failed"})
    BY <1>2, WorkIs, UpdateRegistry, Zenon
  <2>2. DOMAIN w = DOMAIN work[n] /\ \A k \in DOMAIN w : w[k] = IF k = j THEN r ELSE work[n][k]
    BY <1>2, Zenon
  <2>3. \A k \in DOMAIN w : k \in DOMAIN jobs' /\ (w[k] = "ok" => jobs'[k].target \in copies')
    BY <1>1, <1>3, <1>4, <2>2, WorkIs
  <2>4. work' = [work EXCEPT ![n] = w]
    BY <1>1, Zenon
  <2> HIDE DEF w
  <2> QED
    BY <1>5, <2>1, <2>3, <2>4, OneWork, Zenon
<1>7. IsRegistry(tasks', Causes, Task) /\ TasksFit'
  BY <1>5, SameFits, Zenon DEF RunRepair, leaderVars
<1>8. JobsExist'
  BY <1>5, <1>6, SMTT(30) DEF IInv, JobsExist, Grows, RunRepair, leaderVars
<1>9. TypeOK'
  BY <1>3, <1>6, <1>7, Zenon DEF IInv, TypeOK, RunRepair, leaderVars, fsmVars
<1> QED
  BY <1>3, <1>4, <1>7, <1>8, <1>9, SMTT(30) DEF IInv, ListedReplicasHold, SourcesHold

-----------------------------------------------------------------------------
(* The report of a repair *)

\* Deleting a job from a node's work, or leaving the work alone.
LEMMA LessWork ==
  ASSUME IInv, NEW n \in Nodes, NEW j, Grows,
         work' = work \/ work' = [work EXCEPT ![n] = Delete(work[n], j)]
  PROVE  /\ DOMAIN work' = Nodes
         /\ \A m \in Nodes :
              /\ IsRegistry(work'[m], JobIDs, {"queued", "ok", "failed"})
              /\ \A k \in DOMAIN work'[m] :
                   k \in DOMAIN jobs' /\ (work'[m][k] = "ok" => jobs'[k].target \in copies')
<1>1. CASE work' = work
  BY <1>1, ZenonT(30) DEF IInv, TypeOK, JobsExist, Grows
<1>2. CASE work' = [work EXCEPT ![n] = Delete(work[n], j)]
  <2> DEFINE w == Delete(work[n], j)
  <2>1. IsRegistry(w, JobIDs, {"queued", "ok", "failed"})
    BY WorkIs, DeleteRegistry, Zenon
  <2>2. \A k \in DOMAIN w : k \in DOMAIN jobs' /\ (w[k] = "ok" => jobs'[k].target \in copies')
    BY WorkIs, Zenon DEF Delete, Grows
  <2> HIDE DEF w
  <2> QED
    BY <1>2, <2>1, <2>2, OneWork, Zenon DEF w
<1> QED
  BY <1>1, <1>2, ZenonT(30)

\* A result is reported.
LEMMA ReportRepairResultKeeps == ASSUME IInv, NEW n \in Nodes, ReportRepairResult(n) PROVE IInv'
<1>1. PICK j \in Reports(n), pc \in {"add", "retry"}, st \in {"done", "failed"} :
        /\ pc = "add" => work[n][j] = "ok"
        /\ jobs' = [jobs EXCEPT ![j].status = st]
        /\ pendingJobs' = [pendingJobs EXCEPT ![n] = @ \ {j}]
        /\ pendingJobsSet' =
             IF pendingJobs[n] = {} THEN pendingJobsSet
             ELSE Restrict(pendingJobsSet,
                           {t \in DOMAIN pendingJobsSet : pendingJobsSet[t] # j})
        /\ tasks' = Put(tasks, <<"report", j>>, NewTask(pc, n))
        /\ UNCHANGED <<status, replicas, queue, executing, storageVars, budget>>
  BY Zenon DEF ReportRepairResult
<1>2. j \in JobIDs /\ j \in DOMAIN jobs /\ (pc = "add" => jobs[j].target \in copies)
  BY <1>1, WorkIs, Zenon DEF Reports
<1>3. jobs' \in Seq(Job) /\ Len(jobs') <= MaxJobs /\ Grows /\ SourcesHold'
  BY <1>1, <1>2, StatusJob, ZenonT(30) DEF storageVars
<1>4. IsRegistry(tasks', Causes, Task) /\ TasksFit'
  <2> DEFINE c == <<"report", j>>
             t == NewTask(pc, n)
  <2>1. c \in Causes /\ c[2] = j /\ t \in Task
    BY <1>2, NewTaskType, Zenon DEF Causes
  <2>2. t.pc = pc /\ t.node = n /\ t.live = {} /\ t.stuck = {}
    BY Zenon DEF NewTask
  <2>3. tasks' = Put(tasks, c, t)
    BY <1>1, Zenon
  <2> HIDE DEF c, t
  <2>4. NextFits(c, t)
    BY <1>2, <1>3, <2>1, <2>2 DEF NextFits, Grows
  <2> QED
    BY <1>3, <2>1, <2>3, <2>4, GotoFits
<1>5. /\ pendingJobs' \in [Nodes -> SUBSET JobIDs]
      /\ \A m \in Nodes : pendingJobs'[m] \subseteq DOMAIN jobs'
  <2>1. \A m \in Nodes : pendingJobs[m] \subseteq DOMAIN jobs'
    BY <1>3, Zenon DEF IInv, JobsExist, Grows
  <2>2. pendingJobs \in [Nodes -> SUBSET JobIDs]
    BY Zenon DEF IInv, TypeOK
  <2> QED
    BY <1>1, <2>1, <2>2, Zenon
<1>6. IsRegistry(pendingJobsSet', Nodes, JobIDs)
  BY <1>1, Zenon DEF IInv, TypeOK, IsRegistry, Restrict
<1>7. JobsExist'
  BY <1>1, <1>3, <1>5 DEF IInv, JobsExist, Grows, storageVars
<1>8. TypeOK'
  BY <1>1, <1>3, <1>4, <1>5, <1>6, Zenon DEF IInv, TypeOK, storageVars
<1> QED
  BY <1>1, <1>3, <1>4, <1>7, <1>8, SMTT(30) DEF IInv, ListedReplicasHold, storageVars

\* The target of a job that succeeded is listed.
LEMMA AddChunkReplicaKeeps == ASSUME IInv, NEW c \in DOMAIN tasks, AddChunkReplica(c) PROVE IInv'
<1> DEFINE j == c[2]
<1>1. Grows
  BY Zenon DEF AddChunkReplica, Grows
<1>2. j \in DOMAIN jobs /\ jobs[j].target \in copies /\ tasks[c].node \in Nodes
  BY TaskType, Zenon DEF AddChunkReplica, Fits
<1>3. replicas' \in {replicas, replicas \cup {jobs[j].target}}
  BY Zenon DEF AddChunkReplica
<1>4. work' = work \/ work' = [work EXCEPT ![tasks[c].node] = Delete(work[tasks[c].node], j)]
  BY Zenon DEF AddChunkReplica, WorkDone
<1>5. /\ DOMAIN work' = Nodes
      /\ \A m \in Nodes :
           /\ IsRegistry(work'[m], JobIDs, {"queued", "ok", "failed"})
           /\ \A k \in DOMAIN work'[m] :
                k \in DOMAIN jobs' /\ (work'[m][k] = "ok" => jobs'[k].target \in copies')
  BY <1>1, <1>2, <1>4, LessWork, SMTT(30)
<1>6. IsRegistry(tasks', Causes, Task) /\ TasksFit'
  BY <1>1, FinishFits, ZenonT(30) DEF AddChunkReplica, Finish
<1>7. JobsExist'
  BY <1>1, <1>5, SMTT(30) DEF IInv, JobsExist, Grows, AddChunkReplica
<1>8. replicas' \subseteq copies /\ copies \subseteq Nodes
  BY <1>2, <1>3, Zenon DEF IInv, ListedReplicasHold, TypeOK
<1>9. TypeOK'
  BY <1>5, <1>6, <1>8, Zenon DEF IInv, TypeOK, AddChunkReplica
<1> QED
  BY <1>6, <1>7, <1>8, <1>9, Zenon DEF IInv, ListedReplicasHold, SourcesHold, AddChunkReplica

\* A job that failed is tried again.
LEMMA RetryKeeps == ASSUME IInv, NEW c \in DOMAIN tasks, Retry(c) PROVE IInv'
<1> DEFINE j == c[2]
<1>1. Grows
  BY Zenon DEF Retry, Grows, fsmVars
<1>2. c \in Causes /\ tasks[c].node \in Nodes /\ NewTask("locate", NoNode) \in Task
  BY TaskType, NewTaskType, Zenon DEF Retry, Fits
<1>3. work' = work \/ work' = [work EXCEPT ![tasks[c].node] = Delete(work[tasks[c].node], j)]
  BY Zenon DEF Retry, WorkDone
<1>4. /\ DOMAIN work' = Nodes
      /\ \A m \in Nodes :
           /\ IsRegistry(work'[m], JobIDs, {"queued", "ok", "failed"})
           /\ \A k \in DOMAIN work'[m] :
                k \in DOMAIN jobs' /\ (work'[m][k] = "ok" => jobs'[k].target \in copies')
  BY <1>1, <1>2, <1>3, LessWork, SMTT(30)
<1>5. NextFits(c, NewTask("locate", NoNode))
  BY Zenon DEF NextFits, NewTask
<1>6. IsRegistry(tasks', Causes, Task) /\ TasksFit'
  BY <1>1, <1>2, <1>5, GotoFits, FinishFits, SMTT(30) DEF Retry, Goto, Finish
<1>7. JobsExist'
  BY <1>1, <1>4, Zenon DEF IInv, JobsExist, Grows, Retry
<1>8. TypeOK'
  BY <1>4, <1>6, Zenon DEF IInv, TypeOK, Retry, fsmVars
<1> QED
  BY <1>6, <1>7, <1>8, Zenon DEF IInv, ListedReplicasHold, SourcesHold, Retry, fsmVars

\* A report is lost.
LEMMA LoseReportKeeps == ASSUME IInv, NEW n \in Nodes, LoseReport(n) PROVE IInv'
<1>1. Grows
  BY Zenon DEF LoseReport, Grows, fsmVars
<1>2. PICK j \in Reports(n) : work' = [work EXCEPT ![n] = Delete(work[n], j)]
  BY Zenon DEF LoseReport
<1>3. /\ DOMAIN work' = Nodes
      /\ \A m \in Nodes :
           /\ IsRegistry(work'[m], JobIDs, {"queued", "ok", "failed"})
           /\ \A k \in DOMAIN work'[m] :
                k \in DOMAIN jobs' /\ (work'[m][k] = "ok" => jobs'[k].target \in copies')
  BY <1>1, <1>2, LessWork, Zenon
<1>4. IsRegistry(tasks', Causes, Task) /\ TasksFit'
  BY <1>1, SameFits, Zenon DEF LoseReport, leaderVars
<1>5. JobsExist'
  BY <1>1, <1>3 DEF IInv, JobsExist, Grows, LoseReport, leaderVars
<1>6. TypeOK'
  BY <1>3, <1>4, Zenon DEF IInv, TypeOK, LoseReport, leaderVars, fsmVars
<1> QED
  BY <1>4, <1>5, <1>6, Zenon DEF IInv, ListedReplicasHold, SourcesHold, LoseReport, leaderVars, fsmVars

-----------------------------------------------------------------------------
(* Crashes *)

\* A storage node stops; its copy is not used again, and stays counted.
LEMMA CrashKeeps == ASSUME IInv, NEW n \in Nodes, Crash(n) PROVE IInv'
<1>1. Grows
  BY Zenon DEF Crash, Grows, fsmVars
<1>2. /\ DOMAIN work' = Nodes
      /\ \A m \in Nodes :
           /\ IsRegistry(work'[m], JobIDs, {"queued", "ok", "failed"})
           /\ \A k \in DOMAIN work'[m] :
                k \in DOMAIN jobs' /\ (work'[m][k] = "ok" => jobs'[k].target \in copies')
  <2>1. /\ IsRegistry(EmptyRegistry, JobIDs, {"queued", "ok", "failed"})
        /\ DOMAIN EmptyRegistry = {}
    BY Zenon DEF IsRegistry, EmptyRegistry
  <2> QED
    BY <1>1, <2>1, OneWork, Zenon DEF Crash
<1>3. /\ response' \in [Nodes -> SUBSET JobIDs]
      /\ \A m \in Nodes : response'[m] \subseteq DOMAIN jobs'
  BY Zenon DEF Crash, IInv, TypeOK, JobsExist, fsmVars
<1>4. IsRegistry(tasks', Causes, Task) /\ TasksFit'
  BY <1>1, SameFits, Zenon DEF Crash, leaderVars
<1>5. JobsExist'
  BY <1>1, <1>2, <1>3, SMTT(30) DEF IInv, JobsExist, Grows, Crash, leaderVars
<1>6. TypeOK'
  BY <1>2, <1>3, <1>4, Zenon DEF IInv, TypeOK, Crash, leaderVars, fsmVars
<1> QED
  BY <1>4, <1>5, <1>6, Zenon DEF IInv, ListedReplicasHold, SourcesHold, Crash, leaderVars, fsmVars

\* A leader that starts with an empty memory.
LEMMA EmptyMemory ==
  ASSUME IInv, UNCHANGED <<fsmVars, storageVars>>, queue' = <<>>, executing' = {},
         pendingJobs' = [n \in Nodes |-> {}], pendingJobsSet' = EmptyRegistry,
         IsRegistry(tasks', Causes, Task), TasksFit'
  PROVE  IInv'
<1>1. Grows
  BY Zenon DEF Grows, fsmVars, storageVars
<1>2. IsRegistry(pendingJobsSet', Nodes, JobIDs)
  BY Zenon DEF IsRegistry, EmptyRegistry
<1>3. JobsExist'
  BY <1>1 DEF IInv, JobsExist, Grows, storageVars
<1>4. TypeOK'
  BY <1>2, RepairAssumption DEF IInv, TypeOK, fsmVars, storageVars
<1> QED
  BY <1>3, <1>4, Zenon DEF IInv, ListedReplicasHold, SourcesHold, fsmVars, storageVars

\* The metadata server restarts, with the recovery of the jobs in progress.
LEMMA MetadataRestartKeeps == ASSUME IInv, MetadataRestart PROVE IInv'
<1> DEFINE c == <<"recover", NoNode>>
           stuck == {j \in DOMAIN jobs : jobs[j].status = "in-progress"}
           t == [NewTask("recover", NoNode) EXCEPT !.stuck = stuck]
<1>1. jobs' = jobs /\ copies' = copies /\ DOMAIN jobs \subseteq JobIDs
  <2>1. DOMAIN jobs = 1..Len(jobs) /\ Len(jobs) \in Nat /\ Len(jobs) <= MaxJobs
    BY DEF IInv, TypeOK
  <2> QED
    BY <2>1, RepairAssumption DEF MetadataRestart, fsmVars, storageVars, JobIDs
<1>2. c \in Causes /\ t \in Task
  BY <1>1, Zenon DEF Causes, NewTask, Task
<1>3. t.pc = "recover" /\ t.live = {} /\ t.stuck = stuck
  BY Zenon DEF NewTask
<1>4. tasks' = Put(EmptyRegistry, c, t)
  BY Zenon DEF MetadataRestart
<1> HIDE DEF c, t
<1>5. IsRegistry(tasks', Causes, Task)
  <2>1. IsRegistry(EmptyRegistry, Causes, Task)
    BY Zenon DEF IsRegistry, EmptyRegistry
  <2> QED
    BY <1>2, <1>4, <2>1, PutRegistry, Zenon
<1>6. TasksFit'
  <2>1. \A d \in DOMAIN tasks' : tasks'[d] = t
    BY <1>4, Zenon DEF Put, EmptyRegistry
  <2> QED
    BY <1>1, <1>3, <2>1, Zenon DEF TasksFit, Fits
<1> QED
  BY <1>5, <1>6, EmptyMemory, Zenon DEF MetadataRestart

\* Another server becomes the leader.
LEMMA LeaderChangeKeeps == ASSUME IInv, LeaderChange PROVE IInv'
<1>1. IsRegistry(tasks', Causes, Task) /\ TasksFit'
  BY Zenon DEF LeaderChange, IsRegistry, EmptyRegistry, TasksFit
<1> QED
  BY <1>1, EmptyMemory, Zenon DEF LeaderChange

\* A job in progress is queued again, with a source that is listed.
LEMMA RecoverJobKeeps == ASSUME IInv, NEW c \in DOMAIN tasks, RecoverJob(c) PROVE IInv'
<1> USE RepairAssumption
<1>1. PICK j \in tasks[c].stuck :
        /\ Goto(c, [tasks[c] EXCEPT !.stuck = @ \ {j}])
        /\ queue' = queue \/ (Len(queue) < QueueCapacity /\ queue' = Append(queue, j))
        /\ \/ jobs' = jobs
           \/ \E source \in GetChunkLocations :
                jobs' = [jobs EXCEPT ![j] = [@ EXCEPT !.source = source, !.status = "pending"]]
  BY ZenonT(30) DEF RecoverJob
<1>2. tasks[c].pc = "recover" /\ j \in DOMAIN jobs /\ j \in JobIDs
  BY TaskType, ZenonT(30) DEF RecoverJob, Fits, Task
<1>3. UNCHANGED <<status, replicas, executing, pendingJobs, pendingJobsSet, storageVars>>
  BY ZenonT(30) DEF RecoverJob
<1>4. jobs' \in Seq(Job) /\ Len(jobs') <= MaxJobs /\ Grows /\ SourcesHold'
  <2>1. CASE jobs' = jobs
    BY <1>3, <2>1 DEF storageVars, IInv, TypeOK, Grows, SourcesHold
  <2>2. ASSUME NEW source \in GetChunkLocations,
               jobs' = [jobs EXCEPT ![j] = [@ EXCEPT !.source = source, !.status = "pending"]]
        PROVE  jobs' \in Seq(Job) /\ Len(jobs') <= MaxJobs /\ Grows /\ SourcesHold'
    <3> DEFINE v == [jobs[j] EXCEPT !.source = source, !.status = "pending"]
    <3>1. source \in Nodes /\ source \in copies
      BY Zenon DEF GetChunkLocations, IInv, TypeOK, ListedReplicasHold
    <3>2. jobs[j] \in Job
      BY <1>2 DEF IInv, TypeOK
    <3>3. v \in Job /\ v.target = jobs[j].target /\ v.source = source
      BY <3>1, <3>2, ZenonT(30) DEF Job
    <3>4. jobs' = [jobs EXCEPT ![j] = v]
      BY <2>2, Zenon
    <3> HIDE DEF v
    <3> QED
      BY <1>2, <1>3, <3>1, <3>3, <3>4, OneJob, Zenon DEF storageVars
  <2> QED
    BY <1>1, <2>1, <2>2, Zenon
<1>5. /\ queue' \in Seq(JobIDs) /\ Len(queue') <= QueueCapacity
      /\ \A i \in 1..Len(queue') : queue'[i] \in DOMAIN jobs'
  <2>1. /\ queue \in Seq(JobIDs) /\ Len(queue) <= QueueCapacity
        /\ \A i \in 1..Len(queue) : queue[i] \in DOMAIN jobs'
        /\ j \in DOMAIN jobs'
    BY <1>2, <1>4, Zenon DEF IInv, TypeOK, JobsExist, Grows
  <2>2. CASE queue' = queue
    BY <2>1, <2>2, Zenon
  <2>3. CASE Len(queue) < QueueCapacity /\ queue' = Append(queue, j)
    <3>1. /\ queue' \in Seq(JobIDs) /\ Len(queue') = Len(queue) + 1
          /\ \A i \in 1..Len(queue') : queue'[i] = IF i <= Len(queue) THEN queue[i] ELSE j
      BY <1>2, <2>1, <2>3
    <3> QED
      BY <2>1, <2>3, <3>1
  <2> QED
    BY <1>1, <2>2, <2>3, Zenon
<1>6. IsRegistry(tasks', Causes, Task) /\ TasksFit'
  <2> DEFINE t == [tasks[c] EXCEPT !.stuck = tasks[c].stuck \ {j}]
  <2>1. c \in Causes /\ t \in Task
    BY TaskType DEF Task
  <2>2. t.pc = "recover" /\ t.stuck \subseteq tasks[c].stuck /\ t.live = tasks[c].live
    BY <1>2, TaskType DEF Task
  <2>3. NextFits(c, tasks[c])
    BY <1>4, KeepFits, SMTT(30)
  <2>4. tasks' = Put(tasks, c, t)
    BY <1>1, Zenon DEF Goto
  <2> HIDE DEF t
  <2>5. NextFits(c, t)
    BY <2>2, <2>3, SMTT(30) DEF NextFits
  <2> QED
    BY <1>4, <2>1, <2>4, <2>5, GotoFits, Zenon
<1>7. JobsExist'
  BY <1>3, <1>4, <1>5, ZenonT(30) DEF IInv, JobsExist, Grows, storageVars
<1>8. TypeOK'
  BY <1>3, <1>4, <1>5, <1>6, Zenon DEF IInv, TypeOK, storageVars
<1> QED
  BY <1>3, <1>4, <1>6, <1>7, <1>8, SMTT(30) DEF IInv, ListedReplicasHold, storageVars

-----------------------------------------------------------------------------
(* The theorems *)

\* IInv is inductive.
LEMMA IInvNext == IInv /\ [Next]_vars => IInv'
<1> SUFFICES ASSUME IInv, [Next]_vars PROVE IInv'
  BY SMTT(30)
<1>1. CASE UNCHANGED vars
  BY <1>1, Zenon DEF vars, fsmVars, leaderVars, storageVars, IInv, TypeOK, TasksFit, Fits, JobsExist,
              ListedReplicasHold, SourcesHold
<1>2. ASSUME NEW n \in Nodes,
             \/ MarkNodeDead(n) \/ DeregisterNode(n) \/ ReportCorruption(n)
             \/ Heartbeat(n) \/ EnqueueRepair(n) \/ RunRepair(n)
             \/ ReportRepairResult(n) \/ LoseReport(n) \/ Crash(n)
      PROVE  IInv'
  BY <1>2, MarkNodeDeadKeeps, DeregisterNodeKeeps, ReportCorruptionKeeps, HeartbeatKeeps,
     EnqueueRepairKeeps, RunRepairKeeps, ReportRepairResultKeeps, LoseReportKeeps, CrashKeeps, Zenon
<1>3. ASSUME NEW c \in DOMAIN tasks, TaskStep(c) PROVE IInv'
  BY <1>3, EvictKeeps, LocateKeeps, PlaceKeeps, CreateJobKeeps, AddChunkReplicaKeeps, RetryKeeps,
     RecoverJobKeeps DEF TaskStep
<1> QED
  BY <1>1, <1>2, <1>3, ExecuteJobKeeps, MarkInProgressKeeps, MetadataRestartKeeps,
     LeaderChangeKeeps DEF Next

\* IInv holds in every state.
LEMMA IInvHolds == Spec => []IInv
BY IInvInit, IInvNext, PTL DEF Spec

\* The variables of repair keep their types; the queue keeps its bound.
THEOREM TypeCorrect == Spec => []TypeOK
<1>1. IInv => TypeOK
  BY Zenon DEF IInv
<1> QED
  BY <1>1, IInvHolds, PTL

\* A listed node has the chunk: OnJobComplete lists a target only for a report
\* of a transfer that stored the chunk there.
THEOREM ListedReplicasHoldHolds == Spec => []ListedReplicasHold
<1>1. IInv => ListedReplicasHold
  BY DEF IInv
<1> QED
  BY <1>1, IInvHolds, PTL

\* The source of a job has the chunk, whichever of scheduleRepairJobs and
\* RecoverStuckJobs chose it.
THEOREM SourcesHoldHolds == Spec => []SourcesHold
<1>1. IInv => SourcesHold
  BY Zenon DEF IInv
<1> QED
  BY <1>1, IInvHolds, PTL

\* A step changes the list and the copies by one node at most, as ChunkReplicas
\* allows it.
LEMMA StepRefines == IInv /\ [Next]_vars => [CR!Next]_<<replicas, copies>>
<1> SUFFICES ASSUME IInv, [Next]_vars, ~UNCHANGED <<replicas, copies>> PROVE CR!Next
  BY Zenon
<1> USE DEF fsmVars, leaderVars, storageVars
<1>1. ASSUME NEW n \in Nodes, ReportCorruption(n) PROVE CR!Next
  BY <1>1, Zenon DEF ReportCorruption, CR!Next, CR!Unlist
<1>2. ASSUME NEW n \in Nodes, RunRepair(n) PROVE CR!Next
  <2>1. PICK j \in Queued(n) : n \in copies /\ copies' = copies \cup {jobs[j].target}
    BY <1>2, Zenon DEF RunRepair
  <2>2. jobs[j].target \in Nodes
    BY WorkIs, Zenon DEF Queued, Job
  <2>3. UNCHANGED replicas
    BY <1>2, Zenon DEF RunRepair
  <2> QED
    BY <2>1, <2>2, <2>3 DEF CR!Next, CR!Copy
<1>3. ASSUME NEW c \in DOMAIN tasks, Evict(c) PROVE CR!Next
  <2>1. tasks[c].node \in replicas /\ replicas' = replicas \ {tasks[c].node} /\ UNCHANGED copies
    BY <1>3, Zenon DEF Evict
  <2>2. tasks[c].node \in Nodes
    BY <2>1, Zenon DEF IInv, TypeOK
  <2> QED
    BY <2>1, <2>2, Zenon DEF CR!Next, CR!Unlist
<1>4. ASSUME NEW c \in DOMAIN tasks, AddChunkReplica(c) PROVE CR!Next
  <2>1. tasks[c].pc = "add" /\ replicas' = replicas \cup {jobs[c[2]].target} /\ UNCHANGED copies
    BY <1>4, Zenon DEF AddChunkReplica
  <2>2. jobs[c[2]].target \in copies /\ copies \subseteq Nodes
    BY <2>1, TaskType, SMTT(30) DEF Fits, IInv, TypeOK
  <2> QED
    BY <2>1, <2>2, Zenon DEF CR!Next, CR!List
<1>5. \/ \E n \in Nodes : ReportCorruption(n) \/ RunRepair(n)
      \/ \E c \in DOMAIN tasks : Evict(c) \/ AddChunkReplica(c)
  BY ZenonT(30) DEF vars, Next, TaskStep, MarkNodeDead, DeregisterNode, Heartbeat, EnqueueRepair,
         ReportRepairResult, LoseReport, Crash, Locate, Place, CreateJob, Retry, RecoverJob,
         ExecuteJob, MarkInProgress, MetadataRestart, LeaderChange
<1> QED
  BY <1>1, <1>2, <1>3, <1>4, <1>5

\* Repair implements ChunkReplicas: a node is listed only while it has the
\* chunk, lists change by one node at a time, and no copy is removed.
THEOREM Implementation == Spec => ImplementsChunkReplicas
<1>1. Init => CR!Init
  BY Zenon DEF Init, CR!Init
<1> QED
  BY <1>1, IInvHolds, StepRefines, PTL DEF Spec, ImplementsChunkReplicas, CR!Spec

-----------------------------------------------------------------------------
(* Jobs from a node to itself *)

\* A task that does not recover, and whose targets are apart from its source.
Apart(t) == t.pc # "recover" /\ (t.pc = "create" => t.source \notin t.targets)

\* Before the first restart no recovery runs, and a task that creates jobs has
\* chosen its targets apart from its source.
NoSelf ==
  /\ budget \in [Mishaps -> Nat] /\ budget["restart"] <= MaxRestarts
  /\ budget["restart"] = MaxRestarts =>
       /\ \A j \in DOMAIN jobs : jobs[j].source # jobs[j].target
       /\ \A c \in DOMAIN tasks : Apart(tasks[c])

\* A mishap lowers its own counter.
LEMMA SpendLowers ==
  ASSUME budget \in [Mishaps -> Nat], NEW kind \in Mishaps \ {"total"}, Spend(kind)
  PROVE  /\ budget' \in [Mishaps -> Nat]
         /\ budget'["restart"] = IF kind = "restart" THEN budget["restart"] - 1 ELSE budget["restart"]
         /\ budget["restart"] > 0 \/ kind # "restart"
<1>1. "total" \in Mishaps /\ "restart" \in Mishaps /\ "total" # "restart" /\ kind # "total"
  BY Zenon DEF Mishaps
<1> QED
  BY <1>1 DEF Spend

\* Every step but a restart leaves the restarts alone.
Unspent == budget' \in [Mishaps -> Nat] /\ budget'["restart"] = budget["restart"]

\* A mishap of another kind is such a step.
LEMMA OtherMishap ==
  ASSUME NoSelf,
         \/ UNCHANGED budget
         \/ \E kind \in Mishaps \ {"total", "restart"} : Spend(kind)
  PROVE  Unspent
BY SpendLowers, Zenon DEF NoSelf, Unspent

\* A step that restarts nothing, keeps the ends of the jobs, and changes one task.
LEMMA OneTask ==
  ASSUME NoSelf, Unspent, DOMAIN jobs' = DOMAIN jobs,
         \A j \in DOMAIN jobs : jobs'[j].source = jobs[j].source /\ jobs'[j].target = jobs[j].target,
         NEW c, NEW t, Apart(t) \/ budget["restart"] # MaxRestarts,
         tasks' \in {tasks, Put(tasks, c, t), Delete(tasks, c)}
  PROVE  NoSelf'
<1>1. ASSUME budget["restart"] = MaxRestarts, NEW d \in DOMAIN tasks' PROVE Apart(tasks'[d])
  <2>1. CASE tasks' = tasks
    BY <1>1, <2>1, Zenon DEF NoSelf
  <2>2. CASE tasks' = Put(tasks, c, t)
    BY <1>1, <2>2, Zenon DEF NoSelf, Put
  <2>3. CASE tasks' = Delete(tasks, c)
    BY <1>1, <2>3, Zenon DEF NoSelf, Delete
  <2> QED
    BY <2>1, <2>2, <2>3, Zenon
<1> QED
  BY <1>1, Zenon DEF NoSelf, Apart, Unspent

\* A step that leaves the tasks and the ends of the jobs alone.
LEMMA NoTask ==
  ASSUME NoSelf, Unspent, UNCHANGED tasks, DOMAIN jobs' = DOMAIN jobs,
         \A j \in DOMAIN jobs : jobs'[j].source = jobs[j].source /\ jobs'[j].target = jobs[j].target
  PROVE  NoSelf'
BY Zenon DEF NoSelf, Apart, Unspent

\* A task that has just started.
LEMMA NewApart ==
  ASSUME NEW pc \in {"evict", "locate", "add", "retry"}, NEW n
  PROVE  Apart(NewTask(pc, n))
BY Zenon DEF Apart, NewTask

\* Init
LEMMA NoSelfInit == Init => NoSelf
<1> SUFFICES ASSUME Init PROVE NoSelf
  BY Zenon
<1>1. budget \in [Mishaps -> Nat] /\ budget["restart"] = MaxRestarts
  BY RepairAssumption, Zenon DEF Init, Mishaps, Bounds
<1>2. DOMAIN jobs = {} /\ MaxRestarts \in Nat
  BY RepairAssumption DEF Init
<1>3. \A c \in DOMAIN tasks : tasks[c] = NewTask("locate", NoNode)
  BY Zenon DEF Init, Put, EmptyRegistry
<1>4. \A c \in DOMAIN tasks : Apart(tasks[c])
  BY <1>3, NewApart
<1> QED
  BY <1>1, <1>2, <1>4 DEF NoSelf

\* A job's status says nothing about its ends.
LEMMA StatusEnds ==
  ASSUME IInv, NEW j \in DOMAIN jobs, NEW s, jobs' = [jobs EXCEPT ![j].status = s]
  PROVE  /\ DOMAIN jobs' = DOMAIN jobs
         /\ \A k \in DOMAIN jobs : jobs'[k].source = jobs[k].source /\ jobs'[k].target = jobs[k].target
<1> DEFINE v == [jobs[j] EXCEPT !.status = s]
<1>1. jobs[j] \in Job
  BY DEF IInv, TypeOK
<1>2. v.source = jobs[j].source /\ v.target = jobs[j].target
  BY <1>1, Zenon DEF Job
<1>3. jobs' = [jobs EXCEPT ![j] = v]
  BY Zenon
<1> HIDE DEF v
<1> QED
  BY <1>2, <1>3 DEF IInv, TypeOK

\* The steps of the nodes and of the scheduler's workers.
LEMMA NoSelfNode ==
  ASSUME IInv, NoSelf, NEW n \in Nodes,
         \/ MarkNodeDead(n) \/ DeregisterNode(n) \/ ReportCorruption(n)
         \/ Heartbeat(n) \/ EnqueueRepair(n) \/ RunRepair(n)
         \/ ReportRepairResult(n) \/ LoseReport(n) \/ Crash(n)
  PROVE  NoSelf'
<1> USE DEF storageVars, leaderVars, fsmVars
<1>1. CASE MarkNodeDead(n)
  <2>1. Unspent
    BY <1>1, OtherMishap, ZenonT(30) DEF MarkNodeDead, Mishaps
  <2>2. tasks' = Put(tasks, <<"watcher", n>>, NewTask("evict", n)) /\ UNCHANGED jobs
    BY <1>1, Zenon DEF MarkNodeDead
  <2> QED
    BY <2>1, <2>2, NewApart, OneTask, Zenon
<1>2. CASE DeregisterNode(n)
  <2>1. Unspent
    BY <1>2, OtherMishap, SMTT(30) DEF DeregisterNode, Mishaps
  <2>2. tasks' = Put(tasks, <<"leave", n>>, NewTask("evict", n)) /\ UNCHANGED jobs
    BY <1>2, Zenon DEF DeregisterNode
  <2> QED
    BY <2>1, <2>2, NewApart, OneTask, SMTT(30)
<1>3. CASE ReportCorruption(n)
  <2>1. Unspent
    BY <1>3, OtherMishap DEF ReportCorruption, Mishaps
  <2>2. tasks' = Put(tasks, <<"corruption", n>>, NewTask("locate", NoNode)) /\ UNCHANGED jobs
    BY <1>3, Zenon DEF ReportCorruption
  <2> QED
    BY <2>1, <2>2, NewApart, OneTask
<1>4. CASE Heartbeat(n) \/ EnqueueRepair(n)
  BY <1>4, OtherMishap, NoTask, ZenonT(30) DEF Heartbeat, EnqueueRepair
<1>5. CASE RunRepair(n)
  <2>1. Unspent
    BY <1>5, OtherMishap, SMTT(30) DEF RunRepair, Mishaps
  <2> QED
    BY <1>5, <2>1, NoTask, SMTT(30) DEF RunRepair
<1>6. CASE LoseReport(n)
  <2>1. Unspent
    BY <1>6, OtherMishap, ZenonT(30) DEF LoseReport, Mishaps
  <2> QED
    BY <1>6, <2>1, NoTask, ZenonT(30) DEF LoseReport
<1>7. CASE Crash(n)
  <2>1. Unspent
    BY <1>7, OtherMishap DEF Crash, Mishaps
  <2> QED
    BY <1>7, <2>1, NoTask DEF Crash
<1>8. CASE ReportRepairResult(n)
  <2>1. PICK j \in Reports(n), pc \in {"add", "retry"}, st \in {"done", "failed"} :
          /\ jobs' = [jobs EXCEPT ![j].status = st]
          /\ tasks' = Put(tasks, <<"report", j>>, NewTask(pc, n))
          /\ UNCHANGED budget
    BY <1>8, Zenon DEF ReportRepairResult
  <2>2. j \in DOMAIN jobs
    BY Zenon DEF IInv, JobsExist, Reports
  <2>3. Unspent
    BY <2>1, OtherMishap
  <2>4. Apart(NewTask(pc, n))
    BY NewApart, Zenon
  <2> QED
    BY <2>1, <2>2, <2>3, <2>4, StatusEnds, OneTask
<1> QED
  BY <1>1, <1>2, <1>3, <1>4, <1>5, <1>6, <1>7, <1>8, Zenon

\* The workers of the scheduler
LEMMA NoSelfWorker ==
  ASSUME IInv, NoSelf, ExecuteJob \/ \E j \in JobIDs : MarkInProgress(j)
  PROVE  NoSelf'
<1>1. CASE ExecuteJob
  BY <1>1, OtherMishap, NoTask DEF ExecuteJob, fsmVars
<1>2. ASSUME NEW j \in JobIDs, MarkInProgress(j) PROVE NoSelf'
  <2>1. Unspent
    BY <1>2, OtherMishap DEF MarkInProgress, Mishaps
  <2>2. j \in DOMAIN jobs
    BY <1>2 DEF MarkInProgress, IInv, JobsExist
  <2>3. UNCHANGED tasks /\ (jobs' = jobs \/ jobs' = [jobs EXCEPT ![j].status = "in-progress"])
    BY <1>2, Zenon DEF MarkInProgress
  <2> QED
    BY <2>1, <2>2, <2>3, StatusEnds, NoTask
<1> QED
  BY <1>1, <1>2, SMTT(30)

\* The server restarts, or another one takes over.
LEMMA NoSelfRestart ==
  ASSUME NoSelf, MetadataRestart \/ LeaderChange
  PROVE  NoSelf'
<1> USE DEF fsmVars
<1>1. CASE MetadataRestart
  <2>1. "restart" \in Mishaps \ {"total"}
    BY Zenon DEF Mishaps
  <2>2. /\ budget' \in [Mishaps -> Nat] /\ budget'["restart"] = budget["restart"] - 1
        /\ budget["restart"] \in Nat
    BY <1>1, <2>1, SpendLowers, Zenon DEF MetadataRestart, NoSelf
  <2> QED
    BY <2>2, RepairAssumption DEF NoSelf
<1>2. CASE LeaderChange
  <2>1. Unspent
    BY <1>2, OtherMishap, Zenon DEF LeaderChange, Mishaps
  <2> QED
    BY <1>2, <2>1, Zenon DEF LeaderChange, EmptyRegistry, NoSelf, Unspent
<1> QED
  BY <1>1, <1>2, Zenon


\* The steps of the tasks
LEMMA NoSelfTask ==
  ASSUME IInv, NoSelf, NEW c \in DOMAIN tasks, TaskStep(c)
  PROVE  NoSelf'
<1> USE DEF storageVars, fsmVars
<1>0. tasks[c] \in Task /\ (budget["restart"] = MaxRestarts => Apart(tasks[c]))
  BY TaskType, Zenon DEF NoSelf
<1>1. CASE Evict(c)
  <2> DEFINE t == [tasks[c] EXCEPT !.pc = "locate"]
  <2>1. Unspent
    BY <1>1, OtherMishap DEF Evict, Mishaps
  <2>2. Apart(t)
    BY <1>0, Zenon DEF Apart, Task
  <2>3. tasks' \in {Put(tasks, c, t), Delete(tasks, c)} /\ UNCHANGED jobs
    BY <1>1 DEF Evict, Goto, Finish
  <2> HIDE DEF t
  <2> QED
    BY <2>1, <2>2, <2>3, OneTask
<1>2. CASE Locate(c)
  <2> DEFINE t == [tasks[c] EXCEPT !.pc = "place", !.live = GetChunkLocations \ {tasks[c].node}]
  <2>1. Unspent
    BY <1>2, OtherMishap, Zenon DEF Locate
  <2>2. Apart(t)
    BY <1>0, Zenon DEF Apart, Task
  <2>3. tasks' \in {Put(tasks, c, t), Delete(tasks, c)} /\ UNCHANGED jobs
    BY <1>2, Zenon DEF Locate, Goto, Finish
  <2> HIDE DEF t
  <2> QED
    BY <2>1, <2>2, <2>3, OneTask, Zenon
<1>3. CASE Place(c)
  <2>0. UNCHANGED <<jobs, budget>>
    BY <1>3, Zenon DEF Place
  <2>1. Unspent
    BY <2>0, OtherMishap, Zenon
  <2>2. CASE tasks' = Delete(tasks, c)
    BY <2>0, <2>1, <2>2, OneTask, NewApart, SMTT(30)
  <2>3. ASSUME NEW source \in tasks[c].live, NEW targets \in SUBSET (GetLiveNodes \ tasks[c].live),
               Goto(c, [tasks[c] EXCEPT !.pc = "create", !.source = source, !.targets = targets])
        PROVE  NoSelf'
    <3> DEFINE t == [tasks[c] EXCEPT !.pc = "create", !.source = source, !.targets = targets]
    <3>1. t.pc = "create" /\ t.source = source /\ t.targets = targets
      BY <1>0, Zenon DEF Task
    <3>2. tasks' = Put(tasks, c, t) /\ UNCHANGED jobs
      BY <2>0, <2>3 DEF Goto
    <3> HIDE DEF t
    <3>3. Apart(t)
      BY <3>1, SMTT(30) DEF Apart
    <3> QED
      BY <2>1, <3>2, <3>3, OneTask, Zenon
  <2> QED
    BY <1>3, <2>2, <2>3, ZenonT(30) DEF Place, Finish
<1>4. CASE CreateJob(c)
  <2>1. Unspent
    BY <1>4, OtherMishap, ZenonT(30) DEF CreateJob, Mishaps
  <2>2. PICK target \in tasks[c].targets :
          /\ AfterTarget(c, target)
          /\ \/ UNCHANGED jobs
             \/ jobs' = Append(jobs, [source |-> tasks[c].source, target |-> target,
                                      status |-> "pending"])
    BY <1>4, Zenon DEF CreateJob
  <2> DEFINE t == [tasks[c] EXCEPT !.targets = tasks[c].targets \ {target}]
             job == [source |-> tasks[c].source, target |-> target, status |-> "pending"]
  <2>3. t.pc = "create" /\ t.source = tasks[c].source /\ t.targets \subseteq tasks[c].targets
    BY <1>0, <1>4 DEF Task, CreateJob
  <2>4. tasks' \in {Put(tasks, c, t), Delete(tasks, c)}
    BY <2>2, Zenon DEF AfterTarget, Goto, Finish
  <2>5. tasks[c].pc = "create" /\ jobs \in Seq(Job)
    BY <1>4, SMTT(30) DEF CreateJob, IInv, TypeOK
  <2>6. job.source = tasks[c].source /\ job.target = target
    BY Zenon
  <2>7. tasks[c].source \in Nodes /\ target \in Nodes
    <3>1. tasks[c] \in Task /\ Fits(c, tasks[c]) /\ copies \subseteq Nodes
      BY TaskType DEF IInv, TypeOK
    <3> QED
      BY <2>2, <2>5, <3>1 DEF Fits, Task
  <2>8. job \in Job
    BY <2>7, Zenon DEF Job
  <2> HIDE DEF t, job
  <2>9. Apart(t) \/ budget["restart"] # MaxRestarts
    BY <1>0, <2>3, <2>5 DEF Apart
  <2>10. CASE UNCHANGED jobs
    BY <2>1, <2>4, <2>9, <2>10, OneTask
  <2>11. CASE jobs' = Append(jobs, job)
    <3>1. ASSUME budget["restart"] = MaxRestarts, NEW d \in DOMAIN tasks' PROVE Apart(tasks'[d])
      BY <2>4, <2>9, <3>1 DEF NoSelf, Put, Delete
    <3>2. ASSUME budget["restart"] = MaxRestarts, NEW j \in DOMAIN jobs'
          PROVE  jobs'[j].source # jobs'[j].target
      <4>1. (j \in DOMAIN jobs /\ jobs'[j] = jobs[j]) \/ jobs'[j] = job
        BY <2>5, <2>11, <2>8, <3>2, SMTT(30)
      <4> QED
        BY <1>0, <2>2, <2>5, <2>6, <3>2, <4>1 DEF NoSelf, Apart
    <3> QED
      BY <2>1, <3>1, <3>2 DEF NoSelf, Apart, Unspent
  <2> QED
    BY <2>2, <2>10, <2>11, ZenonT(30) DEF job
<1>5. CASE AddChunkReplica(c)
  <2>1. Unspent
    BY <1>5, OtherMishap, Zenon DEF AddChunkReplica, WorkDone, Mishaps
  <2> QED
    BY <1>5, <2>1, NewApart, OneTask DEF AddChunkReplica, Finish
<1>6. CASE Retry(c)
  <2>1. Unspent
    BY <1>6, OtherMishap, Zenon DEF Retry, WorkDone, Mishaps
  <2>2. tasks' \in {Put(tasks, c, NewTask("locate", NoNode)), Delete(tasks, c)} /\ UNCHANGED jobs
    BY <1>6, Zenon DEF Retry, Goto, Finish
  <2> QED
    BY <2>1, <2>2, NewApart, OneTask
<1>7. CASE RecoverJob(c)
  <2>0. UNCHANGED budget \/ Spend("reject")
    BY <1>7, Zenon DEF RecoverJob
  <2>1. Unspent
    BY <2>0, OtherMishap, Zenon DEF Mishaps
  <2>2. tasks[c].pc = "recover"
    BY <1>7, Zenon DEF RecoverJob
  <2>3. budget["restart"] # MaxRestarts
    BY <1>0, <2>2, Zenon DEF Apart
  <2> QED
    BY <2>1, <2>3 DEF NoSelf, Unspent
<1> QED
  BY <1>1, <1>2, <1>3, <1>4, <1>5, <1>6, <1>7, Zenon DEF TaskStep

\* Before the first restart no job copies the chunk to its own source: the
\* targets of scheduleRepairJobs exclude the replicas that the source is from.
THEOREM NoSelfCopyHolds == Spec => []NoSelfCopy
<1>1. ASSUME IInv, NoSelf, [Next]_vars PROVE NoSelf'
  <2>1. CASE UNCHANGED vars
    BY <1>1, <2>1, Zenon DEF vars, fsmVars, leaderVars, NoSelf, Apart
  <2>2. CASE Next
    BY <1>1, <2>2, NoSelfNode, NoSelfTask, NoSelfWorker, NoSelfRestart DEF Next
  <2> QED
    BY <1>1, <2>1, <2>2
<1>2. NoSelf => NoSelfCopy
  BY Zenon DEF NoSelf, NoSelfCopy
<1> QED
  BY <1>1, <1>2, NoSelfInit, IInvHolds, PTL DEF Spec


=============================================================================

------------------------------- MODULE Repair -------------------------------
(***************************************************************************)
(* The re-replication of one committed chunk: the watcher that marks nodes *)
(* dead (src/metadata/watcher), the repair scheduler of the Raft leader    *)
(* (src/metadata/scheduler), the handlers that deliver jobs on heartbeats  *)
(* and take their results (src/metadata/server), and the storage nodes     *)
(* that carry them out (src/storage/service, src/storage/replication).     *)
(*                                                                         *)
(* Every goroutine of the leader that schedules repairs is a task: the     *)
(* watcher, a DeregisterNode or ReportCorruption handler, a report handler *)
(* with its retry timer, the recovery at startup.  A task takes one step   *)
(* per Raft proposal or FSM read, so tasks interleave between them.  The   *)
(* replica list is a set here: its order is not used, and it holds no node *)
(* twice (MetadataFSM!NodesCountedOnce).                                   *)
(***************************************************************************)
EXTENDS Naturals, Sequences, FiniteSets, Functions, ReplicaLists

CONSTANTS
  Nodes,               \* the storage nodes, all registered
  InitialReplicas,     \* the nodes that hold the chunk when it is committed
  NoNode,
  ReplicationFactor,
  Workers,             \* workerCount
  QueueCapacity,       \* repairQueueCapacity of the scheduler
  MaxJobs,             \* bound on the jobs created
  MaxCrashes,          \* bound on storage nodes that crash
  MaxLeaves,           \* bound on nodes that deregister or report corruption
  MaxFalseDeaths,      \* bound on running nodes the watcher takes for dead
  MaxFaults,           \* bound on failed transfers and lost reports
  MaxRejections,       \* bound on proposals that Raft rejects
  MaxRestarts,         \* bound on restarts of the metadata server
  MaxHandovers,        \* bound on changes of the Raft leader
  MaxMishaps           \* bound on all of these together

ASSUME RepairAssumption ==
  /\ InitialReplicas \subseteq Nodes /\ NoNode \notin Nodes
  /\ ReplicationFactor \in Nat \ {0}
  /\ QueueCapacity \in Nat /\ MaxJobs \in Nat
  /\ {MaxCrashes, MaxLeaves, MaxFalseDeaths, MaxFaults, MaxRejections, MaxRestarts, MaxHandovers,
      MaxMishaps} \subseteq Nat

VARIABLES
  status, replicas, jobs,                            \* in the FSM
  tasks, queue, executing, pendingJobs, pendingJobsSet,  \* in the leader
  up, copies, response, work,                        \* on the storage nodes
  budget                                             \* what may still go wrong

leaderVars == <<tasks, queue, executing, pendingJobs, pendingJobsSet>>
fsmVars == <<status, replicas, jobs>>
storageVars == <<up, copies, response, work>>
vars == <<fsmVars, leaderVars, storageVars, budget>>

JobIDs == 1..MaxJobs

\* What starts a task.
Causes ==
  ({"commit", "recover"} \X {NoNode}) \cup ({"watcher", "leave", "corruption"} \X Nodes)
    \cup ({"report"} \X JobIDs)

\* What a task does next, and what it has read so far.
Task ==
  [pc : {"evict", "locate", "place", "create", "add", "retry", "recover"}, node : Nodes \cup {NoNode},
   live : SUBSET Nodes, source : Nodes \cup {NoNode}, targets : SUBSET Nodes,
   stuck : SUBSET JobIDs]

NewTask(pc, node) ==
  [pc |-> pc, node |-> node, live |-> {}, source |-> NoNode, targets |-> {}, stuck |-> {}]

Job == [source : Nodes, target : Nodes, status : {"pending", "in-progress", "done", "failed"}]

\* The mishaps, and how many of each may happen.
Mishaps == {"crash", "leave", "false", "fault", "reject", "restart", "handover", "total"}

Bounds == [kind \in Mishaps |->
  CASE kind = "crash" -> MaxCrashes
    [] kind = "leave" -> MaxLeaves
    [] kind = "false" -> MaxFalseDeaths
    [] kind = "fault" -> MaxFaults
    [] kind = "reject" -> MaxRejections
    [] kind = "restart" -> MaxRestarts
    [] kind = "handover" -> MaxHandovers
    [] kind = "total" -> MaxMishaps]

TypeOK ==
  /\ status \in [Nodes -> {"alive", "dead", "draining"}]
  /\ replicas \subseteq Nodes
  /\ jobs \in Seq(Job) /\ Len(jobs) <= MaxJobs
  /\ IsRegistry(tasks, Causes, Task)
  /\ queue \in Seq(JobIDs) /\ Len(queue) <= QueueCapacity
  /\ executing \subseteq JobIDs
  /\ pendingJobs \in [Nodes -> SUBSET JobIDs]
  /\ IsRegistry(pendingJobsSet, Nodes, JobIDs)
  /\ up \subseteq Nodes /\ copies \subseteq Nodes
  /\ response \in [Nodes -> SUBSET JobIDs]
  /\ DOMAIN work = Nodes
  /\ \A n \in Nodes : IsRegistry(work[n], JobIDs, {"queued", "ok", "failed"})

\* GetChunkLocations: the listed nodes that are not dead.
GetChunkLocations == {n \in replicas : status[n] # "dead"}

GetLiveNodes == {n \in Nodes : status[n] = "alive"}

\* Whether the chunk is among those that GetChunksByNode gives.
GetChunksByNode(n) == n \in replicas

GetJobsByStatus(st) == {j \in DOMAIN jobs : jobs[j].status = st}

UpdateRepairJobStatus(j, st) == jobs' = [jobs EXCEPT ![j].status = st]

proposeEvictChunk(n) == replicas' = replicas \ {n}
proposeAddReplica(n) == replicas' = replicas \cup {n}

Deficit(live) == ReplicationFactor - Cardinality(live)

\* The chunk has just been committed; the CommitChunk handler schedules its
\* repair if too few nodes confirmed it.
Init ==
  /\ status = [n \in Nodes |-> "alive"]
  /\ replicas = InitialReplicas
  /\ jobs = <<>>
  /\ tasks = IF Deficit(InitialReplicas) > 0
                THEN Put(EmptyRegistry, <<"commit", NoNode>>, NewTask("locate", NoNode))
                ELSE EmptyRegistry
  /\ queue = <<>>
  /\ executing = {}
  /\ pendingJobs = [n \in Nodes |-> {}]
  /\ pendingJobsSet = EmptyRegistry
  /\ up = Nodes
  /\ copies = InitialReplicas
  /\ response = [n \in Nodes |-> {}]
  /\ work = [n \in Nodes |-> EmptyRegistry]
  /\ budget = Bounds

Spend(kind) ==
  /\ budget[kind] > 0 /\ budget["total"] > 0
  /\ budget' = [budget EXCEPT ![kind] = @ - 1, !["total"] = @ - 1]

-----------------------------------------------------------------------------
(* What starts a task *)

\* The sweep marks a node dead and calls TriggerRepair, one node after the
\* other; a node it takes for dead has stopped, or its heartbeats are late.
MarkNodeDead(n) ==
  /\ \A c \in DOMAIN tasks : c[1] # "watcher"
  /\ status[n] = "alive"
  /\ IF n \in up THEN Spend("false") ELSE UNCHANGED budget
  /\ status' = [status EXCEPT ![n] = "dead"]
  /\ tasks' = Put(tasks, <<"watcher", n>>, NewTask("evict", n))
  /\ UNCHANGED <<replicas, jobs, queue, executing, pendingJobs, pendingJobsSet, storageVars>>

\* Stop of a storage node, first half: the heartbeats end, DeregisterNode marks
\* the node draining and calls TriggerRepair.
DeregisterNode(n) ==
  /\ n \in up /\ status[n] # "draining"
  /\ Spend("leave")
  /\ status' = [status EXCEPT ![n] = "draining"]
  /\ tasks' = Put(tasks, <<"leave", n>>, NewTask("evict", n))
  /\ UNCHANGED <<replicas, jobs, queue, executing, pendingJobs, pendingJobsSet, storageVars>>

\* ReportCorruption evicts the reporter, which is an error if it is not listed,
\* and calls ScheduleRepairForChunk.
ReportCorruption(n) ==
  /\ n \in up \cap replicas
  /\ Spend("leave")
  /\ replicas' = replicas \ {n}
  /\ tasks' = Put(tasks, <<"corruption", n>>, NewTask("locate", NoNode))
  /\ UNCHANGED <<status, jobs, queue, executing, pendingJobs, pendingJobsSet, storageVars>>

-----------------------------------------------------------------------------
(* The steps of TriggerRepair and scheduleRepairJobs *)

Goto(c, task) == tasks' = Put(tasks, c, task)
Finish(c) == tasks' = Delete(tasks, c)

\* TriggerRepair: GetChunksByNode, and the eviction, which may be rejected.
Evict(c) ==
  LET task == tasks[c]
  IN  /\ task.pc = "evict"
      /\ IF GetChunksByNode(task.node)
           THEN /\ Goto(c, [task EXCEPT !.pc = "locate"])
                /\ \/ proposeEvictChunk(task.node) /\ UNCHANGED budget
                   \/ Spend("reject") /\ UNCHANGED replicas
           ELSE Finish(c) /\ UNCHANGED <<replicas, budget>>
      /\ UNCHANGED <<status, jobs, queue, executing, pendingJobs, pendingJobsSet, storageVars>>

excludeNode(nodes, n) == nodes \ {n}

\* The locations are read; nothing is scheduled without a deficit or a source.
Locate(c) ==
  LET task == tasks[c]
      live == excludeNode(GetChunkLocations, task.node)
  IN  /\ task.pc = "locate"
      /\ IF Deficit(live) > 0 /\ live # {}
           THEN Goto(c, [task EXCEPT !.pc = "place", !.live = live])
           ELSE Finish(c)
      /\ UNCHANGED <<fsmVars, queue, executing, pendingJobs, pendingJobsSet, storageVars, budget>>

\* Broken variant: the current replicas are not excluded.
PlaceAnywhere(c) ==
  LET task == tasks[c]
  IN  /\ task.pc = "place"
      /\ IF Cardinality(GetLiveNodes) < Deficit(task.live)
           THEN Finish(c)
           ELSE \E source \in task.live, targets \in SUBSET GetLiveNodes :
                  /\ Cardinality(targets) = Deficit(task.live)
                  /\ Goto(c, [task EXCEPT !.pc = "create", !.source = source, !.targets = targets])
      /\ UNCHANGED <<fsmVars, queue, executing, pendingJobs, pendingJobsSet, storageVars, budget>>

\* SelectNodes gives as many targets as are missing, or fails; SelectPrimary
\* gives the source.  Which ones depends on free space and load.
Place(c) ==
  LET task == tasks[c]
      candidates == GetLiveNodes \ task.live
  IN  /\ task.pc = "place"
      /\ IF Cardinality(candidates) < Deficit(task.live)
           THEN Finish(c)
           ELSE \E source \in task.live, targets \in SUBSET candidates :
                  /\ Cardinality(targets) = Deficit(task.live)
                  /\ Goto(c, [task EXCEPT !.pc = "create", !.source = source, !.targets = targets])
      /\ UNCHANGED <<fsmVars, queue, executing, pendingJobs, pendingJobsSet, storageVars, budget>>

AfterTarget(c, target) ==
  LET rest == tasks[c].targets \ {target}
  IN  IF rest = {} THEN Finish(c) ELSE Goto(c, [tasks[c] EXCEPT !.targets = rest])

\* One turn of the loop over the targets: a target with a pending job is
\* skipped, else a job is created and queued, or dropped if the queue is full.
CreateJob(c) ==
  /\ tasks[c].pc = "create"
  /\ \E target \in tasks[c].targets :
       /\ AfterTarget(c, target)
       /\ \/ /\ target \in DOMAIN pendingJobsSet
             /\ UNCHANGED <<jobs, queue, budget>>
          \/ /\ target \notin DOMAIN pendingJobsSet
             /\ Spend("reject")
             /\ UNCHANGED <<jobs, queue>>
          \/ /\ target \notin DOMAIN pendingJobsSet
             /\ Len(jobs) < MaxJobs
             /\ jobs' = Append(jobs, [source |-> tasks[c].source, target |-> target,
                                      status |-> "pending"])
             /\ queue' = IF Len(queue) < QueueCapacity
                           THEN Append(queue, Len(jobs) + 1) ELSE queue
             /\ UNCHANGED budget
  /\ UNCHANGED <<status, replicas, executing, pendingJobs, pendingJobsSet, storageVars>>

-----------------------------------------------------------------------------
(* The scheduler's workers, and the delivery of jobs on heartbeats *)

appendUnique(n, j) == pendingJobs' = [pendingJobs EXCEPT ![n] = @ \cup {j}]

\* executeJob, under the mutex.
ExecuteJob ==
  /\ queue # <<>>
  /\ Cardinality(executing) < Workers
  /\ LET j == Head(queue)
     IN  /\ appendUnique(jobs[j].source, j)
         /\ pendingJobsSet' = Put(pendingJobsSet, jobs[j].target, j)
         /\ executing' = executing \cup {j}
  /\ queue' = Tail(queue)
  /\ UNCHANGED <<fsmVars, tasks, storageVars, budget>>

\* executeJob, after the mutex: the job is marked in progress, unless Raft
\* rejects it.
MarkInProgress(j) ==
  /\ j \in executing
  /\ \/ UpdateRepairJobStatus(j, "in-progress") /\ UNCHANGED budget
     \/ Spend("reject") /\ UNCHANGED jobs
  /\ executing' = executing \ {j}
  /\ UNCHANGED <<status, replicas, tasks, queue, pendingJobs, pendingJobsSet, storageVars>>

GetPendingJobsForNode(n) == pendingJobs[n]

\* Heartbeat answers with the node's pending jobs, whether it is dead or not.
\* (One that carries none changes nothing here.)
Heartbeat(n) ==
  /\ n \in up /\ status[n] # "draining"
  /\ response[n] = {}
  /\ GetPendingJobsForNode(n) # {}
  /\ response' = [response EXCEPT ![n] = GetPendingJobsForNode(n)]
  /\ UNCHANGED <<fsmVars, leaderVars, up, copies, work, budget>>

\* The targets of the jobs that the node is working on.
Inflight(n) == {jobs[j].target : j \in DOMAIN work[n]}

Queued(n) == {j \in DOMAIN work[n] : work[n][j] = "queued"}

\* processHeartbeatResponse and EnqueueRepair, for one job of the answer.  One
\* chunk does not fill the node's queue of 256 jobs.
EnqueueRepair(n) ==
  /\ \E j \in response[n] :
       /\ response' = [response EXCEPT ![n] = @ \ {j}]
       /\ work' = IF jobs[j].target \in Inflight(n)
                     THEN work
                     ELSE [work EXCEPT ![n] = Put(@, j, "queued")]
  /\ UNCHANGED <<fsmVars, leaderVars, up, copies, budget>>

\* Broken variant: the worker does not look at the error.
RunRepairUnchecked(n) ==
  /\ \E j \in Queued(n) :
       LET target == jobs[j].target
       IN  /\ copies' = IF n \in copies /\ target \in up THEN copies \cup {target} ELSE copies
           /\ work' = [work EXCEPT ![n][j] = "ok"]
  /\ UNCHANGED <<fsmVars, leaderVars, up, response, budget>>

\* A storage worker sends the chunk to the target, retries included.  A
\* transfer may fail before or after the target has stored the chunk.
RunRepair(n) ==
  /\ \E j \in Queued(n) :
       LET target == jobs[j].target
           possible == n \in copies /\ target \in up
       IN  \/ /\ possible
              /\ copies' = copies \cup {target}
              /\ work' = [work EXCEPT ![n][j] = "ok"]
              /\ UNCHANGED budget
           \/ /\ ~possible
              /\ work' = [work EXCEPT ![n][j] = "failed"]
              /\ UNCHANGED <<copies, budget>>
           \/ /\ possible
              /\ Spend("fault")
              /\ copies' \in {copies, copies \cup {target}}
              /\ work' = [work EXCEPT ![n][j] = "failed"]
  /\ UNCHANGED <<fsmVars, leaderVars, up, response>>

-----------------------------------------------------------------------------
(* The report of a repair *)

Reports(n) == {j \in DOMAIN work[n] : work[n][j] # "queued"}

removeJob(n, j) == pendingJobs' = [pendingJobs EXCEPT ![n] = @ \ {j}]

\* Broken variant: the job counts as done whatever its status.
ReportResultIgnored(n) ==
  \E j \in Reports(n) :
    /\ <<"report", j>> \notin DOMAIN tasks
    /\ UpdateRepairJobStatus(j, "done")
    /\ removeJob(n, j)
    /\ tasks' = Put(tasks, <<"report", j>>, NewTask("add", n))
    /\ UNCHANGED <<status, replicas, queue, executing, pendingJobsSet, storageVars, budget>>

\* ReportRepairResult sets the job's status; OnJobComplete then forgets the
\* job, if the reporter has pending jobs at all.
ReportRepairResult(n) ==
  \E j \in Reports(n) :
    LET ok == work[n][j] = "ok"
    IN  /\ <<"report", j>> \notin DOMAIN tasks
        /\ UpdateRepairJobStatus(j, IF ok THEN "done" ELSE "failed")
        /\ removeJob(n, j)
        /\ pendingJobsSet' =
             IF pendingJobs[n] = {} THEN pendingJobsSet
             ELSE Restrict(pendingJobsSet,
                           {t \in DOMAIN pendingJobsSet : pendingJobsSet[t] # j})
        /\ tasks' = Put(tasks, <<"report", j>>, NewTask(IF ok THEN "add" ELSE "retry", n))
        /\ UNCHANGED <<status, replicas, queue, executing, storageVars, budget>>

\* The report has been handled: the worker is done with the job, unless the
\* reply is lost and LeaderAwareClient sends the report again.
WorkDone(n, j) ==
  \/ work' = [work EXCEPT ![n] = Delete(@, j)] /\ UNCHANGED budget
  \/ Spend("fault") /\ UNCHANGED work

\* Broken variant: the source is listed instead of the target.
AddReplicaSource(c) ==
  LET j == c[2]
  IN  /\ tasks[c].pc = "add"
      /\ replicas' = replicas \cup {jobs[j].source}
      /\ WorkDone(tasks[c].node, j)
      /\ Finish(c)
      /\ UNCHANGED <<status, jobs, queue, executing, pendingJobs, pendingJobsSet,
                     up, copies, response>>

\* OnJobComplete, success: the target is listed, unless Raft rejects it, which
\* is an error that is not retried.
AddChunkReplica(c) ==
  LET j == c[2]
  IN  /\ tasks[c].pc = "add"
      /\ \/ /\ proposeAddReplica(jobs[j].target)
            /\ WorkDone(tasks[c].node, j)
         \/ /\ Spend("reject")
            /\ work' = [work EXCEPT ![tasks[c].node] = Delete(@, j)]
            /\ UNCHANGED replicas
      /\ Finish(c)
      /\ UNCHANGED <<status, jobs, queue, executing, pendingJobs, pendingJobsSet,
                     up, copies, response>>

\* OnJobComplete, failure: a timer reschedules the chunk, if it needs repair.
Retry(c) ==
  /\ tasks[c].pc = "retry"
  /\ IF Deficit(GetChunkLocations) > 0 THEN Goto(c, NewTask("locate", NoNode)) ELSE Finish(c)
  /\ WorkDone(tasks[c].node, c[2])
  /\ UNCHANGED <<fsmVars, queue, executing, pendingJobs, pendingJobsSet,
                 up, copies, response>>

\* The report does not reach the leader; the worker only logs it.
LoseReport(n) ==
  /\ Spend("fault")
  /\ \E j \in Reports(n) :
       /\ <<"report", j>> \notin DOMAIN tasks
       /\ work' = [work EXCEPT ![n] = Delete(@, j)]
  /\ UNCHANGED <<fsmVars, leaderVars, up, copies, response>>

-----------------------------------------------------------------------------
(* Crashes *)

\* A storage node stops for good, by a crash or after it deregistered; its disk
\* is not used again.
Crash(n) ==
  /\ n \in up
  /\ IF status[n] = "draining" THEN UNCHANGED budget ELSE Spend("crash")
  /\ up' = up \ {n}
  /\ response' = [response EXCEPT ![n] = {}]
  /\ work' = [work EXCEPT ![n] = EmptyRegistry]
  /\ UNCHANGED <<fsmVars, leaderVars, copies>>

\* NewRepairScheduler: no job is queued, being executed or pending.
NewRepairScheduler ==
  /\ queue' = <<>>
  /\ executing' = {}
  /\ pendingJobs' = [n \in Nodes |-> {}]
  /\ pendingJobsSet' = EmptyRegistry

\* The metadata server restarts: the FSM is replayed, and the scheduler starts
\* empty, with RecoverStuckJobs on the jobs that were in progress.
MetadataRestart ==
  /\ Spend("restart")
  /\ tasks' = Put(EmptyRegistry, <<"recover", NoNode>>,
                 [NewTask("recover", NoNode) EXCEPT !.stuck =
                    GetJobsByStatus("in-progress")])
  /\ NewRepairScheduler
  /\ UNCHANGED <<fsmVars, storageVars>>

\* Raft elects another server, which has not led before: its scheduler knows no
\* job, RecoverStuckJobs ran when the process started, and what the goroutines
\* of the old leader still propose is rejected.
LeaderChange ==
  /\ Spend("handover")
  /\ tasks' = EmptyRegistry
  /\ NewRepairScheduler
  /\ UNCHANGED <<fsmVars, storageVars>>

\* Broken variant: any live node is taken for the new source.
RecoverJobAnySource(c) ==
  /\ tasks[c].pc = "recover"
  /\ \E j \in tasks[c].stuck, source \in GetLiveNodes :
       /\ Goto(c, [tasks[c] EXCEPT !.stuck = @ \ {j}])
       /\ GetChunkLocations # {} /\ Deficit(GetChunkLocations) > 0
       /\ Len(queue) < QueueCapacity
       /\ queue' = Append(queue, j)
       /\ jobs' = [jobs EXCEPT ![j] = [@ EXCEPT !.source = source, !.status = "pending"]]
  /\ UNCHANGED <<status, replicas, executing, pendingJobs, pendingJobsSet, storageVars, budget>>

\* Broken variant: a chunk without a live replica is not skipped, and
\* SelectPrimary gives the empty node.
RecoverJobNoSource(c) ==
  /\ tasks[c].pc = "recover"
  /\ \E j \in tasks[c].stuck :
       /\ Goto(c, [tasks[c] EXCEPT !.stuck = @ \ {j}])
       /\ Deficit(GetChunkLocations) > 0
       /\ Len(queue) < QueueCapacity
       /\ queue' = Append(queue, j)
       /\ \E source \in (IF GetChunkLocations = {} THEN {NoNode} ELSE GetChunkLocations) :
            jobs' = [jobs EXCEPT ![j] = [@ EXCEPT !.source = source, !.status = "pending"]]
  /\ UNCHANGED <<status, replicas, executing, pendingJobs, pendingJobsSet, storageVars, budget>>

\* RecoverStuckJobs waits for room in the queue.
enqueueJob(j) == Len(queue) < QueueCapacity /\ queue' = Append(queue, j)

\* One turn of RecoverStuckJobs: a job whose chunk needs repair and has a live
\* replica is queued again, with a new source unless its own is live.
RecoverJob(c) ==
  /\ tasks[c].pc = "recover"
  /\ \E j \in tasks[c].stuck :
       /\ Goto(c, [tasks[c] EXCEPT !.stuck = @ \ {j}])
       /\ \/ /\ GetChunkLocations = {} \/ Deficit(GetChunkLocations) <= 0
             /\ UNCHANGED <<jobs, queue, budget>>
          \/ /\ GetChunkLocations # {} /\ Deficit(GetChunkLocations) > 0
             /\ enqueueJob(j)
             /\ IF jobs[j].source \in GetChunkLocations
                  THEN UNCHANGED jobs
                  ELSE \E source \in GetChunkLocations :
                         jobs' = [jobs EXCEPT ![j] =
                           [@ EXCEPT !.source = source, !.status = "pending"]]
             /\ UNCHANGED budget
          \/ /\ GetChunkLocations # {} /\ Deficit(GetChunkLocations) > 0
             /\ jobs[j].source \notin GetChunkLocations
             /\ Spend("reject")
             /\ UNCHANGED <<jobs, queue>>
  /\ UNCHANGED <<status, replicas, executing, pendingJobs, pendingJobsSet, storageVars>>

TaskStep(c) ==
  \/ Evict(c) \/ Locate(c) \/ Place(c) \/ CreateJob(c)
  \/ AddChunkReplica(c) \/ Retry(c) \/ RecoverJob(c)

Next ==
  \/ \E n \in Nodes :
       \/ MarkNodeDead(n) \/ DeregisterNode(n) \/ ReportCorruption(n)
       \/ Heartbeat(n) \/ EnqueueRepair(n) \/ RunRepair(n)
       \/ ReportRepairResult(n) \/ LoseReport(n) \/ Crash(n)
  \/ \E c \in DOMAIN tasks : TaskStep(c)
  \/ ExecuteJob
  \/ \E j \in JobIDs : MarkInProgress(j)
  \/ MetadataRestart
  \/ LeaderChange

Spec == Init /\ [][Next]_vars

\* Goroutines run, storage nodes keep sending heartbeats and working on their
\* jobs, and the sweep comes back to a node whose heartbeats have stopped.
Fairness ==
  /\ \A n \in Nodes :
       /\ WF_vars(n \notin up /\ MarkNodeDead(n))
       /\ WF_vars(Heartbeat(n))
       /\ WF_vars(EnqueueRepair(n))
       /\ WF_vars(RunRepair(n))
       /\ WF_vars(ReportRepairResult(n))
  /\ \A c \in Causes : WF_vars(c \in DOMAIN tasks /\ TaskStep(c))
  /\ WF_vars(ExecuteJob)
  /\ \A j \in JobIDs : WF_vars(MarkInProgress(j))

FairSpec == Spec /\ Fairness

-----------------------------------------------------------------------------
(* Properties *)

\* A node is listed as a replica only once it has stored the chunk: OnJobComplete
\* adds the target after the copy, whatever was lost, repeated or restarted.
ListedReplicasHold == replicas \subseteq copies

\* A job reads from a node that has the chunk, also after RecoverStuckJobs has
\* changed its source.
SourcesHold == \A j \in DOMAIN jobs : jobs[j].source \in copies

\* As long as the server has not restarted, a job copies the chunk to another
\* node than its source.  (RecoverStuckJobs may choose the target as source.)
NoSelfCopy ==
  budget["restart"] = MaxRestarts => \A j \in DOMAIN jobs : jobs[j].source # jobs[j].target

\* The repair restores the replication factor, for good: enough of the listed
\* nodes are running and have the chunk.
EventuallyReplicated == <>[](Deficit(replicas \cap up \cap copies) <= 0)

CR == INSTANCE ChunkReplicas WITH listed <- replicas, holding <- copies

\* Listing and copying, as the rest of the system relies on them: a node is
\* listed while it has the chunk, one at a time, and no copy disappears.
ImplementsChunkReplicas == CR!Spec

=============================================================================

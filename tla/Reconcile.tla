----------------------------- MODULE Reconcile -----------------------------
(***************************************************************************)
(* What happens to the replicas of one chunk when storage nodes stop and   *)
(* start: registration and deregistration (src/metadata/server/            *)
(* node_handlers.go, src/storage/service/register.go), the delayed         *)
(* comparison of the reported inventory with the replica list (src/        *)
(* metadata/reconcile/reconciler.go), and the DeleteChunk and eviction it  *)
(* leads to, interleaved with the upload, the watcher, TriggerRepair's     *)
(* evictions and the repairs that change the same list.                    *)
(*                                                                         *)
(* A repair is what module Repair implements: a copy from a listed holder  *)
(* (ChunkReplicas!Copy), later the listing of the target.                  *)
(***************************************************************************)
EXTENDS Naturals, FiniteSets, ReplicaLists

CONSTANTS
  Nodes,
  Uploaded, Primary,   \* the nodes that CreateFile places the chunk on
  Starts,              \* how to start: settled, or as a new cluster, or both
  ReplicationFactor,
  NoTimer,
  MaxTimers,           \* bound on the registrations
  MaxCrashes,          \* bound on the crashes
  MaxStops,            \* bound on the graceful shutdowns
  MaxFalseDeaths,      \* bound on running nodes the watcher takes for dead
  MaxRepairs,          \* bound on the repairs
  MaxRpcFailures,      \* bound on evictions and DeleteChunk calls that fail
  MaxMishaps           \* bound on the last five together

ASSUME ReconcileAssumption ==
  /\ IsFiniteSet(Nodes) /\ Uploaded \subseteq Nodes /\ Primary \in Uploaded
  /\ Starts \subseteq BOOLEAN
  /\ ReplicationFactor \in Nat \ {0}
  /\ NoTimer \notin 1..MaxTimers
  /\ {MaxTimers, MaxCrashes, MaxStops, MaxFalseDeaths, MaxRepairs, MaxRpcFailures,
      MaxMishaps} \subseteq Nat

VARIABLES
  up,         \* the nodes that run
  status,     \* node -> "unknown", "alive", "dead" or "draining" in the FSM
  copies,     \* the nodes that have the chunk on disk
  replicas,   \* the replica list in the FSM
  confirmed,  \* the nodes that have confirmed the upload
  committed,  \* CommitChunk has been applied
  stopping,   \* the nodes within Stop
  leaving,    \* the nodes whose DeregisterNode call is on its way
  evicting,   \* TriggerRepair calls that have not evicted: <<caller, node>>
  overtaken,  \* history: nodes evicted after they had registered again
  register,   \* node -> the inventories sent and not yet handled
  timers,     \* Reconciler.timers: node -> timer
  armed,      \* the timers that will fire: timer -> its node and inventory
  callbacks,  \* the callbacks that run: timer -> where they are
  repairs,    \* targets of repairs that were copied and not yet listed
  lastTimer,
  settled,    \* the start
  budget      \* what may still go wrong

upload == <<confirmed, committed>>
departure == <<stopping, leaving, evicting, overtaken>>
vars == <<up, status, copies, replicas, upload, departure, register, timers, armed, callbacks, repairs,
          lastTimer, settled, budget>>

Callers == {"watcher", "leave"}
Timers == 1..MaxTimers
Armed == [node : Nodes, reported : BOOLEAN]
Callback == [node : Nodes, reported : BOOLEAN,
             pc : {"compare", "evict stale", "delete", "evict missing", "done"}]

\* The mishaps, and how many of each may happen.
Mishaps == {"crash", "stop", "false", "repair", "rpc", "total"}

Bounds == [kind \in Mishaps |->
  CASE kind = "crash" -> MaxCrashes
    [] kind = "stop" -> MaxStops
    [] kind = "false" -> MaxFalseDeaths
    [] kind = "repair" -> MaxRepairs
    [] kind = "rpc" -> MaxRpcFailures
    [] kind = "total" -> MaxMishaps]

TypeOK ==
  /\ up \subseteq Nodes /\ copies \subseteq Nodes /\ replicas \subseteq Nodes
  /\ repairs \subseteq Nodes /\ confirmed \subseteq Uploaded /\ committed \in BOOLEAN
  /\ status \in [Nodes -> {"unknown", "alive", "dead", "draining"}]
  /\ stopping \subseteq Nodes /\ leaving \subseteq Nodes /\ overtaken \subseteq Nodes
  /\ evicting \subseteq Callers \X Nodes
  /\ register \in [Nodes -> SUBSET BOOLEAN]
  /\ timers \in [Nodes -> Timers \cup {NoTimer}]
  /\ IsRegistry(armed, Timers, Armed)
  /\ IsRegistry(callbacks, Timers, Callback)

\* A settled start: the nodes run, the chunk is committed and the registrations are
\* long reconciled.  Otherwise the nodes of a new cluster are about to start.
Init ==
  /\ settled \in Starts
  /\ committed = settled
  /\ up = IF settled THEN Nodes ELSE {}
  /\ copies = IF settled THEN Uploaded ELSE {}
  /\ replicas = copies /\ confirmed = copies
  /\ status = [n \in Nodes |-> IF settled THEN "alive" ELSE "unknown"]
  /\ repairs = {}
  /\ stopping = {} /\ leaving = {} /\ evicting = {} /\ overtaken = {}
  /\ register = [n \in Nodes |-> {}]
  /\ timers = [n \in Nodes |-> NoTimer]
  /\ armed = EmptyRegistry
  /\ callbacks = EmptyRegistry
  /\ lastTimer = 0
  /\ budget = Bounds

Spend(kind) ==
  /\ budget[kind] > 0 /\ budget["total"] > 0
  /\ budget' = [budget EXCEPT ![kind] = @ - 1, !["total"] = @ - 1]

GetChunkLocations == {n \in replicas : status[n] \notin {"unknown", "dead"}}

-----------------------------------------------------------------------------
(* Storage nodes *)

\* Start: the node scans its disk and sends its inventory to the leader.
StartNode(n) ==
  /\ n \notin up
  /\ lastTimer < MaxTimers
  /\ up' = up \cup {n}
  /\ register' = [register EXCEPT ![n] = @ \cup (IF n \in copies THEN {TRUE} ELSE {FALSE})]
  /\ UNCHANGED <<status, copies, replicas, upload, departure, timers, armed, callbacks, repairs,
                 lastTimer, settled, budget>>

\* The disk survives a crash, and a registration already sent may still arrive.
\* A PutChunk handler that has not committed is gone.
Crash(n) ==
  /\ n \in up
  /\ Spend("crash")
  /\ up' = up \ {n} /\ stopping' = stopping \ {n}
  /\ confirmed' = IF n = Primary /\ ~committed THEN {} ELSE confirmed
  /\ UNCHANGED <<status, copies, replicas, committed, leaving, evicting, overtaken, register,
                 timers, armed, callbacks, repairs, lastTimer, settled>>

\* Stop: the heartbeats end, and DeregisterFromMetadata is called.
Stop(n) ==
  /\ n \in up \ stopping
  /\ Spend("stop")
  /\ stopping' = stopping \cup {n} /\ leaving' = leaving \cup {n}
  /\ UNCHANGED <<up, status, copies, replicas, upload, evicting, overtaken, register, timers,
                 armed, callbacks, repairs, lastTimer, settled>>

\* No reply: the leader-aware client calls again, or the call is lost.
DeregisterAgain(n) ==
  /\ \/ n \in stopping /\ leaving' = leaving \cup {n}
     \/ leaving' = leaving \ {n}
  /\ UNCHANGED <<up, status, copies, replicas, upload, stopping, evicting, overtaken, register,
                 timers, armed, callbacks, repairs, lastTimer, settled, budget>>

\* The call has returned, or its 10 seconds are over and its error is logged: the
\* server stops when the handlers that run, such as PutChunk, are done.
StopServer(n) ==
  /\ n \in stopping
  /\ n = Primary /\ n \in confirmed => committed
  /\ up' = up \ {n} /\ stopping' = stopping \ {n}
  /\ UNCHANGED <<status, copies, replicas, upload, leaving, evicting, overtaken, register,
                 timers, armed, callbacks, repairs, lastTimer, settled, budget>>

\* The upload: the primary stores the chunk, then its replicas do.  One that
\* fails after it has stored the chunk is not confirmed.
StoreUpload(n) ==
  /\ ~committed
  /\ n \in (up \cap Uploaded) \ confirmed
  /\ status[n] # "unknown"
  /\ n = Primary \/ Primary \in confirmed
  /\ copies' = copies \cup {n}
  /\ confirmed' \in {confirmed, confirmed \cup {n}}
  /\ UNCHANGED <<up, status, replicas, committed, departure, register, timers, armed, callbacks, repairs,
                 lastTimer, settled, budget>>

\* The primary commits the chunk with the nodes that confirmed it.
CommitChunk ==
  /\ ~committed /\ Primary \in confirmed
  /\ committed' = TRUE
  /\ replicas' = confirmed
  /\ UNCHANGED <<up, status, copies, confirmed, departure, register, timers, armed, callbacks, repairs,
                 lastTimer, settled, budget>>

-----------------------------------------------------------------------------
(* The leader *)

\* RegisterNode makes a node alive and calls Schedule, which replaces the
\* node's timer: Stop has no effect on one that has fired.
RegisterNode(n) ==
  /\ lastTimer < MaxTimers
  /\ \E reported \in register[n] :
       /\ register' = [register EXCEPT ![n] = @ \ {reported}]
       /\ armed' = Put(Delete(armed, timers[n]), lastTimer + 1,
                       [node |-> n, reported |-> reported])
  /\ status' = [status EXCEPT ![n] = "alive"]
  /\ timers' = [timers EXCEPT ![n] = lastTimer + 1]
  /\ lastTimer' = lastTimer + 1
  /\ overtaken' = overtaken \ {n}
  /\ UNCHANGED <<up, copies, replicas, upload, stopping, leaving, evicting, callbacks, repairs,
                 settled, budget>>

\* DeregisterNode makes a known node draining and calls TriggerRepair.
DeregisterNode(n) ==
  /\ n \in leaving
  /\ leaving' = leaving \ {n}
  /\ IF status[n] = "unknown"
       THEN UNCHANGED <<status, evicting>>
       ELSE /\ status' = [status EXCEPT ![n] = "draining"]
            /\ evicting' = evicting \cup {<<"leave", n>>}
  /\ UNCHANGED <<up, copies, replicas, upload, stopping, overtaken, register, timers, armed,
                 callbacks, repairs, lastTimer, settled, budget>>

\* A sweep of the watcher handles one node after the other.
Sweeping == \E n \in Nodes : <<"watcher", n>> \in evicting

\* Broken variant: the node is only suspected.
MarkNodeSuspect(n) ==
  /\ status[n] = "alive" /\ ~Sweeping
  /\ IF n \in up \ stopping THEN Spend("false") ELSE UNCHANGED budget
  /\ status' = [status EXCEPT ![n] = "suspect"]
  /\ evicting' = evicting \cup {<<"watcher", n>>}
  /\ UNCHANGED <<up, copies, replicas, upload, stopping, leaving, overtaken, register, timers,
                 armed, callbacks, repairs, lastTimer, settled>>

\* The watcher marks a silent node dead and calls TriggerRepair.
MarkNodeDead(n) ==
  /\ status[n] = "alive" /\ ~Sweeping
  /\ IF n \in up \ stopping THEN Spend("false") ELSE UNCHANGED budget
  /\ status' = [status EXCEPT ![n] = "dead"]
  /\ evicting' = evicting \cup {<<"watcher", n>>}
  /\ UNCHANGED <<up, copies, replicas, upload, stopping, leaving, overtaken, register, timers,
                 armed, callbacks, repairs, lastTimer, settled>>

\* TriggerRepair evicts the node, which may have registered again since, and
\* schedules repairs (RepairCopy).  A rejected proposal is logged.
TriggerRepair(caller, n) ==
  /\ <<caller, n>> \in evicting
  /\ evicting' = evicting \ {<<caller, n>>}
  /\ \/ /\ replicas' = replicas \ {n}
        /\ overtaken' = IF n \in replicas /\ status[n] = "alive" THEN overtaken \cup {n} ELSE overtaken
        /\ UNCHANGED budget
     \/ Spend("rpc") /\ UNCHANGED <<replicas, overtaken>>
  /\ UNCHANGED <<up, status, copies, upload, stopping, leaving, register, timers, armed,
                 callbacks, repairs, lastTimer, settled>>

\* A listed, running holder copies the chunk to a live node without a replica.
RepairCopy(n) ==
  /\ committed
  /\ Cardinality(GetChunkLocations) < ReplicationFactor
  /\ GetChunkLocations \cap up \cap copies # {}
  /\ status[n] = "alive" /\ n \in up \ replicas
  /\ Spend("repair")
  /\ copies' = copies \cup {n}
  /\ repairs' = repairs \cup {n}
  /\ UNCHANGED <<up, status, replicas, upload, departure, register, timers, armed, callbacks,
                 lastTimer, settled>>

\* The source reports the repair and the target is listed.
RepairListed(n) ==
  /\ n \in repairs
  /\ repairs' = repairs \ {n}
  /\ replicas' = replicas \cup {n}
  /\ UNCHANGED <<up, status, copies, upload, departure, register, timers, armed, callbacks,
                 lastTimer, settled, budget>>

-----------------------------------------------------------------------------
(* The reconciler *)

\* The delay is over.
Fire(t) ==
  /\ t \in DOMAIN armed
  /\ armed' = Delete(armed, t)
  /\ callbacks' = Put(callbacks, t,
       [node |-> armed[t].node, reported |-> armed[t].reported, pc |-> "compare"])
  /\ UNCHANGED <<up, status, copies, replicas, upload, departure, register, timers, repairs,
                 lastTimer, settled, budget>>

Step(t, pc) == callbacks' = [callbacks EXCEPT ![t].pc = pc]

\* Broken variant: what the FSM expects is not looked at.
CompareReported(t) ==
  LET cb == callbacks[t]
  IN  /\ cb.pc = "compare"
      /\ Step(t, IF cb.reported THEN "delete" ELSE "done")
      /\ UNCHANGED <<up, status, copies, replicas, upload, departure, register, timers, armed, repairs,
                     lastTimer, settled, budget>>

\* Broken variant: stale and missing are taken for each other.
CompareSwapped(t) ==
  LET cb == callbacks[t]
      expected == cb.node \in replicas
  IN  /\ cb.pc = "compare"
      /\ Step(t, CASE cb.reported /\ ~expected -> "evict missing"
                   [] ~cb.reported /\ expected -> "evict stale"
                   [] OTHER -> "done")
      /\ UNCHANGED <<up, status, copies, replicas, upload, departure, register, timers, armed, repairs,
                     lastTimer, settled, budget>>

\* ReconcileNode reads what the FSM expects and finds the chunk stale,
\* missing or in order.
Compare(t) ==
  LET cb == callbacks[t]
      expected == cb.node \in replicas
  IN  /\ cb.pc = "compare"
      /\ Step(t, CASE cb.reported /\ ~expected -> "evict stale"
                   [] ~cb.reported /\ expected -> "evict missing"
                   [] OTHER -> "done")
      /\ UNCHANGED <<up, status, copies, replicas, upload, departure, register, timers, armed, repairs,
                     lastTimer, settled, budget>>

\* The eviction by evictStaleReplica, or by handleMissingReplica, which then
\* schedules a repair if too few replicas are left: RepairCopy is enabled then.
\* A rejected proposal is logged.
ReconcileEvict(t) ==
  LET cb == callbacks[t]
  IN  /\ cb.pc \in {"evict stale", "evict missing"}
      /\ \/ replicas' = replicas \ {cb.node} /\ UNCHANGED budget
         \/ Spend("rpc") /\ UNCHANGED replicas
      /\ Step(t, IF cb.pc = "evict stale" THEN "delete" ELSE "done")
      /\ UNCHANGED <<up, status, copies, upload, departure, register, timers, armed, repairs,
                     lastTimer, settled>>

\* Broken variant: the DeleteChunk call is left out.
DeleteChunkSkipped(t) ==
  /\ callbacks[t].pc = "delete"
  /\ Step(t, "done")
  /\ UNCHANGED <<up, status, copies, replicas, upload, departure, register, timers, armed, repairs,
                 lastTimer, settled, budget>>

\* The DeleteChunk call; its failure is logged.
DeleteChunk(t) ==
  LET n == callbacks[t].node
  IN  /\ callbacks[t].pc = "delete"
      /\ Step(t, "done")
      /\ \/ n \in up /\ copies' = copies \ {n} /\ UNCHANGED budget
         \/ n \notin up /\ UNCHANGED <<copies, budget>>
         \/ Spend("rpc") /\ UNCHANGED copies
      /\ UNCHANGED <<up, status, replicas, upload, departure, register, timers, armed, repairs,
                     lastTimer, settled>>

\* The callback ends: it deletes the node's entry, whichever timer that is.
CallbackDone(t) ==
  /\ callbacks[t].pc = "done"
  /\ timers' = [timers EXCEPT ![callbacks[t].node] = NoTimer]
  /\ callbacks' = Delete(callbacks, t)
  /\ UNCHANGED <<up, status, copies, replicas, upload, departure, register, armed, repairs,
                 lastTimer, settled, budget>>

CallbackStep(t) ==
  \/ Compare(t) \/ ReconcileEvict(t) \/ DeleteChunk(t) \/ CallbackDone(t)

\* The process of a storage node.
NodeStep(n) ==
  \/ StartNode(n) \/ Crash(n) \/ StoreUpload(n)
  \/ Stop(n) \/ DeregisterAgain(n) \/ StopServer(n)

\* The leader's handlers, watcher and repairs.
LeaderStep(n) ==
  \/ RegisterNode(n) \/ DeregisterNode(n) \/ MarkNodeDead(n)
  \/ \E caller \in Callers : TriggerRepair(caller, n)
  \/ RepairCopy(n) \/ RepairListed(n)

Next ==
  \/ \E n \in Nodes : NodeStep(n) \/ LeaderStep(n)
  \/ CommitChunk
  \/ \E t \in Timers : Fire(t)
  \/ \E t \in DOMAIN callbacks : CallbackStep(t)

Spec == Init /\ [][Next]_vars

-----------------------------------------------------------------------------
(* Properties *)

\* Every registration and departure is handled, every repair is reported, and the
\* metadata server knows which nodes run.
Quiet ==
  /\ \A n \in Nodes : register[n] = {} /\ (status[n] = "alive" <=> n \in up)
  /\ stopping = {} /\ leaving = {} /\ evicting = {}
  /\ DOMAIN armed = {} /\ DOMAIN callbacks = {} /\ repairs = {}

\* Nothing but restarts disturbed the chunk: it was committed before they began,
\* no repair ran meanwhile and no eviction or DeleteChunk call failed.
OnlyRestarts == settled /\ budget["repair"] = MaxRepairs /\ budget["rpc"] = MaxRpcFailures

\* "Nodes conform to it": once all is quiet, a running node has the chunk exactly if
\* the FSM lists it, however crashes, shutdowns, false alarms, registrations and
\* timers of the reconciler interleaved.  The exception is a node that registers
\* between the command that takes it for gone and TriggerRepair's eviction: it may
\* be compared before it is evicted, and keeps a copy that is not listed.
NodesConform ==
  OnlyRestarts /\ Quiet =>
    /\ \A n \in up : n \in replicas => n \in copies
    /\ \A n \in up \ overtaken : n \in copies => n \in replicas

\* Meanwhile, a listed node has the chunk: the reconciler deletes no copy that
\* the FSM lists.
ListedReplicasHold == OnlyRestarts => replicas \subseteq copies

\* The crashes and shutdowns so far.
Departures == (MaxCrashes - budget["crash"]) + (MaxStops - budget["stop"])

\* A committed chunk is on some disk as long as fewer nodes have crashed or shut
\* down than confirmed it: only a node that comes back with the chunk can lose it
\* to the reconciler, whatever the watcher, late evictions, repairs and failed calls
\* add to that.  No more is true: a departure evicts the node from the list, and
\* its copy, deleted when it is back, may be the last.
ChunkSurvives == committed /\ Cardinality(confirmed) > Departures => copies # {}

=============================================================================

-------------------------- MODULE Reconcile_proofs --------------------------
(***************************************************************************)
(* The reconciler never deletes a listed copy and leaves no unlisted one   *)
(* but those of late evictions, for any nodes and any number of restarts,  *)
(* registrations and timers, and it deletes only copies of nodes that have *)
(* crashed or shut down.                                                   *)
(***************************************************************************)
EXTENDS Reconcile, FiniteSetTheorems, TLAPS

\* Timers are numbered as they are made, a timer is armed or fired and not
\* both, and the entry of a node is a timer of that node.
TimersApart ==
  /\ lastTimer \in 0..MaxTimers
  /\ DOMAIN armed \subseteq 1..lastTimer /\ DOMAIN callbacks \subseteq 1..lastTimer
  /\ DOMAIN armed \cap DOMAIN callbacks = {}
  /\ \A n \in Nodes : /\ timers[n] \in (1..lastTimer) \cup {NoTimer}
                      /\ timers[n] \in DOMAIN armed => armed[timers[n]].node = n

\* What was spent stays spent.
Budgeted ==
  /\ budget \in [Mishaps -> Nat]
  /\ budget["repair"] <= MaxRepairs /\ budget["rpc"] <= MaxRpcFailures

\* The types, with what they rest on.
TInv == TypeOK /\ TimersApart /\ Budgeted

\* A copy that is not listed will be looked at: node n reports it, or its timer
\* runs, or its callback has not got past the deletion.
Pending(n) ==
  \/ TRUE \in register[n]
  \/ \E t \in DOMAIN armed : armed[t].node = n
  \/ \E t \in DOMAIN callbacks :
       callbacks[t].node = n /\ callbacks[t].pc \in {"compare", "evict stale", "delete"}

\* What a callback has found out remains true: a node that has not reported the
\* chunk does not have it, and one that it takes for stale is not listed.
Found(cb) ==
  /\ ~cb.reported => cb.node \notin copies
  /\ cb.pc \in {"evict stale", "delete"} => cb.node \notin replicas
  /\ cb.pc = "evict missing" => ~cb.reported

\* Restarts alone take neither list nor disks further: both only shrink.
Restarts ==
  /\ committed /\ repairs = {} /\ replicas \subseteq copies
  /\ \A n \in copies : /\ FALSE \notin register[n]
                       /\ \A t \in DOMAIN armed : armed[t].node = n => armed[t].reported
  /\ \A t \in DOMAIN callbacks : Found(callbacks[t])
  /\ \A n \in copies \ (replicas \cup overtaken) : n \in up /\ status[n] = "alive" => Pending(n)

\* What makes ListedReplicasHold and NodesConform inductive.
RInv == TInv /\ (OnlyRestarts => Restarts)

-----------------------------------------------------------------------------
(* Maps and the budget *)

\* Put, Delete and an update of one entry keep a map of timers one.
LEMMA Registries ==
  ASSUME NEW m, NEW K, NEW W, IsRegistry(m, K, W)
  PROVE  /\ \A k \in K, v \in W : IsRegistry(Put(m, k, v), K, W)
         /\ \A k : IsRegistry(Delete(m, k), K, W)
         /\ \A k \in DOMAIN m, v \in W : IsRegistry([m EXCEPT ![k] = v], K, W)
BY Zenon DEF IsRegistry, Put, Delete

\* A mishap of one kind takes nothing from the budget of another.
LEMMA SpendIs ==
  ASSUME Budgeted, NEW kind \in Mishaps \ {"total"}, Spend(kind)
  PROVE  /\ Budgeted'
         /\ \A k \in Mishaps \ {"total"} :
              budget'[k] = IF k = kind THEN budget[k] - 1 ELSE budget[k]
<1>1. budget[kind] > 0 /\ budget["total"] > 0
  BY Zenon DEF Spend
<1>2. budget' = [[budget EXCEPT ![kind] = budget[kind] - 1] EXCEPT !["total"] = budget["total"] - 1]
  BY Zenon DEF Spend, Mishaps
<1>3. \A k \in Mishaps : budget[k] \in Nat
  BY Zenon DEF Budgeted
<1>4. budget[kind] - 1 \in Nat /\ budget["total"] - 1 \in Nat
  BY <1>1, <1>3 DEF Mishaps
<1>5. budget' \in [Mishaps -> Nat]
  BY <1>2, <1>4, Zenon DEF Budgeted
<1>6. \A k \in Mishaps \ {"total"} : budget'[k] = IF k = kind THEN budget[k] - 1 ELSE budget[k]
  BY <1>2, Zenon DEF Budgeted, Mishaps
<1>7. {"repair", "rpc"} \subseteq Mishaps \ {"total"}
  BY Zenon DEF Mishaps
<1>8. \A k \in {"repair", "rpc"} : budget'[k] <= budget[k] /\ budget'[k] \in Nat
  BY <1>3, <1>5, <1>6, <1>7
<1>9. MaxRepairs \in Nat /\ MaxRpcFailures \in Nat
  BY ReconcileAssumption, Zenon
<1>10. Budgeted'
  BY <1>3, <1>5, <1>7, <1>8, <1>9 DEF Budgeted
<1> QED BY <1>6, <1>10, Zenon

\* Only a repair and a failed call take from what OnlyRestarts looks at.
Unspent == Budgeted' /\ (OnlyRestarts' <=> OnlyRestarts)

\* A mishap of another kind, or none.
LEMMA UnspentIs ==
  ASSUME Budgeted, UNCHANGED settled,
         UNCHANGED budget \/ \E kind \in {"crash", "stop", "false"} : Spend(kind)
  PROVE  Unspent
<1>1. CASE UNCHANGED budget
  BY <1>1, Zenon DEF Unspent, Budgeted, OnlyRestarts
<1>2. ASSUME NEW kind \in {"crash", "stop", "false"}, Spend(kind) PROVE Unspent
  <2>1. kind \in Mishaps \ {"total"} /\ kind # "repair" /\ kind # "rpc"
    BY Zenon DEF Mishaps
  <2>2. Budgeted' /\ budget'["repair"] = budget["repair"] /\ budget'["rpc"] = budget["rpc"]
    BY <1>2, <2>1, SpendIs, Zenon DEF Mishaps
  <2> QED BY <2>2, Zenon DEF Unspent, OnlyRestarts
<1> QED BY <1>1, <1>2, Zenon

\* After a repair or a failed call, more than restarts happened.
LEMMA SpentIs ==
  ASSUME Budgeted, NEW kind \in {"repair", "rpc"}, Spend(kind)
  PROVE  Budgeted' /\ ~OnlyRestarts'
<1>1. kind \in Mishaps \ {"total"}
  BY Zenon DEF Mishaps
<1>2. Budgeted' /\ budget'[kind] = budget[kind] - 1
  BY <1>1, SpendIs, Zenon
<1>3. budget[kind] \in Nat /\ MaxRepairs \in Nat /\ MaxRpcFailures \in Nat
  BY <1>1, ReconcileAssumption, Zenon DEF Budgeted
<1>4. budget["repair"] <= MaxRepairs /\ budget["rpc"] <= MaxRpcFailures
  BY Zenon DEF Budgeted
<1> QED BY <1>2, <1>3, <1>4 DEF OnlyRestarts

-----------------------------------------------------------------------------
(* Types *)

\* The part of TypeOK that no timer has.
StateTypes ==
  /\ up \subseteq Nodes /\ copies \subseteq Nodes /\ replicas \subseteq Nodes
  /\ repairs \subseteq Nodes /\ confirmed \subseteq Uploaded /\ committed \in BOOLEAN
  /\ status \in [Nodes -> {"unknown", "alive", "dead", "draining"}]
  /\ stopping \subseteq Nodes /\ leaving \subseteq Nodes /\ overtaken \subseteq Nodes
  /\ evicting \subseteq Callers \X Nodes
  /\ register \in [Nodes -> SUBSET BOOLEAN]

\* A step that leaves the timers alone.
LEMMA TypesFrame ==
  ASSUME TInv, StateTypes', Budgeted', UNCHANGED <<timers, armed, callbacks, lastTimer>>
  PROVE  TInv'
<1>1. TimersApart'
  BY Zenon DEF TInv, TimersApart
<1> QED BY <1>1, Zenon DEF TInv, TypeOK, StateTypes

\* RegisterNode makes a timer that nobody has, and disarms at most one, of the
\* same node.
LEMMA RegisterTypes ==
  ASSUME TInv, NEW n \in Nodes, NEW reported \in BOOLEAN, lastTimer < MaxTimers,
         armed' = Put(Delete(armed, timers[n]), lastTimer + 1, [node |-> n, reported |-> reported]),
         timers' = [timers EXCEPT ![n] = lastTimer + 1], lastTimer' = lastTimer + 1,
         UNCHANGED callbacks, StateTypes', Budgeted'
  PROVE  /\ TInv' /\ DOMAIN armed' = (DOMAIN armed \ {timers[n]}) \cup {lastTimer + 1}
         /\ armed'[lastTimer + 1] = [node |-> n, reported |-> reported]
         /\ \A t \in DOMAIN armed' : t # lastTimer + 1 => t \in DOMAIN armed /\ armed'[t] = armed[t]
         /\ \A t \in DOMAIN armed : t \notin DOMAIN armed' => armed[t].node = n
<1> DEFINE k == lastTimer + 1
           v == [node |-> n, reported |-> reported]
           d == Delete(armed, timers[n])
<1>1. lastTimer \in 0..MaxTimers /\ MaxTimers \in Nat
  BY ReconcileAssumption, Zenon DEF TInv, TimersApart
<1>2. k \in 1..MaxTimers /\ k \in Nat /\ k \notin 1..lastTimer /\ 1..k = (1..lastTimer) \cup {k}
  BY <1>1
<1>3. /\ DOMAIN d = DOMAIN armed \ {timers[n]}
      /\ \A t \in DOMAIN d : d[t] = armed[t]
  BY Zenon DEF Delete
<1>4. /\ DOMAIN armed' = DOMAIN d \cup {k} /\ armed'[k] = v
      /\ \A t \in DOMAIN d \ {k} : armed'[t] = d[t]
  <2>1. armed' = Put(d, k, v)
    BY Zenon
  <2> HIDE DEF d, k, v
  <2> QED BY <2>1, Zenon DEF Put
<1>5. DOMAIN armed \subseteq 1..lastTimer /\ k \notin DOMAIN armed /\ k \notin DOMAIN callbacks
  BY <1>2, Zenon DEF TInv, TimersApart
<1>6. IsRegistry(armed', Timers, Armed)
  <2>1. IsRegistry(d, Timers, Armed)
    BY Registries, Zenon DEF TInv, TypeOK
  <2>2. v \in Armed /\ k \in Timers
    BY <1>2, Zenon DEF Armed, Timers
  <2> QED BY <2>1, <2>2, Registries, Zenon
<1>7. timers' \in [Nodes -> Timers \cup {NoTimer}]
  BY <1>2, Zenon DEF TInv, TypeOK, Timers
<1>8. \A m \in Nodes : timers'[m] = IF m = n THEN k ELSE timers[m]
  BY Zenon DEF TInv, TypeOK
<1>9. \A t \in DOMAIN armed' : t # k => t \in DOMAIN armed /\ armed'[t] = armed[t]
  BY <1>3, <1>4, <1>5, Zenon
<1>10. \A m \in Nodes : timers'[m] \in DOMAIN armed' => armed'[timers'[m]].node = m
  <2> SUFFICES ASSUME NEW m \in Nodes, timers'[m] \in DOMAIN armed'
               PROVE  armed'[timers'[m]].node = m
    BY Zenon
  <2>1. CASE m = n
    BY <1>4, <1>8, <2>1
  <2>2. CASE m # n
    <3>1. timers'[m] = timers[m] /\ timers[m] # k
      <4>1. timers[m] \in DOMAIN armed \/ timers[m] = k
        BY <1>3, <1>4, <1>8, <2>2, Zenon
      <4>2. timers[m] # k
        BY <1>2, ReconcileAssumption, Zenon DEF TInv, TimersApart
      <4> QED BY <1>8, <2>2, <4>2, Zenon
    <3> QED BY <1>9, <3>1 DEF TInv, TimersApart
  <2> QED BY <2>1, <2>2, Zenon
<1>11. TimersApart'
  <2>1. lastTimer' \in 0..MaxTimers
    BY <1>2
  <2>2. DOMAIN armed' \subseteq 1..lastTimer' /\ DOMAIN callbacks' \subseteq 1..lastTimer'
    BY <1>2, <1>3, <1>4, <1>5, Zenon DEF TInv, TimersApart
  <2>3. DOMAIN armed' \cap DOMAIN callbacks' = {}
    BY <1>3, <1>4, <1>5, Zenon DEF TInv, TimersApart
  <2>4. \A m \in Nodes : timers'[m] \in (1..lastTimer') \cup {NoTimer}
    BY <1>2, <1>8, Zenon DEF TInv, TimersApart
  <2> QED BY <1>10, <2>1, <2>2, <2>3, <2>4, Zenon DEF TimersApart
<1>12. TInv'
  BY <1>6, <1>7, <1>11, Zenon DEF TInv, TypeOK, StateTypes
<1>13. \A t \in DOMAIN armed : t \notin DOMAIN armed' => armed[t].node = n
  BY <1>3, <1>4, Zenon DEF TInv, TimersApart
<1> QED BY <1>3, <1>4, <1>9, <1>12, <1>13, Zenon

\* Fire turns an armed timer into a callback of the same node.
LEMMA FireTypes ==
  ASSUME TInv, NEW t, Fire(t)
  PROVE  /\ TInv' /\ t \in DOMAIN armed /\ DOMAIN armed' = DOMAIN armed \ {t}
         /\ \A u \in DOMAIN armed' : armed'[u] = armed[u]
         /\ t \notin DOMAIN callbacks /\ DOMAIN callbacks' = DOMAIN callbacks \cup {t}
         /\ \A u \in DOMAIN callbacks : callbacks'[u] = callbacks[u]
         /\ callbacks'[t].node = armed[t].node /\ callbacks'[t].reported = armed[t].reported
         /\ callbacks'[t].pc = "compare"
<1> DEFINE v == [node |-> armed[t].node, reported |-> armed[t].reported, pc |-> "compare"]
<1>1. /\ t \in DOMAIN armed /\ armed' = Delete(armed, t) /\ callbacks' = Put(callbacks, t, v)
      /\ UNCHANGED <<up, status, copies, replicas, upload, departure, register, timers, repairs,
                     lastTimer, settled, budget>>
  BY Zenon DEF Fire
<1>2. DOMAIN armed' = DOMAIN armed \ {t} /\ \A u \in DOMAIN armed' : armed'[u] = armed[u]
  BY <1>1, Zenon DEF Delete
<1>3. t \notin DOMAIN callbacks
  BY <1>1, Zenon DEF TInv, TimersApart
<1>4. /\ DOMAIN callbacks' = DOMAIN callbacks \cup {t} /\ callbacks'[t] = v
      /\ \A u \in DOMAIN callbacks : callbacks'[u] = callbacks[u]
  <2> HIDE DEF v
  <2> QED BY <1>1, <1>3, Zenon DEF Put
<1>5. armed[t] \in Armed /\ t \in Timers
  BY <1>1, Zenon DEF TInv, TypeOK, IsRegistry
<1>6. v \in Callback
  BY <1>5, Zenon DEF Armed, Callback
<1>7. IsRegistry(armed', Timers, Armed) /\ IsRegistry(callbacks', Timers, Callback)
  <2> HIDE DEF v
  <2> QED BY <1>1, <1>5, <1>6, Registries, Zenon DEF TInv, TypeOK
<1>8. TimersApart'
  BY <1>1, <1>2, <1>4 DEF TInv, TimersApart
<1>9. TInv'
  BY <1>1, <1>7, <1>8, Zenon DEF TInv, TypeOK, Budgeted, upload, departure
<1> QED BY <1>1, <1>2, <1>3, <1>4, <1>9

\* A step of a callback changes where it is.
LEMMA StepTypes ==
  ASSUME TInv, NEW t \in DOMAIN callbacks,
         NEW p \in {"compare", "evict stale", "delete", "evict missing", "done"}, Step(t, p),
         UNCHANGED <<timers, armed, lastTimer>>, StateTypes', Budgeted'
  PROVE  /\ TInv' /\ DOMAIN callbacks' = DOMAIN callbacks
         /\ \A u \in DOMAIN callbacks : u # t => callbacks'[u] = callbacks[u]
         /\ callbacks'[t].node = callbacks[t].node /\ callbacks'[t].pc = p
         /\ callbacks'[t].reported = callbacks[t].reported
<1>1. callbacks' = [callbacks EXCEPT ![t] = [callbacks[t] EXCEPT !.pc = p]]
  BY Zenon DEF Step
<1>2. callbacks[t] \in Callback /\ callbacks \in [DOMAIN callbacks -> Callback]
  BY Zenon DEF TInv, TypeOK, IsRegistry
<1> DEFINE v == [callbacks[t] EXCEPT !.pc = p]
<1>3. /\ v \in Callback /\ v.node = callbacks[t].node /\ v.reported = callbacks[t].reported
      /\ v.pc = p
  BY <1>2, Zenon DEF Callback
<1> HIDE DEF v
<1>4. /\ DOMAIN callbacks' = DOMAIN callbacks /\ callbacks'[t] = v
      /\ \A u \in DOMAIN callbacks : u # t => callbacks'[u] = callbacks[u]
  BY <1>1, Zenon DEF v
<1>5. IsRegistry(callbacks', Timers, Callback)
  BY <1>1, <1>3, Registries, Zenon DEF v, TInv, TypeOK
<1>6. TimersApart'
  BY <1>4, Zenon DEF TInv, TimersApart
<1>7. TInv'
  BY <1>5, <1>6, Zenon DEF TInv, TypeOK, StateTypes
<1> QED BY <1>3, <1>4, <1>7, Zenon

\* A callback ends.
LEMMA DoneTypes ==
  ASSUME TInv, NEW t \in DOMAIN callbacks, CallbackDone(t)
  PROVE  /\ TInv' /\ DOMAIN callbacks' = DOMAIN callbacks \ {t}
         /\ \A u \in DOMAIN callbacks' : callbacks'[u] = callbacks[u]
<1>1. /\ timers' = [timers EXCEPT ![callbacks[t].node] = NoTimer]
      /\ callbacks' = Delete(callbacks, t)
      /\ UNCHANGED <<up, status, copies, replicas, upload, departure, register, armed, repairs,
                     lastTimer, settled, budget>>
  BY Zenon DEF CallbackDone
<1>2. /\ DOMAIN callbacks' = DOMAIN callbacks \ {t}
      /\ \A u \in DOMAIN callbacks' : callbacks'[u] = callbacks[u]
  BY <1>1, Zenon DEF Delete
<1>3. IsRegistry(callbacks', Timers, Callback)
  BY <1>1, Registries, Zenon DEF TInv, TypeOK
<1>4. /\ timers' \in [Nodes -> Timers \cup {NoTimer}]
      /\ \A n \in Nodes : timers'[n] = timers[n] \/ timers'[n] = NoTimer
  BY <1>1, Zenon DEF TInv, TypeOK
<1>5. NoTimer \notin DOMAIN armed
  BY ReconcileAssumption, Zenon DEF TInv, TypeOK, IsRegistry, Timers
<1>6. TimersApart'
  BY <1>1, <1>2, <1>4, <1>5, Zenon DEF TInv, TimersApart
<1>7. TInv'
  BY <1>1, <1>3, <1>4, <1>6, Zenon DEF TInv, TypeOK, Budgeted, upload, departure
<1> QED BY <1>2, <1>7, Zenon

-----------------------------------------------------------------------------
(* Restarts *)

\* A storage node starts and reports what it has.
LEMMA StartStep == ASSUME RInv, NEW n \in Nodes, StartNode(n) PROVE RInv'
<1> DEFINE Report == IF n \in copies THEN {TRUE} ELSE {FALSE}
<1>1. /\ n \notin up /\ up' = up \cup {n}
      /\ register' = [register EXCEPT ![n] = register[n] \cup Report]
      /\ UNCHANGED <<status, copies, replicas, confirmed, committed, stopping, leaving, evicting,
                     overtaken, timers, armed, callbacks, repairs, lastTimer, settled, budget>>
  BY Zenon DEF StartNode, upload, departure
<1>2. TInv /\ Unspent
  BY <1>1, UnspentIs, Zenon DEF RInv, TInv
<1>3. register \in [Nodes -> SUBSET BOOLEAN]
  BY Zenon DEF RInv, TInv, TypeOK
<1>4. \A m \in Nodes : register'[m] = IF m = n THEN register[n] \cup Report ELSE register[m]
  BY <1>1, <1>3, Zenon
<1>5. register' \in [Nodes -> SUBSET BOOLEAN]
  BY <1>1, <1>3, Zenon
<1>6. TInv'
  BY <1>1, <1>2, <1>5, TypesFrame, Zenon DEF TInv, TypeOK, StateTypes, Unspent
<1>7. ASSUME OnlyRestarts' PROVE Restarts'
  <2>1. Restarts
    BY <1>2, <1>7, Zenon DEF RInv, Unspent
  <2>2. copies \subseteq Nodes
    BY <1>2, Zenon DEF TInv, TypeOK
  <2>3. \A m \in copies : FALSE \notin register'[m] /\ register[m] \subseteq register'[m]
    <3>1. n \in copies => Report = {TRUE}
      BY Zenon
    <3>2. \A m \in copies : FALSE \notin register[m]
      BY <2>1, Zenon DEF Restarts
    <3> QED BY <1>4, <2>2, <3>1, <3>2, Zenon
  <2>4. n \in copies => TRUE \in register'[n]
    BY <1>4, Zenon
  <2>5. \A m \in copies \ (replicas \cup overtaken) : m \in up' /\ status[m] = "alive" => Pending(m)'
    <3> SUFFICES ASSUME NEW m \in copies \ (replicas \cup overtaken), m \in up', status[m] = "alive"
                 PROVE  Pending(m)'
      BY Zenon
    <3>1. CASE m = n
      BY <2>4, <3>1, Zenon DEF Pending
    <3>2. CASE m # n
      <4>1. Pending(m)
        BY <1>1, <2>1, <3>2, Zenon DEF Restarts
      <4> QED BY <1>1, <2>3, <4>1, Zenon DEF Pending
    <3> QED BY <3>1, <3>2, Zenon
  <2>6. \A t \in DOMAIN callbacks' : Found(callbacks[t])'
    BY <1>1, <2>1, Zenon DEF Restarts, Found
  <2> QED BY <1>1, <2>1, <2>3, <2>5, <2>6, Zenon DEF Restarts
<1> QED BY <1>6, <1>7, Zenon DEF RInv

\* A storage node crashes, or shuts down.
LEMMA DepartStep ==
  ASSUME RInv, NEW n \in Nodes, Crash(n) \/ Stop(n) \/ DeregisterAgain(n) \/ StopServer(n)
  PROVE  RInv'
<1>1. /\ up' \subseteq up /\ confirmed' \in {{}, confirmed}
      /\ stopping' \subseteq stopping \cup {n} /\ leaving' \subseteq leaving \cup {n}
      /\ UNCHANGED budget \/ Spend("crash") \/ Spend("stop")
      /\ UNCHANGED <<status, copies, replicas, committed, evicting, overtaken, register, timers,
                     armed, callbacks, repairs, lastTimer, settled>>
  BY Zenon DEF Crash, Stop, DeregisterAgain, StopServer, upload
<1>2. TInv /\ Unspent
  BY <1>1, UnspentIs, Zenon DEF RInv, TInv
<1>3. TInv'
  <2>1. StateTypes'
    BY <1>1, <1>2, Zenon DEF TInv, TypeOK, StateTypes
  <2> QED BY <1>1, <1>2, <2>1, TypesFrame, Zenon DEF Unspent
<1>4. ASSUME OnlyRestarts' PROVE Restarts'
  <2>1. Restarts
    BY <1>2, <1>4, Zenon DEF RInv, Unspent
  <2> QED BY <1>1, <2>1, Zenon DEF Restarts, Found, Pending
<1> QED BY <1>3, <1>4, Zenon DEF RInv

\* An upload or a repair: more than restarts.
LEMMA OtherSteps ==
  ASSUME RInv, CommitChunk \/ \E n \in Nodes : StoreUpload(n) \/ RepairCopy(n) \/ RepairListed(n)
  PROVE  RInv'
<1>1. TInv /\ UNCHANGED <<timers, armed, callbacks, lastTimer, settled>>
  BY Zenon DEF RInv, CommitChunk, StoreUpload, RepairCopy, RepairListed
<1>2. CASE \E n \in Nodes : RepairCopy(n)
  <2>1. Spend("repair")
    BY <1>2, Zenon DEF RepairCopy
  <2>2. Budgeted' /\ ~OnlyRestarts'
    BY <1>1, <2>1, SpentIs, Zenon DEF TInv
  <2>3. StateTypes'
    BY <1>1, <1>2, Zenon DEF RepairCopy, TInv, TypeOK, StateTypes, upload, departure
  <2> QED BY <1>1, <2>2, <2>3, TypesFrame, Zenon DEF RInv
<1>3. CASE CommitChunk \/ \E n \in Nodes : StoreUpload(n) \/ RepairListed(n)
  <2>1. Unspent
    BY <1>1, <1>3, UnspentIs, Zenon DEF TInv, CommitChunk, StoreUpload, RepairListed
  <2>2. StateTypes'
    <3>1. CASE CommitChunk
      BY <1>1, <3>1, ReconcileAssumption, Zenon DEF CommitChunk, TInv, TypeOK, StateTypes, departure
    <3>2. ASSUME NEW n \in Nodes, StoreUpload(n) PROVE StateTypes'
      BY <1>1, <3>2, Zenon DEF StoreUpload, TInv, TypeOK, StateTypes, departure
    <3>3. ASSUME NEW n \in Nodes, RepairListed(n) PROVE StateTypes'
      BY <1>1, <3>3, Zenon DEF RepairListed, TInv, TypeOK, StateTypes, upload, departure
    <3> QED BY <1>3, <3>1, <3>2, <3>3, Zenon
  <2>3. ~Restarts
    BY <1>3, Zenon DEF Restarts, CommitChunk, StoreUpload, RepairListed
  <2> QED BY <1>1, <2>1, <2>2, <2>3, TypesFrame, Zenon DEF RInv, Unspent
<1> QED BY <1>2, <1>3, Zenon

\* The leader takes a node for gone; it will be evicted.
LEMMA GoneStep == ASSUME RInv, NEW n \in Nodes, DeregisterNode(n) \/ MarkNodeDead(n) PROVE RInv'
<1>1. /\ UNCHANGED budget \/ Spend("false")
      /\ \/ UNCHANGED status
         \/ \E st \in {"dead", "draining"} : status' = [status EXCEPT ![n] = st]
      /\ leaving' \subseteq leaving /\ evicting' \subseteq evicting \cup (Callers \X Nodes)
      /\ UNCHANGED <<up, copies, replicas, confirmed, committed, stopping, overtaken, register,
                     timers, armed, callbacks, repairs, lastTimer, settled>>
  <2>1. <<"leave", n>> \in Callers \X Nodes /\ <<"watcher", n>> \in Callers \X Nodes
    BY DEF Callers
  <2>2. CASE DeregisterNode(n)
    BY <2>1, <2>2, Zenon DEF DeregisterNode, upload
  <2>3. CASE MarkNodeDead(n)
    BY <2>1, <2>3, Zenon DEF MarkNodeDead, upload
  <2> QED BY <2>2, <2>3, Zenon
<1>2. TInv /\ Unspent
  BY <1>1, UnspentIs, Zenon DEF RInv, TInv
<1>3. /\ status' \in [Nodes -> {"unknown", "alive", "dead", "draining"}]
      /\ \A m \in Nodes : status'[m] = "alive" => status[m] = "alive"
  <2>1. status \in [Nodes -> {"unknown", "alive", "dead", "draining"}]
    BY <1>2, Zenon DEF TInv, TypeOK
  <2>2. ASSUME NEW st \in {"dead", "draining"}, status' = [status EXCEPT ![n] = st] PROVE <1>3!:
    <3>1. st \in {"unknown", "alive", "dead", "draining"} /\ st # "alive"
      BY Zenon
    <3>2. \A m \in Nodes : status'[m] = IF m = n THEN st ELSE status[m]
      BY <2>1, <2>2, Zenon
    <3>3. status' \in [Nodes -> {"unknown", "alive", "dead", "draining"}]
      BY <2>1, <2>2, <3>1, Zenon
    <3> QED BY <3>1, <3>2, <3>3, Zenon
  <2> QED BY <1>1, <2>1, <2>2, Zenon
<1>4. TInv'
  <2>1. StateTypes'
    BY <1>1, <1>2, <1>3, Zenon DEF TInv, TypeOK, StateTypes
  <2> QED BY <1>1, <1>2, <2>1, TypesFrame, Zenon DEF Unspent
<1>5. ASSUME OnlyRestarts' PROVE Restarts'
  <2>1. Restarts /\ copies \subseteq Nodes
    BY <1>2, <1>5, Zenon DEF RInv, Unspent, TInv, TypeOK
  <2>2. \A t \in DOMAIN callbacks' : Found(callbacks[t])'
    BY <1>1, <2>1, Zenon DEF Restarts, Found
  <2>3. ASSUME NEW m \in copies \ (replicas \cup overtaken), m \in up, status'[m] = "alive"
        PROVE  Pending(m)'
    <3>1. Pending(m)
      BY <1>3, <2>1, <2>3, Zenon DEF Restarts
    <3> QED BY <1>1, <3>1, Zenon DEF Pending
  <2> QED BY <1>1, <2>1, <2>2, <2>3, Zenon DEF Restarts
<1> QED BY <1>4, <1>5, Zenon DEF RInv

\* The eviction of a node that is taken for gone: if it is alive again, it is
\* overtaken.
LEMMA TriggerStep ==
  ASSUME RInv, NEW n \in Nodes, NEW caller \in Callers, TriggerRepair(caller, n)
  PROVE  RInv'
<1>1. /\ \/ /\ replicas' = replicas \ {n} /\ UNCHANGED budget
            /\ overtaken' = IF n \in replicas /\ status[n] = "alive" THEN overtaken \cup {n} ELSE overtaken
         \/ Spend("rpc") /\ UNCHANGED <<replicas, overtaken>>
      /\ evicting' \subseteq evicting
      /\ UNCHANGED <<up, status, copies, confirmed, committed, stopping, leaving, register, timers,
                     armed, callbacks, repairs, lastTimer, settled>>
  BY Zenon DEF TriggerRepair, upload
<1>2. TInv
  BY Zenon DEF RInv
<1>3. /\ Budgeted'
      /\ OnlyRestarts' =>
           /\ OnlyRestarts /\ replicas' = replicas \ {n}
           /\ overtaken' = IF n \in replicas /\ status[n] = "alive" THEN overtaken \cup {n} ELSE overtaken
  <2>1. CASE Spend("rpc")
    BY <1>2, <2>1, SpentIs, Zenon DEF TInv
  <2>2. CASE UNCHANGED budget
    BY <1>1, <1>2, <2>2, UnspentIs, SpentIs, Zenon DEF TInv, Unspent
  <2> QED BY <1>1, <2>1, <2>2, Zenon
<1>4. TInv'
  <2>1. StateTypes'
    BY <1>1, <1>2, Zenon DEF TInv, TypeOK, StateTypes
  <2> QED BY <1>1, <1>2, <1>3, <2>1, TypesFrame, Zenon
<1>5. ASSUME OnlyRestarts' PROVE Restarts'
  <2>1. Restarts /\ replicas' = replicas \ {n}
    BY <1>3, <1>5, Zenon DEF RInv
  <2>2. \A t \in DOMAIN callbacks' : Found(callbacks[t])'
    BY <1>1, <2>1, Zenon DEF Restarts, Found
  <2>3. ASSUME NEW m \in copies \ (replicas' \cup overtaken'), m \in up, status[m] = "alive"
        PROVE  Pending(m)'
    <3>1. m \notin replicas \cup overtaken
      BY <1>3, <1>5, <2>1, <2>3, Zenon
    <3>2. Pending(m)
      BY <2>1, <2>3, <3>1, Zenon DEF Restarts
    <3> QED BY <1>1, <3>2, Zenon DEF Pending
  <2> QED BY <1>1, <2>1, <2>2, <2>3, Zenon DEF Restarts
<1> QED BY <1>4, <1>5, Zenon DEF RInv

\* The leader registers a node and schedules its timer.
LEMMA RegisterStep == ASSUME RInv, NEW n \in Nodes, RegisterNode(n) PROVE RInv'
<1> DEFINE k == lastTimer + 1
<1>1. PICK reported \in register[n] :
        /\ register' = [register EXCEPT ![n] = register[n] \ {reported}]
        /\ armed' = Put(Delete(armed, timers[n]), k, [node |-> n, reported |-> reported])
  BY Zenon DEF RegisterNode
<1>2. /\ lastTimer < MaxTimers /\ status' = [status EXCEPT ![n] = "alive"]
      /\ timers' = [timers EXCEPT ![n] = k] /\ lastTimer' = k
      /\ overtaken' = overtaken \ {n}
      /\ UNCHANGED <<up, copies, replicas, confirmed, committed, stopping, leaving, evicting,
                     callbacks, repairs, settled, budget>>
  BY Zenon DEF RegisterNode, upload
<1>3. TInv /\ Unspent
  BY <1>2, UnspentIs, Zenon DEF RInv, TInv
<1>4. register \in [Nodes -> SUBSET BOOLEAN] /\ reported \in BOOLEAN
  BY Zenon DEF RInv, TInv, TypeOK
<1>5. /\ register' \in [Nodes -> SUBSET BOOLEAN]
      /\ \A m \in Nodes : register'[m] = IF m = n THEN register[n] \ {reported} ELSE register[m]
  BY <1>1, <1>4, Zenon
<1>6. StateTypes'
  <2>1. status' \in [Nodes -> {"unknown", "alive", "dead", "draining"}]
    BY <1>2, <1>3, Zenon DEF TInv, TypeOK
  <2> QED BY <1>2, <1>3, <1>5, <2>1, Zenon DEF TInv, TypeOK, StateTypes
<1>7. /\ TInv' /\ k \in DOMAIN armed'
      /\ armed'[k] = [node |-> n, reported |-> reported]
      /\ \A t \in DOMAIN armed' : t # k => t \in DOMAIN armed /\ armed'[t] = armed[t]
      /\ \A t \in DOMAIN armed : t \notin DOMAIN armed' => armed[t].node = n
  <2>1. Budgeted'
    BY <1>3, Zenon DEF Unspent
  <2> QED BY <1>1, <1>2, <1>3, <1>4, <1>6, <2>1, RegisterTypes, Zenon
<1> HIDE DEF k
<1>8. ASSUME OnlyRestarts' PROVE Restarts'
  <2>1. Restarts /\ copies \subseteq Nodes
    BY <1>3, <1>8, Zenon DEF RInv, Unspent, TInv, TypeOK
  <2>2. \A m \in copies : FALSE \notin register'[m]
    BY <1>5, <2>1, Zenon DEF Restarts
  <2>3. n \in copies => reported = TRUE
    BY <1>4, <2>1, Zenon DEF Restarts
  <2>4. armed'[k].node = n /\ armed'[k].reported = reported
    BY <1>7
  <2>5. ASSUME NEW m \in copies, NEW t \in DOMAIN armed', armed'[t].node = m PROVE armed'[t].reported
    <3>1. CASE t = k
      BY <2>3, <2>4, <2>5, <3>1, Zenon
    <3>2. CASE t # k
      BY <1>7, <2>1, <2>5, <3>2, Zenon DEF Restarts
    <3> QED BY <3>1, <3>2, Zenon
  <2>6. \A t \in DOMAIN callbacks' : Found(callbacks[t])'
    BY <1>2, <2>1, Zenon DEF Restarts, Found
  <2>7. \A m \in copies \ (replicas \cup overtaken') : m \in up /\ status'[m] = "alive" => Pending(m)'
    <3> SUFFICES ASSUME NEW m \in copies \ (replicas \cup overtaken'), m \in up, status'[m] = "alive"
                 PROVE  Pending(m)'
      BY Zenon
    <3>1. CASE m = n
      BY <1>7, <2>4, <3>1, Zenon DEF Pending
    <3>2. CASE m # n
      <4>1. status[m] = "alive" /\ register'[m] = register[m] /\ m \notin overtaken
        BY <1>2, <1>3, <1>5, <2>1, <3>2, Zenon DEF TInv, TypeOK
      <4>2. Pending(m)
        BY <2>1, <4>1, Zenon DEF Restarts
      <4>3. \A t \in DOMAIN armed : armed[t].node = m => t \in DOMAIN armed'
        BY <1>7, <3>2, Zenon
      <4>4. k \notin DOMAIN armed
        <5>1. lastTimer \in Nat /\ DOMAIN armed \subseteq 1..lastTimer
          BY <1>3 DEF TInv, TimersApart
        <5> QED BY <5>1 DEF k
      <4>5. \A t \in DOMAIN armed : armed[t].node = m => t \in DOMAIN armed' /\ armed'[t].node = m
        BY <1>7, <4>3, <4>4, Zenon
      <4> QED BY <1>2, <4>1, <4>2, <4>5, Zenon DEF Pending
    <3> QED BY <3>1, <3>2, Zenon
  <2> QED BY <1>2, <2>1, <2>2, <2>5, <2>6, <2>7, Zenon DEF Restarts
<1> QED BY <1>7, <1>8, Zenon DEF RInv

\* A timer fires.
LEMMA FireStep == ASSUME RInv, NEW t, Fire(t) PROVE RInv'
<1>1. UNCHANGED <<up, status, copies, replicas, committed, overtaken, register, repairs, settled, budget>>
  BY Zenon DEF Fire, upload, departure
<1>2. TInv /\ Unspent
  BY <1>1, UnspentIs, Zenon DEF RInv, TInv
<1>3. /\ TInv' /\ t \in DOMAIN armed /\ DOMAIN armed' = DOMAIN armed \ {t}
      /\ \A u \in DOMAIN armed' : armed'[u] = armed[u]
      /\ t \notin DOMAIN callbacks /\ DOMAIN callbacks' = DOMAIN callbacks \cup {t}
      /\ \A u \in DOMAIN callbacks : callbacks'[u] = callbacks[u]
      /\ callbacks'[t].node = armed[t].node /\ callbacks'[t].reported = armed[t].reported
      /\ callbacks'[t].pc = "compare"
  BY <1>2, FireTypes, Zenon
<1>4. ASSUME OnlyRestarts' PROVE Restarts'
  <2>1. Restarts
    BY <1>2, <1>4, Zenon DEF RInv, Unspent
  <2>2. ASSUME NEW u \in DOMAIN callbacks' PROVE Found(callbacks[u])'
    <3>1. CASE u = t
      <4>1. ~armed[t].reported => armed[t].node \notin copies
        BY <1>3, <2>1, Zenon DEF Restarts
      <4> QED BY <1>1, <1>3, <3>1, <4>1, Zenon DEF Found
    <3>2. CASE u # t
      BY <1>1, <1>3, <2>1, <3>2, Zenon DEF Restarts, Found
    <3> QED BY <3>1, <3>2, Zenon
  <2>3. ASSUME NEW m \in copies \ (replicas \cup overtaken), m \in up, status[m] = "alive" PROVE Pending(m)'
    <3>1. Pending(m)
      BY <2>1, <2>3, Zenon DEF Restarts
    <3>2. CASE armed[t].node = m
      BY <1>3, <3>2, Zenon DEF Pending
    <3>3. CASE armed[t].node # m
      BY <1>1, <1>3, <3>1, <3>3, Zenon DEF Pending
    <3> QED BY <3>2, <3>3, Zenon
  <2>4. \A m \in copies, u \in DOMAIN armed' : armed'[u].node = m => armed'[u].reported
    BY <1>3, <2>1, Zenon DEF Restarts
  <2> QED BY <1>1, <2>1, <2>2, <2>3, <2>4, Zenon DEF Restarts
<1> QED BY <1>3, <1>4, Zenon DEF RInv

\* ReconcileNode: what it compares, it may act on later.
LEMMA CompareStep == ASSUME RInv, NEW t \in DOMAIN callbacks, Compare(t) PROVE RInv'
<1> DEFINE cb == callbacks[t]
           p == CASE cb.reported /\ cb.node \notin replicas -> "evict stale"
                  [] ~cb.reported /\ cb.node \in replicas -> "evict missing"
                  [] OTHER -> "done"
<1>1. /\ cb.pc = "compare" /\ Step(t, p)
      /\ UNCHANGED <<up, status, copies, replicas, confirmed, committed, stopping, leaving, evicting,
                     overtaken, register, timers, armed, repairs, lastTimer, settled, budget>>
  BY Zenon DEF Compare, upload, departure
<1>2. TInv /\ Unspent
  BY <1>1, UnspentIs, Zenon DEF RInv, TInv
<1>3. cb.reported \in BOOLEAN
  BY <1>2, Zenon DEF TInv, TypeOK, IsRegistry, Callback
<1>4. /\ p \in {"evict stale", "evict missing", "done"}
      /\ p = "evict stale" => cb.node \notin replicas
      /\ p = "evict missing" => ~cb.reported
      /\ cb.reported /\ cb.node \notin replicas => p = "evict stale"
  BY <1>3, Zenon
<1> HIDE DEF p
<1>5. StateTypes' /\ Budgeted'
  BY <1>1, <1>2, Zenon DEF TInv, TypeOK, StateTypes, Unspent
<1>6. /\ TInv' /\ DOMAIN callbacks' = DOMAIN callbacks
      /\ \A u \in DOMAIN callbacks : u # t => callbacks'[u] = callbacks[u]
      /\ callbacks'[t].node = cb.node /\ callbacks'[t].pc = p
      /\ callbacks'[t].reported = cb.reported
  BY <1>1, <1>2, <1>4, <1>5, StepTypes, Zenon
<1>7. ASSUME OnlyRestarts' PROVE Restarts'
  <2>1. Restarts
    BY <1>2, <1>7, Zenon DEF RInv, Unspent
  <2>2. Found(cb)
    BY <2>1, Zenon DEF Restarts
  <2>3. ASSUME NEW u \in DOMAIN callbacks' PROVE Found(callbacks[u])'
    <3>1. CASE u = t
      BY <1>1, <1>4, <1>6, <2>2, <3>1, Zenon DEF Found
    <3>2. CASE u # t
      BY <1>1, <1>6, <2>1, <3>2, Zenon DEF Restarts, Found
    <3> QED BY <3>1, <3>2, Zenon
  <2>4. ASSUME NEW m \in copies \ (replicas \cup overtaken), m \in up, status[m] = "alive" PROVE Pending(m)'
    <3>1. Pending(m)
      BY <2>1, <2>4, Zenon DEF Restarts
    <3>2. CASE cb.node = m
      <4>1. callbacks'[t].pc = "evict stale"
        BY <1>4, <1>6, <2>2, <3>2, Zenon DEF Found
      <4> QED BY <1>6, <3>2, <4>1, Zenon DEF Pending
    <3>3. CASE cb.node # m
      BY <1>1, <1>6, <3>1, <3>3, Zenon DEF Pending
    <3> QED BY <3>2, <3>3, Zenon
  <2> QED BY <1>1, <2>1, <2>3, <2>4, Zenon DEF Restarts
<1> QED BY <1>6, <1>7, Zenon DEF RInv

\* The eviction takes a node off the list that was not on it, or that does not
\* have the chunk.
LEMMA EvictStep == ASSUME RInv, NEW t \in DOMAIN callbacks, ReconcileEvict(t) PROVE RInv'
<1> DEFINE cb == callbacks[t]
           p == IF cb.pc = "evict stale" THEN "delete" ELSE "done"
<1>1. /\ cb.pc \in {"evict stale", "evict missing"} /\ Step(t, p)
      /\ \/ replicas' = replicas \ {cb.node} /\ UNCHANGED budget
         \/ Spend("rpc") /\ UNCHANGED replicas
      /\ UNCHANGED <<up, status, copies, confirmed, committed, stopping, leaving, evicting,
                     overtaken, register, timers, armed, repairs, lastTimer, settled>>
  BY Zenon DEF ReconcileEvict, upload, departure
<1>2. TInv
  BY Zenon DEF RInv
<1>3. /\ Budgeted'
      /\ OnlyRestarts' => OnlyRestarts /\ replicas' = replicas \ {cb.node}
  <2>1. CASE Spend("rpc")
    BY <1>2, <2>1, SpentIs, Zenon DEF TInv
  <2>2. CASE replicas' = replicas \ {cb.node} /\ UNCHANGED budget
    BY <1>1, <1>2, <2>2, UnspentIs, Zenon DEF TInv, Unspent
  <2> QED BY <1>1, <2>1, <2>2, Zenon
<1>4. StateTypes'
  BY <1>1, <1>2, Zenon DEF TInv, TypeOK, StateTypes
<1>5. /\ p \in {"delete", "done"}
      /\ cb.pc = "evict stale" => p = "delete"
      /\ cb.pc = "evict missing" => p = "done"
  BY <1>1, Zenon
<1> HIDE DEF p
<1>6. /\ TInv' /\ DOMAIN callbacks' = DOMAIN callbacks
      /\ \A u \in DOMAIN callbacks : u # t => callbacks'[u] = callbacks[u]
      /\ callbacks'[t].node = cb.node /\ callbacks'[t].pc = p
      /\ callbacks'[t].reported = cb.reported
  BY <1>1, <1>2, <1>3, <1>4, <1>5, StepTypes, Zenon
<1>7. ASSUME OnlyRestarts' PROVE Restarts'
  <2>1. Restarts /\ replicas' = replicas \ {cb.node}
    BY <1>3, <1>7, Zenon DEF RInv
  <2>2. Found(cb)
    BY <2>1, Zenon DEF Restarts
  <2>3. ASSUME NEW u \in DOMAIN callbacks' PROVE Found(callbacks[u])'
    <3>1. CASE u = t
      BY <1>1, <1>5, <1>6, <2>1, <2>2, <3>1, Zenon DEF Found
    <3>2. CASE u # t
      BY <1>1, <1>6, <2>1, <3>2, Zenon DEF Restarts, Found
    <3> QED BY <3>1, <3>2, Zenon
  <2>4. ASSUME NEW m \in copies \ (replicas' \cup overtaken), m \in up, status[m] = "alive" PROVE Pending(m)'
    <3>1. CASE cb.node = m
      <4>1. cb.pc = "evict stale"
        BY <1>1, <2>2, <3>1, Zenon DEF Found
      <4> QED BY <1>5, <1>6, <3>1, <4>1, Zenon DEF Pending
    <3>2. CASE cb.node # m
      <4>1. Pending(m)
        BY <2>1, <2>4, <3>2, Zenon DEF Restarts
      <4> QED BY <1>1, <1>6, <3>2, <4>1, Zenon DEF Pending
    <3> QED BY <3>1, <3>2, Zenon
  <2> QED BY <1>1, <2>1, <2>3, <2>4, Zenon DEF Restarts
<1> QED BY <1>6, <1>7, Zenon DEF RInv

\* DeleteChunk deletes a copy that is not listed.
LEMMA DeleteStep == ASSUME RInv, NEW t \in DOMAIN callbacks, DeleteChunk(t) PROVE RInv'
<1> DEFINE cb == callbacks[t]
           n == callbacks[t].node
<1>1. /\ cb.pc = "delete" /\ Step(t, "done")
      /\ \/ n \in up /\ copies' = copies \ {n} /\ UNCHANGED budget
         \/ n \notin up /\ UNCHANGED <<copies, budget>>
         \/ Spend("rpc") /\ UNCHANGED copies
      /\ UNCHANGED <<up, status, replicas, confirmed, committed, stopping, leaving, evicting,
                     overtaken, register, timers, armed, repairs, lastTimer, settled>>
  BY Zenon DEF DeleteChunk, upload, departure
<1>2. TInv
  BY Zenon DEF RInv
<1>3. /\ Budgeted'
      /\ OnlyRestarts' =>
           OnlyRestarts /\ (copies' = copies \ {n} \/ (n \notin up /\ copies' = copies))
  <2>1. CASE Spend("rpc")
    BY <1>2, <2>1, SpentIs DEF TInv
  <2>2. CASE UNCHANGED budget /\ (copies' = copies \ {n} \/ (n \notin up /\ copies' = copies))
    BY <1>1, <1>2, <2>2, UnspentIs, Zenon DEF TInv, Unspent
  <2> QED BY <1>1, <2>1, <2>2, Zenon
<1>4. StateTypes' /\ copies' \subseteq copies
  BY <1>1, <1>2, Zenon DEF TInv, TypeOK, StateTypes
<1>5. /\ TInv' /\ DOMAIN callbacks' = DOMAIN callbacks
      /\ \A u \in DOMAIN callbacks : u # t => callbacks'[u] = callbacks[u]
      /\ callbacks'[t].node = cb.node /\ callbacks'[t].pc = "done"
      /\ callbacks'[t].reported = cb.reported
  BY <1>1, <1>2, <1>3, <1>4, StepTypes, Zenon
<1>6. ASSUME OnlyRestarts' PROVE Restarts'
  <2>1. Restarts /\ (copies' = copies \ {n} \/ (n \notin up /\ copies' = copies))
    BY <1>3, <1>6, Zenon DEF RInv
  <2>2. Found(cb)
    BY <2>1, Zenon DEF Restarts
  <2>3. n \notin replicas
    BY <1>1, <2>2 DEF Found
  <2>4. ASSUME NEW u \in DOMAIN callbacks' PROVE Found(callbacks[u])'
    <3>1. CASE u = t
      BY <1>1, <1>4, <1>5, <2>2, <3>1, Zenon DEF Found
    <3>2. CASE u # t
      BY <1>1, <1>4, <1>5, <2>1, <3>2, Zenon DEF Restarts, Found
    <3> QED BY <3>1, <3>2, Zenon
  <2>5. ASSUME NEW m \in copies' \ (replicas \cup overtaken), m \in up, status[m] = "alive" PROVE Pending(m)'
    <3>1. m # n /\ m \in copies
      BY <2>1, <2>5, Zenon
    <3>2. Pending(m)
      BY <2>1, <2>5, <3>1, Zenon DEF Restarts
    <3> QED BY <1>1, <1>5, <3>1, <3>2, Zenon DEF Pending
  <2>6. replicas \subseteq copies'
    BY <2>1, <2>3, Zenon DEF Restarts
  <2> QED BY <1>1, <1>4, <2>1, <2>4, <2>5, <2>6, Zenon DEF Restarts
<1> QED BY <1>5, <1>6, Zenon DEF RInv

\* A callback that is done leaves nothing behind.
LEMMA DoneStep == ASSUME RInv, NEW t \in DOMAIN callbacks, CallbackDone(t) PROVE RInv'
<1>1. /\ callbacks[t].pc = "done"
      /\ UNCHANGED <<up, status, copies, replicas, committed, overtaken, register, armed, repairs,
                     settled, budget>>
  BY Zenon DEF CallbackDone, upload, departure
<1>2. TInv /\ Unspent
  BY <1>1, UnspentIs, Zenon DEF RInv, TInv
<1>3. /\ TInv' /\ DOMAIN callbacks' = DOMAIN callbacks \ {t}
      /\ \A u \in DOMAIN callbacks' : callbacks'[u] = callbacks[u]
  BY <1>2, DoneTypes, Zenon
<1>4. ASSUME OnlyRestarts' PROVE Restarts'
  <2>1. Restarts
    BY <1>2, <1>4, Zenon DEF RInv, Unspent
  <2>2. \A u \in DOMAIN callbacks' : Found(callbacks[u])'
    BY <1>1, <1>3, <2>1, Zenon DEF Restarts, Found
  <2>3. ASSUME NEW m \in copies \ (replicas \cup overtaken), m \in up, status[m] = "alive" PROVE Pending(m)'
    <3>1. Pending(m)
      BY <2>1, <2>3, Zenon DEF Restarts
    <3>2. callbacks[t].pc \notin {"compare", "evict stale", "delete"}
      BY <1>1, Zenon
    <3> QED BY <1>1, <1>3, <3>1, <3>2, Zenon DEF Pending
  <2> QED BY <1>1, <2>1, <2>2, <2>3, Zenon DEF Restarts
<1> QED BY <1>3, <1>4, Zenon DEF RInv

\* A settled cluster lists what the nodes have; a new one has nothing.
LEMMA RInit == Init => RInv
<1> SUFFICES ASSUME Init PROVE RInv
  BY Zenon
<1>1. StateTypes
  <2>1. settled \in BOOLEAN /\ Uploaded \subseteq Nodes
    BY ReconcileAssumption, Zenon DEF Init
  <2>2. status \in [Nodes -> {"unknown", "alive", "dead", "draining"}]
    BY Zenon DEF Init
  <2>3. register \in [Nodes -> SUBSET BOOLEAN]
    BY Zenon DEF Init
  <2> QED BY <2>1, <2>2, <2>3, Zenon DEF Init, StateTypes
<1>2. /\ DOMAIN armed = {} /\ DOMAIN callbacks = {}
      /\ IsRegistry(armed, Timers, Armed) /\ IsRegistry(callbacks, Timers, Callback)
  BY Zenon DEF Init, EmptyRegistry, IsRegistry
<1>3. timers \in [Nodes -> Timers \cup {NoTimer}] /\ \A n \in Nodes : timers[n] = NoTimer
  BY Zenon DEF Init
<1>4. TimersApart
  BY <1>2, <1>3, ReconcileAssumption DEF TimersApart, Init
<1>5. Budgeted
  <2>1. budget = Bounds
    BY Zenon DEF Init
  <2>2. Bounds \in [Mishaps -> Nat] /\ Bounds["repair"] = MaxRepairs /\ Bounds["rpc"] = MaxRpcFailures
    BY ReconcileAssumption, Zenon DEF Bounds, Mishaps
  <2> QED BY <2>1, <2>2, ReconcileAssumption DEF Budgeted
<1>6. TInv
  BY <1>1, <1>2, <1>3, <1>4, <1>5, Zenon DEF TInv, TypeOK, StateTypes
<1>7. settled => Restarts
  <2> SUFFICES ASSUME settled PROVE Restarts
    BY Zenon
  <2>1. committed = settled /\ repairs = {} /\ replicas = copies /\ copies \subseteq Nodes
    BY <1>1, Zenon DEF Init, StateTypes
  <2>2. \A n \in Nodes : register[n] = {}
    BY Zenon DEF Init
  <2> QED BY <1>2, <2>1, <2>2, Zenon DEF Restarts
<1> QED BY <1>6, <1>7, Zenon DEF RInv, OnlyRestarts

\* RInv is inductive.
LEMMA RNext == RInv /\ [Next]_vars => RInv'
<1> SUFFICES ASSUME RInv, [Next]_vars PROVE RInv'
  BY Zenon
<1>1. CASE UNCHANGED vars
  <2>1. UNCHANGED <<up, status, copies, replicas, confirmed, committed, stopping, leaving, evicting,
                    overtaken, register, timers, armed, callbacks, repairs, lastTimer, settled, budget>>
    BY <1>1, Zenon DEF vars, upload, departure
  <2>2. TInv /\ Unspent
    BY <2>1, UnspentIs, Zenon DEF RInv, TInv
  <2>3. StateTypes'
    BY <2>1, <2>2, Zenon DEF TInv, TypeOK, StateTypes
  <2>4. TInv'
    BY <2>1, <2>2, <2>3, TypesFrame, Zenon DEF Unspent
  <2>5. ASSUME NEW m, Pending(m) PROVE Pending(m)'
    BY <2>1, <2>5, Zenon DEF Pending
  <2>6. ASSUME NEW t \in DOMAIN callbacks, Found(callbacks[t]) PROVE Found(callbacks[t])'
    BY <2>1, <2>6, Zenon DEF Found
  <2>7. Restarts => Restarts'
    BY <2>1, <2>5, <2>6, Zenon DEF Restarts
  <2> QED BY <2>2, <2>4, <2>7, Zenon DEF RInv, Unspent
<1>2. CASE \E n \in Nodes : NodeStep(n) \/ LeaderStep(n)
  BY <1>2, StartStep, DepartStep, OtherSteps, RegisterStep, GoneStep, TriggerStep, Zenon
  DEF NodeStep, LeaderStep
<1>3. CASE CommitChunk \/ \E t \in Timers : Fire(t)
  BY <1>3, OtherSteps, FireStep, Zenon
<1>4. CASE \E t \in DOMAIN callbacks : CallbackStep(t)
  BY <1>4, CompareStep, EvictStep, DeleteStep, DoneStep, Zenon DEF CallbackStep
<1> QED BY <1>1, <1>2, <1>3, <1>4, Zenon DEF Next

-----------------------------------------------------------------------------
(* Crashes and shutdowns *)

\* Node n's copy may be deleted by a callback, or has been: n is down with the
\* chunk or will be, or has reported it, or has confirmed and lost it.
AtRisk(n) ==
  \/ n \in stopping \/ n \in copies \ up \/ n \in confirmed \ copies \/ TRUE \in register[n]
  \/ \E t \in DOMAIN armed : armed[t].node = n /\ armed[t].reported
  \/ \E t \in DOMAIN callbacks : callbacks[t].node = n /\ callbacks[t].reported

Exposed == {n \in Nodes : AtRisk(n)}

\* A copy is deleted only after its node has reported it.
DeletesReported ==
  \A t \in DOMAIN callbacks :
    callbacks[t].pc \in {"evict stale", "delete"} => callbacks[t].reported

\* What makes ChunkSurvives inductive: every exposed node has departed
\* once.
SInv == Cardinality(Exposed) <= Departures /\ DeletesReported

\* The exposed nodes can be counted.
LEMMA ExposedCount ==
  /\ IsFiniteSet(Exposed) /\ Cardinality(Exposed) \in Nat
  /\ \A S \in SUBSET Exposed : Cardinality(S) \in Nat /\ Cardinality(S) <= Cardinality(Exposed)
<1>1. IsFiniteSet(Exposed)
  <2>1. Exposed \in SUBSET Nodes /\ IsFiniteSet(Nodes)
    BY ReconcileAssumption, Zenon DEF Exposed
  <2> QED BY <2>1, FS_Subset, Zenon
<1>2. \A S \in SUBSET Exposed : IsFiniteSet(S) /\ Cardinality(S) <= Cardinality(Exposed)
  BY <1>1, FS_Subset, Zenon
<1> QED BY <1>1, <1>2, FS_CardinalityType, Zenon

\* Departures are counted.
LEMMA DeparturesCount ==
  ASSUME TInv
  PROVE  /\ MaxCrashes \in Nat /\ MaxStops \in Nat
         /\ budget["crash"] \in Nat /\ budget["stop"] \in Nat
         /\ Departures \in Int
<1>1. MaxCrashes \in Nat /\ MaxStops \in Nat
  BY ReconcileAssumption, Zenon
<1>2. budget["crash"] \in Nat /\ budget["stop"] \in Nat
  <2>1. "crash" \in Mishaps /\ "stop" \in Mishaps
    BY Zenon DEF Mishaps
  <2> QED BY <2>1, Zenon DEF TInv, Budgeted
<1>3. Departures \in Int
  BY <1>1, <1>2 DEF Departures
<1> QED BY <1>1, <1>2, <1>3, Zenon

\* A step that exposes nobody and is no departure.
LEMMA NotExposing ==
  ASSUME TInv, SInv, \A n \in Nodes : AtRisk(n)' => AtRisk(n), DeletesReported',
         \/ UNCHANGED budget
         \/ \E kind \in {"false", "repair", "rpc"} : Spend(kind)
  PROVE  SInv'
<1>1. Exposed' \in SUBSET Exposed
  BY Zenon DEF Exposed
<1>2. Departures' = Departures
  <2>1. ASSUME NEW kind \in {"false", "repair", "rpc"}, Spend(kind)
        PROVE  budget'["crash"] = budget["crash"] /\ budget'["stop"] = budget["stop"]
    <3>1. /\ kind \in Mishaps \ {"total"} /\ kind # "crash" /\ kind # "stop"
          /\ "crash" \in Mishaps \ {"total"} /\ "stop" \in Mishaps \ {"total"}
      BY Zenon DEF Mishaps
    <3> QED BY <2>1, <3>1, SpendIs, Zenon DEF TInv
  <2> QED BY <2>1, Zenon DEF Departures
<1> DEFINE c == Cardinality(Exposed)
           d == Cardinality(Exposed)'
<1>3. c \in Nat /\ d \in Nat /\ d <= c
  BY <1>1, ExposedCount, Zenon
<1>4. Departures \in Int /\ c <= Departures
  BY DeparturesCount, Zenon DEF SInv
<1> HIDE DEF c, d
<1>5. d <= Departures
  BY <1>3, <1>4
<1> QED BY <1>2, <1>5, Zenon DEF d, SInv

\* The departure of a node exposes no other.
LEMMA Departing ==
  ASSUME TInv, SInv, NEW n \in Nodes, \A m \in Nodes : AtRisk(m)' => AtRisk(m) \/ m = n,
         DeletesReported', NEW kind \in {"crash", "stop"}, Spend(kind)
  PROVE  SInv'
<1>1. Exposed' \in SUBSET (Exposed \cup {n})
  BY Zenon DEF Exposed
<1>2. \/ budget'["crash"] = budget["crash"] - 1 /\ budget'["stop"] = budget["stop"]
      \/ budget'["crash"] = budget["crash"] /\ budget'["stop"] = budget["stop"] - 1
  <2>1. "crash" \in Mishaps \ {"total"} /\ "stop" \in Mishaps \ {"total"}
    BY Zenon DEF Mishaps
  <2> QED BY <2>1, SpendIs, Zenon DEF TInv
<1>3. Departures' = Departures + 1 /\ Departures \in Int
  BY <1>2, DeparturesCount DEF Departures
<1> DEFINE c == Cardinality(Exposed)
           d == Cardinality(Exposed)'
           e == Cardinality(Exposed \cup {n})
<1>4. c \in Nat /\ IsFiniteSet(Exposed \cup {n}) /\ e = IF n \in Exposed THEN c ELSE c + 1
  BY ExposedCount, FS_AddElement, Zenon
<1>5. IsFiniteSet(Exposed') /\ d <= e
  BY <1>1, <1>4, FS_Subset, Zenon
<1>6. d \in Nat
  BY <1>5, FS_CardinalityType, Zenon
<1>7. c <= Departures
  BY Zenon DEF SInv
<1>8. e \in Nat /\ e <= c + 1
  BY <1>4
<1> HIDE DEF c, d, e
<1>9. d <= Departures + 1
  BY <1>3, <1>4, <1>5, <1>6, <1>7, <1>8
<1> QED BY <1>3, <1>9, Zenon DEF d, SInv

\* A crash and the begin of a shutdown are departures; the rest of the shutdown
\* exposes nobody more.
LEMMA DepartExposes ==
  ASSUME TInv, SInv, NEW n \in Nodes, Crash(n) \/ Stop(n) \/ DeregisterAgain(n) \/ StopServer(n)
  PROVE  SInv'
<1>1. confirmed' \in {{}, confirmed} /\ UNCHANGED <<copies, register, armed, callbacks>>
  BY Zenon DEF Crash, Stop, DeregisterAgain, StopServer, upload
<1>2. DeletesReported'
  BY <1>1, Zenon DEF SInv, DeletesReported
<1>3. CASE Crash(n) \/ Stop(n)
  <2>1. up \ {n} \subseteq up' /\ stopping' \subseteq stopping \cup {n}
    BY <1>3, Zenon DEF Crash, Stop
  <2>2. \A m \in Nodes : AtRisk(m)' => AtRisk(m) \/ m = n
    BY <1>1, <2>1, Zenon DEF AtRisk
  <2>3. Spend("crash") \/ Spend("stop")
    BY <1>3, Zenon DEF Crash, Stop
  <2> QED BY <1>2, <2>2, <2>3, Departing, Zenon
<1>4. CASE DeregisterAgain(n) \/ StopServer(n)
  <2>1. /\ stopping' \subseteq stopping /\ up \ up' \subseteq stopping /\ UNCHANGED budget
    BY <1>4, Zenon DEF DeregisterAgain, StopServer
  <2>2. \A m \in Nodes : AtRisk(m)' => AtRisk(m)
    BY <1>1, <2>1, Zenon DEF AtRisk
  <2> QED BY <1>2, <2>1, <2>2, NotExposing, Zenon
<1> QED BY <1>3, <1>4, Zenon

\* A node that starts reports a chunk it came back with.
LEMMA StartExposes ==
  ASSUME TInv, SInv, NEW n \in Nodes, StartNode(n)
  PROVE  SInv'
<1> DEFINE Report == IF n \in copies THEN {TRUE} ELSE {FALSE}
<1>1. /\ n \notin up /\ up' = up \cup {n}
      /\ register' = [register EXCEPT ![n] = register[n] \cup Report]
      /\ UNCHANGED <<copies, confirmed, stopping, armed, callbacks, budget>>
  BY Zenon DEF StartNode, upload, departure
<1>2. \A m \in Nodes : register'[m] = IF m = n THEN register[n] \cup Report ELSE register[m]
  BY <1>1, Zenon DEF TInv, TypeOK
<1>3. TRUE \in Report => n \in copies
  BY Zenon
<1> HIDE DEF Report
<1>4. ASSUME NEW m \in Nodes, AtRisk(m)' PROVE AtRisk(m)
  <2>1. CASE TRUE \in register'[m]
    <3>1. TRUE \in register[m] \/ (m = n /\ n \in copies)
      BY <1>2, <1>3, <2>1, Zenon
    <3> QED BY <1>1, <3>1, Zenon DEF AtRisk
  <2>2. CASE TRUE \notin register'[m]
    BY <1>1, <1>4, <2>2, Zenon DEF AtRisk
  <2> QED BY <2>1, <2>2, Zenon
<1>5. DeletesReported'
  BY <1>1, Zenon DEF SInv, DeletesReported
<1> QED BY <1>1, <1>4, <1>5, NotExposing, Zenon

\* An upload or a repair stores the chunk on a node that runs; what the leader
\* does to its lists touches no disk.
LEMMA StoreExposes ==
  ASSUME TInv, SInv,
         \/ CommitChunk
         \/ \E n \in Nodes :
              \/ StoreUpload(n) \/ DeregisterNode(n) \/ MarkNodeDead(n) \/ RepairCopy(n) \/ RepairListed(n)
              \/ \E caller \in Callers : TriggerRepair(caller, n)
  PROVE  SInv'
<1> DEFINE Listing ==
             \/ CommitChunk
             \/ \E n \in Nodes :
                  \/ DeregisterNode(n) \/ MarkNodeDead(n) \/ RepairListed(n)
                  \/ \E caller \in Callers : TriggerRepair(caller, n)
<1>1. copies' \ up \subseteq copies \ up /\ confirmed' \ copies' \subseteq confirmed \ copies
  <2>1. CASE Listing
    BY <2>1, Zenon DEF CommitChunk, DeregisterNode, MarkNodeDead, TriggerRepair, RepairListed, upload
  <2>2. ASSUME NEW n \in Nodes, StoreUpload(n) \/ RepairCopy(n)
        PROVE  copies' \ up \subseteq copies \ up /\ confirmed' \ copies' \subseteq confirmed \ copies
    <3>1. n \in up /\ copies' = copies \cup {n} /\ confirmed' \subseteq confirmed \cup {n}
      BY <2>2, Zenon DEF StoreUpload, RepairCopy, upload
    <3> QED BY <3>1, Zenon
  <2> QED BY <2>1, <2>2, Zenon
<1>2. /\ UNCHANGED <<up, stopping, register, armed, callbacks>>
      /\ UNCHANGED budget \/ \E kind \in {"false", "repair", "rpc"} : Spend(kind)
  <2>1. CASE Listing
    BY <2>1, Zenon DEF CommitChunk, DeregisterNode, MarkNodeDead, TriggerRepair, RepairListed,
                       upload, departure
  <2>2. CASE \E n \in Nodes : StoreUpload(n) \/ RepairCopy(n)
    BY <2>2, Zenon DEF StoreUpload, RepairCopy, departure
  <2> QED BY <2>1, <2>2, Zenon
<1>3. \A m \in Nodes : AtRisk(m)' => AtRisk(m)
  BY <1>1, <1>2, Zenon DEF AtRisk
<1>4. DeletesReported'
  BY <1>2, Zenon DEF SInv, DeletesReported
<1> QED BY <1>2, <1>3, <1>4, NotExposing, Zenon

\* The leader takes over what a node has reported into its timer, and the timer
\* into its callback.
LEMMA TimerExposes ==
  ASSUME TInv, TInv', SInv,
         (\E n \in Nodes : RegisterNode(n)) \/ (\E t \in Timers : Fire(t))
  PROVE  SInv'
<1>1. ASSUME NEW n \in Nodes, RegisterNode(n) PROVE SInv'
  <2> DEFINE k == lastTimer + 1
  <2>1. PICK reported \in register[n] :
          /\ register' = [register EXCEPT ![n] = register[n] \ {reported}]
          /\ armed' = Put(Delete(armed, timers[n]), k, [node |-> n, reported |-> reported])
    BY <1>1, Zenon DEF RegisterNode
  <2>2. /\ lastTimer < MaxTimers /\ timers' = [timers EXCEPT ![n] = k] /\ lastTimer' = k
        /\ UNCHANGED <<up, copies, confirmed, stopping, callbacks, budget>>
    BY <1>1, Zenon DEF RegisterNode, upload
  <2>3. reported \in BOOLEAN /\ StateTypes' /\ Budgeted'
    BY Zenon DEF TInv, TypeOK, StateTypes
  <2>4. /\ armed'[k] = [node |-> n, reported |-> reported]
        /\ \A t \in DOMAIN armed' : t # k => t \in DOMAIN armed /\ armed'[t] = armed[t]
    BY <2>1, <2>2, <2>3, RegisterTypes, Zenon
  <2>5. armed'[k].node = n /\ armed'[k].reported = reported
    BY <2>4
  <2>6. \A m \in Nodes : register'[m] \subseteq register[m]
    BY <2>1, Zenon DEF TInv, TypeOK
  <2> HIDE DEF k
  <2>7. ASSUME NEW m \in Nodes, AtRisk(m)' PROVE AtRisk(m)
    <3>1. ASSUME NEW t \in DOMAIN armed', armed'[t].node = m, armed'[t].reported PROVE AtRisk(m)
      <4>1. CASE t = k
        <5>1. m = n /\ reported = TRUE
          BY <2>3, <2>5, <3>1, <4>1, Zenon
        <5> QED BY <5>1, Zenon DEF AtRisk
      <4>2. CASE t # k
        BY <2>4, <3>1, <4>2, Zenon DEF AtRisk
      <4> QED BY <4>1, <4>2, Zenon
    <3> QED BY <2>2, <2>6, <2>7, <3>1, Zenon DEF AtRisk
  <2>8. DeletesReported'
    BY <2>2, Zenon DEF SInv, DeletesReported
  <2> QED BY <2>2, <2>7, <2>8, NotExposing, Zenon
<1>2. ASSUME NEW t \in Timers, Fire(t) PROVE SInv'
  <2>1. UNCHANGED <<up, copies, confirmed, stopping, register, budget>>
    BY <1>2, Zenon DEF Fire, upload, departure
  <2>2. /\ t \in DOMAIN armed /\ DOMAIN armed' = DOMAIN armed \ {t}
        /\ \A u \in DOMAIN armed' : armed'[u] = armed[u]
        /\ DOMAIN callbacks' = DOMAIN callbacks \cup {t}
        /\ \A u \in DOMAIN callbacks : callbacks'[u] = callbacks[u]
        /\ callbacks'[t].node = armed[t].node /\ callbacks'[t].reported = armed[t].reported
        /\ callbacks'[t].pc = "compare"
    BY <1>2, FireTypes, Zenon
  <2>3. \A m \in Nodes : AtRisk(m)' => AtRisk(m)
    BY <2>1, <2>2, Zenon DEF AtRisk
  <2>4. DeletesReported'
    BY <2>2, Zenon DEF SInv, DeletesReported
  <2> QED BY <2>1, <2>3, <2>4, NotExposing, Zenon
<1> QED BY <1>1, <1>2, Zenon

\* A callback deletes a copy of a node that is exposed already.
LEMMA CallbackExposes ==
  ASSUME TInv, TInv', SInv, NEW t \in DOMAIN callbacks, CallbackStep(t)
  PROVE  SInv'
<1> DEFINE cb == callbacks[t]
<1>1. cb.reported \in BOOLEAN
  BY Zenon DEF TInv, TypeOK, IsRegistry, Callback
<1>2. ASSUME NEW p \in {"evict stale", "delete", "evict missing", "done"}, Step(t, p),
             p \in {"evict stale", "delete"} => cb.reported,
             UNCHANGED <<up, confirmed, stopping, register, timers, armed, lastTimer>>,
             UNCHANGED copies \/ (copies' = copies \ {cb.node} /\ cb.reported),
             UNCHANGED budget \/ Spend("rpc")
      PROVE  SInv'
  <2>1. StateTypes' /\ Budgeted'
    BY Zenon DEF TInv, TypeOK, StateTypes
  <2>2. /\ DOMAIN callbacks' = DOMAIN callbacks
        /\ \A u \in DOMAIN callbacks : u # t => callbacks'[u] = callbacks[u]
        /\ callbacks'[t].node = cb.node /\ callbacks'[t].pc = p
        /\ callbacks'[t].reported = cb.reported
    <3>1. p \in {"compare", "evict stale", "delete", "evict missing", "done"}
      BY Zenon
    <3> QED BY <1>2, <2>1, <3>1, StepTypes, Zenon
  <2> HIDE DEF cb
  <2>3. ASSUME NEW m \in Nodes, AtRisk(m)' PROVE AtRisk(m)
    <3>1. \A u \in DOMAIN callbacks' : /\ callbacks'[u].node = callbacks[u].node
                                       /\ callbacks'[u].reported = callbacks[u].reported
      BY <2>2, Zenon DEF cb
    <3>2. CASE m = cb.node /\ cb.reported
      BY <3>2, Zenon DEF AtRisk, cb
    <3>3. CASE ~(m = cb.node /\ cb.reported)
      <4>1. m \in copies' <=> m \in copies
        BY <1>2, <3>3, Zenon
      <4> QED BY <1>2, <2>2, <2>3, <3>1, <4>1, Zenon DEF AtRisk
    <3> QED BY <3>2, <3>3, Zenon
  <2>4. DeletesReported'
    <3> SUFFICES ASSUME NEW u \in DOMAIN callbacks', callbacks'[u].pc \in {"evict stale", "delete"}
                 PROVE  callbacks'[u].reported
      BY Zenon DEF DeletesReported
    <3>1. CASE u = t
      BY <1>2, <2>2, <3>1, Zenon
    <3>2. CASE u # t
      BY <2>2, <3>2, Zenon DEF SInv, DeletesReported
    <3> QED BY <3>1, <3>2, Zenon
  <2> QED BY <1>2, <2>3, <2>4, NotExposing, Zenon
<1>3. CASE Compare(t)
  <2> DEFINE p == CASE cb.reported /\ cb.node \notin replicas -> "evict stale"
                    [] ~cb.reported /\ cb.node \in replicas -> "evict missing"
                    [] OTHER -> "done"
  <2>1. Step(t, p) /\ UNCHANGED <<up, copies, confirmed, stopping, register, timers, armed, lastTimer, budget>>
    BY <1>3, Zenon DEF Compare, upload, departure
  <2>2. p \in {"evict stale", "evict missing", "done"} /\ (p = "evict stale" => cb.reported)
    BY <1>1, Zenon
  <2> HIDE DEF p
  <2> QED BY <1>2, <2>1, <2>2, Zenon
<1>4. CASE ReconcileEvict(t)
  <2> DEFINE p == IF cb.pc = "evict stale" THEN "delete" ELSE "done"
  <2>1. /\ Step(t, p) /\ UNCHANGED <<up, copies, confirmed, stopping, register, timers, armed, lastTimer>>
        /\ UNCHANGED budget \/ Spend("rpc")
    BY <1>4, Zenon DEF ReconcileEvict, upload, departure
  <2>2. p \in {"delete", "done"} /\ (p = "delete" => cb.reported)
    BY Zenon DEF SInv, DeletesReported
  <2> HIDE DEF p
  <2> QED BY <1>2, <2>1, <2>2, Zenon
<1>5. CASE DeleteChunk(t)
  <2>1. /\ Step(t, "done") /\ UNCHANGED <<up, confirmed, stopping, register, timers, armed, lastTimer>>
        /\ UNCHANGED copies \/ copies' = copies \ {cb.node}
        /\ UNCHANGED budget \/ Spend("rpc")
    BY <1>5, Zenon DEF DeleteChunk, upload, departure
  <2>2. cb.reported
    BY <1>5, Zenon DEF DeleteChunk, SInv, DeletesReported
  <2> QED BY <1>2, <2>1, <2>2, Zenon
<1>6. CASE CallbackDone(t)
  <2>1. UNCHANGED <<up, copies, confirmed, stopping, register, armed, budget>>
    BY <1>6, Zenon DEF CallbackDone, upload, departure
  <2>2. /\ DOMAIN callbacks' = DOMAIN callbacks \ {t}
        /\ \A u \in DOMAIN callbacks' : callbacks'[u] = callbacks[u]
    BY <1>6, DoneTypes, Zenon
  <2>3. \A m \in Nodes : AtRisk(m)' => AtRisk(m)
    BY <2>1, <2>2, Zenon DEF AtRisk
  <2>4. DeletesReported'
    BY <2>2, Zenon DEF SInv, DeletesReported
  <2> QED BY <2>1, <2>3, <2>4, NotExposing, Zenon
<1> QED BY <1>3, <1>4, <1>5, <1>6, Zenon DEF CallbackStep

\* Nobody is exposed at first.
LEMMA SInit == Init => SInv
<1> SUFFICES ASSUME Init PROVE SInv
  BY Zenon
<1>1. DOMAIN armed = {} /\ DOMAIN callbacks = {} /\ copies = confirmed /\ copies \subseteq up
  <2>1. DOMAIN armed = {} /\ DOMAIN callbacks = {}
    BY Zenon DEF Init, EmptyRegistry
  <2>2. Uploaded \subseteq Nodes
    BY ReconcileAssumption, Zenon
  <2> QED BY <2>1, <2>2, Zenon DEF Init
<1>2. stopping = {} /\ \A n \in Nodes : register[n] = {}
  BY Zenon DEF Init
<1>3. Exposed = {}
  BY <1>1, <1>2, Zenon DEF Exposed, AtRisk
<1>4. Cardinality(Exposed) = 0
  BY <1>3, FS_EmptySet, Zenon
<1>5. /\ budget["crash"] = MaxCrashes /\ MaxCrashes \in Nat
      /\ budget["stop"] = MaxStops /\ MaxStops \in Nat
  BY ReconcileAssumption, Zenon DEF Init, Bounds, Mishaps
<1>6. DeletesReported
  BY <1>1, Zenon DEF DeletesReported
<1>7. Cardinality(Exposed) <= Departures
  BY <1>4, <1>5 DEF Departures
<1> QED BY <1>6, <1>7, Zenon DEF SInv

\* SInv is inductive, given the types.
LEMMA SNext == RInv /\ SInv /\ [Next]_vars => SInv'
<1> SUFFICES ASSUME RInv, SInv, [Next]_vars PROVE SInv'
  BY Zenon
<1>1. TInv /\ TInv'
  BY RNext, Zenon DEF RInv
<1>2. CASE UNCHANGED vars
  <2>1. UNCHANGED <<up, copies, confirmed, stopping, register, armed, callbacks, budget>>
    BY <1>2, Zenon DEF vars, upload, departure
  <2>2. (\A m \in Nodes : AtRisk(m)' => AtRisk(m)) /\ DeletesReported'
    BY <2>1, Zenon DEF AtRisk, SInv, DeletesReported
  <2> QED BY <1>1, <2>1, <2>2, NotExposing, Zenon
<1>3. CASE \E n \in Nodes : NodeStep(n)
  BY <1>1, <1>3, StartExposes, DepartExposes, StoreExposes, Zenon DEF NodeStep
<1>4. CASE CommitChunk \/ \E n \in Nodes : LeaderStep(n)
  BY <1>1, <1>4, StoreExposes, TimerExposes, Zenon DEF LeaderStep
<1>5. CASE \E t \in Timers : Fire(t)
  BY <1>1, <1>5, TimerExposes, Zenon
<1>6. CASE \E t \in DOMAIN callbacks : CallbackStep(t)
  BY <1>1, <1>6, CallbackExposes, Zenon
<1> QED BY <1>2, <1>3, <1>4, <1>5, <1>6, Zenon DEF Next

-----------------------------------------------------------------------------
(* The theorems *)

\* The state of the registrations, timers, callbacks and repairs is well typed.
THEOREM TypeCorrect == Spec => []TypeOK
<1>1. RInv => TypeOK
  BY Zenon DEF RInv, TInv
<1> QED BY <1>1, RInit, RNext, PTL DEF Spec

\* ListedReplicasHold (ReconcileNode, evictStaleReplica): while only restarts
\* disturb a committed chunk, no copy is deleted that the FSM lists, for any
\* number of nodes, restarts, false alarms and overlapping timers.
THEOREM ListedReplicasHoldAlways == Spec => []ListedReplicasHold
<1>1. RInv => ListedReplicasHold
  BY Zenon DEF RInv, Restarts, ListedReplicasHold
<1> QED BY <1>1, RInit, RNext, PTL DEF Spec

\* NodesConform (Reconciler.Schedule, ReconcileNode): and once everything has
\* been handled, a running node has a copy exactly when the FSM lists it, but for
\* the copies of nodes that were evicted after they had registered again.
THEOREM NodesConformAtRest == Spec => []NodesConform
<1>1. RInv => NodesConform
  <2> SUFFICES ASSUME RInv, OnlyRestarts, Quiet, NEW n \in up
               PROVE  /\ n \in replicas => n \in copies
                      /\ n \notin overtaken /\ n \in copies => n \in replicas
    BY Zenon DEF NodesConform
  <2>1. Restarts /\ n \in Nodes
    BY Zenon DEF RInv, TInv, TypeOK
  <2>2. status[n] = "alive" /\ ~Pending(n)
    BY <2>1, Zenon DEF Quiet, Pending
  <2> QED BY <2>1, <2>2, Zenon DEF Restarts
<1> QED BY <1>1, RInit, RNext, PTL DEF Spec

\* ChunkSurvives (ReconcileNode, DeleteChunk): every node that the reconciler
\* makes delete its copy has crashed or shut down before, so a committed chunk is
\* on some disk as long as there were fewer crashes and shutdowns than nodes that
\* confirmed it, for any number of nodes and whatever the watcher, the repairs and
\* failed calls add.
THEOREM ChunkSurvivesDepartures == Spec => []ChunkSurvives
<1>1. RInv /\ SInv => ChunkSurvives
  <2> SUFFICES ASSUME RInv, SInv, copies = {}
               PROVE  ~(Cardinality(confirmed) > Departures)
    BY Zenon DEF ChunkSurvives
  <2>1. confirmed \in SUBSET Exposed
    BY ReconcileAssumption, Zenon DEF RInv, TInv, TypeOK, Exposed, AtRisk
  <2> DEFINE c == Cardinality(confirmed)
             d == Cardinality(Exposed)
  <2>2. c \in Nat /\ d \in Nat /\ c <= d
    BY <2>1, ExposedCount, Zenon
  <2>3. Departures \in Int /\ d <= Departures
    BY DeparturesCount, Zenon DEF RInv, SInv
  <2> HIDE DEF c, d
  <2>4. ~(c > Departures)
    BY <2>2, <2>3
  <2> QED BY <2>4, Zenon DEF c
<1> QED BY <1>1, RInit, RNext, SInit, SNext, PTL DEF Spec

=============================================================================

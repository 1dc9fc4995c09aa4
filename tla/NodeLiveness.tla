---------------------------- MODULE NodeLiveness ----------------------------
(***************************************************************************)
(* How the metadata servers decide that a storage node is dead: the node's *)
(* registration and heartbeats (src/storage/node.go, src/storage/service), *)
(* their handlers (src/metadata/server/node_handlers.go), and the sweep of *)
(* the watcher (src/metadata/watcher).                                     *)
(*                                                                         *)
(* The status of a node is replicated by Raft, and taken as one variable.  *)
(* LastSeen is not: heartbeats set it in the memory of the leader only.    *)
(* Time is counted in heartbeat intervals, and a LastSeen by its age.      *)
(***************************************************************************)
EXTENDS Naturals, FiniteSets

CONSTANTS
  Nodes,          \* storage nodes
  Peers,          \* metadata servers
  SuspectTimeout, \* in heartbeat intervals
  Restarting,     \* the nodes that may start again
  MaxStarts,      \* bound on how often these start
  MaxLost,        \* bound on the calls of nodes that fail
  MaxFailovers    \* bound on elections and restored snapshots

ASSUME NodeLivenessAssumption ==
  /\ SuspectTimeout \in Nat \ {0}
  /\ MaxStarts \in Nat \ {0} /\ MaxLost \in Nat /\ MaxFailovers \in Nat

VARIABLES
  running,    \* the nodes whose process runs
  due,        \* the nodes whose ticker has fired
  status,     \* node -> its status in the FSM, "unknown" if it has no entry
  leaderID,   \* the server that leads
  age,        \* server -> node -> now - LastSeen there
  sweeps,     \* server -> the nodes that its sweep has still to mark dead
  starts,     \* node -> how often it has started
  lost,       \* the calls that have failed
  failovers,  \* the elections and restored snapshots so far
  quiet,      \* history: node -> time since it last registered or was heard
  trusted     \* history: the nodes not silent for too long since they registered

livenessVars == <<running, due, status, leaderID, age, sweeps, starts, lost, failovers, quiet, trusted>>

history == <<quiet, trusted>>

\* Ages beyond the timeout are not told apart.
Ages == 0..(SuspectTimeout + 1)

Older(a) == IF a > SuspectTimeout THEN a ELSE a + 1

LivenessInit ==
  /\ running = {} /\ due = {}
  /\ status = [n \in Nodes |-> "unknown"]
  /\ leaderID \in Peers
  /\ age = [s \in Peers |-> [n \in Nodes |-> 0]]
  /\ sweeps = [s \in Peers |-> {}]
  /\ starts = [n \in Nodes |-> 0]
  /\ lost = 0 /\ failovers = 0
  /\ quiet = [n \in Nodes |-> 0] /\ trusted = {}

\* An interval passes, once every ticker that fired in the last one has been
\* served.
Tick ==
  /\ due = {}
  /\ due' = running
  /\ age' = [s \in Peers |-> [n \in Nodes |-> Older(age[s][n])]]
  /\ quiet' = [n \in Nodes |-> Older(quiet[n])]
  /\ trusted' = {n \in trusted : Older(quiet[n]) <= SuspectTimeout}
  /\ UNCHANGED <<running, status, leaderID, sweeps, starts, lost, failovers>>

LoseCall ==
  /\ lost < MaxLost
  /\ lost' = lost + 1

-----------------------------------------------------------------------------
(* The handlers of the leader *)

Listed(n) == \E s \in Peers : n \in sweeps[s]

\* Broken variant: LastSeen of a new entry is left at its zero value.
RegisterUnseen(n) ==
  /\ status' = [status EXCEPT ![n] = "alive"]
  /\ age' = IF status[n] # "unknown" THEN age
            ELSE [s \in Peers |-> [age[s] EXCEPT ![n] = SuspectTimeout + 1]]
  /\ quiet' = [quiet EXCEPT ![n] = 0]
  /\ trusted' = IF Listed(n) THEN trusted ELSE trusted \cup {n}

\* RegisterNode, and handleCmdRegisterNode at every server: LastSeen is set for
\* a new entry and kept in one that is updated.
RegisterNode(n) ==
  /\ status' = [status EXCEPT ![n] = "alive"]
  /\ age' = IF status[n] # "unknown" THEN age
            ELSE [s \in Peers |-> [age[s] EXCEPT ![n] = 0]]
  /\ quiet' = [quiet EXCEPT ![n] = 0]
  /\ trusted' = IF Listed(n) THEN trusted ELSE trusted \cup {n}

\* Heartbeat of a node that has an entry: UpdateLastSeen.  The status is not
\* looked at.
UpdateLastSeen(n) ==
  /\ age' = [age EXCEPT ![leaderID][n] = 0]
  /\ quiet' = [quiet EXCEPT ![n] = 0]
  /\ UNCHANGED <<status, trusted>>

-----------------------------------------------------------------------------
(* The storage nodes *)

\* RegisterWithMetadata: the caller logs a failure and goes on.
RegisterWithMetadata(n) ==
  \/ RegisterNode(n) /\ UNCHANGED lost
  \/ LoseCall /\ UNCHANGED <<status, age, history>>

\* Start: register, then start the ticker.
Start(n) ==
  /\ n \notin running /\ starts[n] < (IF n \in Restarting THEN MaxStarts ELSE 1)
  /\ starts' = [starts EXCEPT ![n] = @ + 1]
  /\ running' = running \cup {n}
  /\ RegisterWithMetadata(n)
  /\ UNCHANGED <<due, leaderID, sweeps, failovers>>

\* Broken variant: a heartbeat that is answered NotFound is only logged.
HeartbeatNoRetry(n) ==
  /\ n \in due
  /\ due' = due \ {n}
  /\ \/ status[n] # "unknown" /\ UpdateLastSeen(n) /\ UNCHANGED lost
     \/ status[n] = "unknown" /\ UNCHANGED <<status, age, history, lost>>
     \/ LoseCall /\ UNCHANGED <<status, age, history>>
  /\ UNCHANGED <<running, leaderID, sweeps, starts, failovers>>

\* One round of heartbeatTicker: a node that the leader does not know
\* registers, and any other failure is only logged.
Heartbeat(n) ==
  /\ n \in due
  /\ due' = due \ {n}
  /\ \/ status[n] # "unknown" /\ UpdateLastSeen(n) /\ UNCHANGED lost
     \/ status[n] = "unknown" /\ RegisterWithMetadata(n)
     \/ LoseCall /\ UNCHANGED <<status, age, history>>
  /\ UNCHANGED <<running, leaderID, sweeps, starts, failovers>>

\* DeregisterFromMetadata: a node without an entry is answered NotFound.
DeregisterFromMetadata(n) ==
  \/ /\ status' = IF status[n] = "unknown" THEN status
                  ELSE [status EXCEPT ![n] = "draining"]
     /\ UNCHANGED lost
  \/ LoseCall /\ UNCHANGED status

\* Broken variant: the ticker goes on.
StopTickerRuns(n) == running' = running \ {n} /\ UNCHANGED due

\* The ticker ends, and a round of it that is due does not take place.
StopAndWait(n) == running' = running \ {n} /\ due' = due \ {n}

\* Stop: the ticker ends before the node deregisters.
Stop(n) ==
  /\ n \in running
  /\ StopAndWait(n)
  /\ DeregisterFromMetadata(n)
  /\ UNCHANGED <<leaderID, age, sweeps, starts, failovers, history>>

CrashNode(n) ==
  /\ n \in running
  /\ running' = running \ {n} /\ due' = due \ {n}
  /\ UNCHANGED <<status, leaderID, age, sweeps, starts, lost, failovers, history>>

-----------------------------------------------------------------------------
(* The watcher *)

\* The nodes in the registry.
GetAllNodes == {n \in Nodes : status[n] # "unknown"}

\* The nodes that sweep of server s finds, from one read of the registry.
Stale(s) == {n \in GetAllNodes : status[n] = "alive" /\ age[s][n] > SuspectTimeout}

\* Broken variant: only one server, the first leader say, runs a watcher.
SweepReadOnce(s) ==
  /\ s = CHOOSE x \in Peers : TRUE
  /\ leaderID = s /\ sweeps[s] = {} /\ Stale(s) # {}
  /\ sweeps' = [sweeps EXCEPT ![s] = Stale(s)]
  /\ UNCHANGED <<running, due, status, leaderID, age, starts, lost, failovers, history>>

\* sweep: the leader check and GetAllNodes.  The loop comes later.
SweepRead(s) ==
  /\ leaderID = s /\ sweeps[s] = {} /\ Stale(s) # {}
  /\ sweeps' = [sweeps EXCEPT ![s] = Stale(s)]
  /\ UNCHANGED <<running, due, status, leaderID, age, starts, lost, failovers, history>>

\* sweep: CmdMarkNodeDead for one node of the list, whatever has happened to
\* the node meanwhile.  The proposal of a server that no longer leads fails.
SweepMark(s) ==
  /\ \E n \in sweeps[s] :
       /\ sweeps' = [sweeps EXCEPT ![s] = @ \ {n}]
       /\ status' = IF leaderID = s THEN [status EXCEPT ![n] = "dead"] ELSE status
  /\ UNCHANGED <<running, due, leaderID, age, starts, lost, failovers, history>>

\* Another server becomes the leader, with the LastSeen it has.
ElectLeader(s) ==
  /\ s # leaderID /\ failovers < MaxFailovers
  /\ failovers' = failovers + 1
  /\ leaderID' = s
  /\ UNCHANGED <<running, due, status, age, sweeps, starts, lost, history>>

\* A server restores a snapshot: LastSeen is not part of it (json:"-"), and is
\* the zero time for the nodes the snapshot holds.
Restore(s) ==
  /\ s # leaderID /\ failovers < MaxFailovers
  /\ failovers' = failovers + 1
  /\ age' = [age EXCEPT ![s] = [n \in Nodes |-> SuspectTimeout + 1]]
  /\ UNCHANGED <<running, due, status, leaderID, sweeps, starts, lost, history>>

LivenessNext ==
  \/ Tick
  \/ \E n \in Nodes : Start(n) \/ Heartbeat(n) \/ Stop(n) \/ CrashNode(n)
  \/ \E s \in Peers : SweepRead(s) \/ SweepMark(s) \/ ElectLeader(s) \/ Restore(s)

LivenessSpec == LivenessInit /\ [][LivenessNext]_livenessVars

\* Time passes, tickers are served, and every server sweeps again and again.
Fairness ==
  /\ WF_livenessVars(Tick)
  /\ \A n \in Nodes : WF_livenessVars(Heartbeat(n))
  /\ \A s \in Peers : WF_livenessVars(SweepRead(s) \/ SweepMark(s))

LivenessFairSpec == LivenessSpec /\ Fairness

-----------------------------------------------------------------------------
(* Properties *)

LivenessTypeOK ==
  /\ running \subseteq Nodes /\ due \subseteq running
  /\ status \in [Nodes -> {"unknown", "alive", "draining", "dead"}]
  /\ leaderID \in Peers
  /\ age \in [Peers -> [Nodes -> Ages]]
  /\ sweeps \in [Peers -> SUBSET Nodes]
  /\ starts \in [Nodes -> 0..MaxStarts]
  /\ lost \in 0..MaxLost /\ failovers \in 0..MaxFailovers
  /\ quiet \in [Nodes -> Ages] /\ trusted \subseteq Nodes

\* The comment at handleCmdRegisterNode: setting LastSeen will "prevent watcher
\* from marking as dead before first heartbeat".  A node that registered while
\* no sweep had it on its list, and that has not been silent for longer than
\* the timeout since, is not marked dead.
TrustedNeverDead == \A n \in trusted : status[n] # "dead"

\* What the code does guarantee: this holds for a node that started once, as
\* long as one server leads.  A stale list, lost heartbeats and deregistrations
\* do not break it.
TrustedAlive ==
  \A n \in trusted : starts[n] <= 1 /\ failovers = 0 => status[n] # "dead"

\* A node that stays down does not stay alive in the registry, also if the
\* leader changes, and a deregistration that failed does not hide it.
DeathDetected ==
  \A n \in Nodes : <>[](n \notin running) => <>[](status[n] # "alive")

\* "If registration fails, the node will retry via heartbeat": a node that
\* stays up gets an entry.
RegistrationRetried ==
  \A n \in Nodes : <>[](n \in running) => <>[](status[n] # "unknown")

=============================================================================

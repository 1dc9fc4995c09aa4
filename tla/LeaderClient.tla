---------------------------- MODULE LeaderClient ----------------------------
(***************************************************************************)
(* How a call reaches the leader of the metadata servers: the client that  *)
(* follows redirects and rotates through its seeds (src/internal/          *)
(* leaderclient), shared by the concurrent calls of one process, and the   *)
(* servers' side of it, the leader check and the redirect of every handler *)
(* (src/metadata/server/metadata_handler.go) and the registration of each  *)
(* new leader's address (src/metadata/app.go).                             *)
(*                                                                         *)
(* A server stands for its gRPC address as well.  Raft is external: one    *)
(* server is elected, the others learn of it later, and a deposed leader   *)
(* goes on for a while.                                                    *)
(***************************************************************************)
EXTENDS Naturals, Sequences, FiniteSets

CONSTANTS
  Servers,      \* the metadata servers
  Seeds,        \* seedAddrs, in their order
  Callers,      \* the goroutines that use one client
  Numbers,      \* to tell apart the connections to one server
  None,
  MaxAttempts,  \* retry.Policy.MaxAttempts
  Advertise,    \* METADATA_RAFT_ADVERTISE is set
  MaxMishaps    \* bound on elections, crashes, losses and Close together

ASSUME LeaderClientAssumption ==
  /\ IsFiniteSet(Servers) /\ None \notin Servers /\ Numbers # {}
  /\ Seeds \in Seq(Servers) /\ Seeds # << >>
  /\ MaxAttempts \in Nat \ {0}
  /\ Advertise \in BOOLEAN
  /\ MaxMishaps \in Nat

VARIABLES
  up,         \* the servers that run
  leader,     \* the server that Raft has elected, or None
  known,      \* server -> raft.Leader() there, or None
  registry,   \* the leaders whose addresses have been registered in the FSM
  leaderCh,   \* the servers that were elected and have not registered yet
  cache,      \* LeaderCache: conn (with currentAddr) and nextIdx % len(seedAddrs)
  open,       \* the connections that are not closed
  closed,     \* Close was called
  calls,      \* caller -> where its Invoke is
  expired,    \* the callers whose context is done
  calm,       \* history: the callers whose call nothing has disturbed
  mishaps     \* the elections, crashes, losses and Close so far

servers == <<up, leader, known, registry, leaderCh>>
client == <<cache, open, closed>>
vars == <<servers, client, calls, expired, calm, mishaps>>

\* A connection, with the server it was dialled for.
Conns == [addr : Servers, no : Numbers]

NoConn == [addr |-> None, no |-> None]

Call == [pc : {"idle", "conn", "invoke", "advance", "rotate", "swap", "ok", "failed"},
         attempt : 0..(MaxAttempts - 1),
         conn : Conns \cup {NoConn},    \* the connection taken from the cache
         new : Conns \cup {NoConn}]     \* the connection just dialled

Idle == [pc |-> "idle", attempt |-> 0, conn |-> NoConn, new |-> NoConn]

FirstConn == [addr |-> Seeds[1], no |-> CHOOSE i \in Numbers : TRUE]

\* New: grpc.NewClient does not connect, so the first seed is always taken.
Init ==
  /\ up = Servers
  /\ leader \in Servers
  /\ known = [s \in Servers |-> leader]
  /\ registry = {leader}
  /\ leaderCh = {}
  /\ cache = [conn |-> FirstConn, nextIdx |-> 0]
  /\ open = {FirstConn}
  /\ closed = FALSE
  /\ calls = [k \in Callers |-> Idle]
  /\ expired = {} /\ calm = {}
  /\ mishaps = 0

\* What happens to the servers or to another call disturbs every call.
Mishap ==
  /\ mishaps < MaxMishaps
  /\ mishaps' = mishaps + 1
  /\ calm' = {}

Running(k) == calls[k].pc \notin {"idle", "ok", "failed"}

-----------------------------------------------------------------------------
(* The metadata servers *)

\* Raft elects s.  The former leader does not know yet.
Elect(s) ==
  /\ s \in up /\ s # leader
  /\ Mishap
  /\ leader' = s
  /\ known' = [known EXCEPT ![s] = s]
  /\ leaderCh' = leaderCh \cup {s}
  /\ UNCHANGED <<up, registry, client, calls, expired>>

\* Server s hears from the leader, or misses it.
Learn(s) ==
  /\ s \in up /\ known[s] # leader
  /\ known' = [known EXCEPT ![s] = leader]
  /\ UNCHANGED <<up, leader, registry, leaderCh, client, calls, expired, calm, mishaps>>

\* The goroutine of Run that reads raft.LeaderCh(): a new leader registers.
\* The proposal of a server that has been deposed meanwhile fails, and so may
\* any other; the failure is logged and nothing repeats the registration.
registerInFSM(s) ==
  /\ s \in leaderCh /\ s \in up
  /\ leaderCh' = leaderCh \ {s}
  /\ \/ /\ known[s] = s /\ leader = s
        /\ registry' = registry \cup {s}
        /\ UNCHANGED <<calm, mishaps>>
     \/ /\ known[s] # s \/ leader # s
        /\ UNCHANGED <<registry, calm, mishaps>>
     \/ /\ Mishap
        /\ UNCHANGED registry
  /\ UNCHANGED <<up, leader, known, client, calls, expired>>

Crash(s) ==
  /\ up # {s} /\ s \in up
  /\ Mishap
  /\ up' = up \ {s}
  /\ leader' = IF leader = s THEN None ELSE leader
  /\ known' = [known EXCEPT ![s] = None]
  /\ leaderCh' = leaderCh \ {s}
  /\ UNCHANGED <<registry, client, calls, expired>>

\* Run of a process that starts again: it is a follower when it registers.
Restart(s) ==
  /\ s \notin up
  /\ up' = up \cup {s}
  /\ UNCHANGED <<leader, known, registry, leaderCh, client, calls, expired, calm, mishaps>>

-----------------------------------------------------------------------------
(* isLeader and leaderRedirect, at the head of every handler *)

isLeader(s) == known[s] = s

\* GetMetadataNodeByRaftAddr finds server t under the address that raft.Leader()
\* gives, which is the one that t advertises; it is registered under
\* Config.RaftAddr.
GetMetadataNodeByRaftAddr(t) == t \in registry /\ ~Advertise

\* A follower s finds the gRPC address of the leader it knows.
HasLeaderAddr(s) == GetMetadataNodeByRaftAddr(known[s])

-----------------------------------------------------------------------------
(* LeaderCache *)

\* The first half of Update: dial, before the lock is taken.
Dialled == {calls[k].new : k \in Callers} \ {NoConn}

\* The numbers of connections to addr that nobody refers to.
Unused(addr) ==
  {i \in Numbers : LET c == [addr |-> addr, no |-> i]
                   IN  /\ c \notin open /\ c # cache.conn
                       /\ \A k \in Callers : c # calls[k].conn /\ c # calls[k].new}

NewClient(k, addr) ==
  /\ Unused(addr) # {}
  /\ LET c == [addr |-> addr, no |-> CHOOSE i \in Unused(addr) : TRUE]
     IN  /\ open' = open \cup {c}
         /\ calls' = [calls EXCEPT ![k].pc = "swap", ![k].conn = NoConn, ![k].new = c]

\* Broken variant: the replaced connection is not closed.
SwapKeepsOld(c) ==
  IF cache.conn.addr = c.addr
    THEN /\ open' = open \ {c}
         /\ UNCHANGED cache
    ELSE /\ cache' = [cache EXCEPT !.conn = c]
         /\ UNCHANGED open

\* The second half of Update, under the lock.
Swap(c) ==
  IF cache.conn.addr = c.addr
    THEN /\ open' = open \ {c}
         /\ UNCHANGED cache
    ELSE /\ cache' = [cache EXCEPT !.conn = c]
         /\ open' = open \ {cache.conn}

NextAddr == Seeds[cache.nextIdx + 1]

\* Broken variant: the index stays.
AdvanceSkipped == UNCHANGED cache

AdvanceNextIdx == cache' = [cache EXCEPT !.nextIdx = (@ + 1) % Len(Seeds)]

\* Close leaves the connection in the cache.
Close ==
  /\ ~closed /\ Mishap
  /\ closed' = TRUE
  /\ open' = open \ {cache.conn}
  /\ UNCHANGED <<servers, cache, calls, expired>>

-----------------------------------------------------------------------------
(* LeaderAwareClient.Invoke *)

Goto(k, pc) == calls' = [calls EXCEPT ![k].pc = pc]

Return(k, result) ==
  calls' = [calls EXCEPT ![k] = [Idle EXCEPT !.pc = result]]

Quiet ==
  /\ leader # None /\ leaderCh = {}
  /\ \A s \in up : known[s] = leader

\* A caller calls, unless it has closed the client.
Begin(k) ==
  /\ ~Running(k) /\ ~closed
  /\ calls' = [calls EXCEPT ![k] = [Idle EXCEPT !.pc = "conn"]]
  /\ expired' = expired \ {k}
  /\ calm' = {j \in {k} : Quiet /\ \A i \in Callers : ~Running(i)}
  /\ UNCHANGED <<servers, client, mishaps>>

\* The head of the loop: ctx.Err(), then cache.Conn().
Conn(k) ==
  /\ calls[k].pc = "conn"
  /\ IF k \in expired THEN Return(k, "failed")
     ELSE calls' = [calls EXCEPT ![k].pc = "invoke", ![k].conn = cache.conn]
  /\ UNCHANGED <<servers, client, expired, calm, mishaps>>

\* Broken variant: one attempt too many.
NextAttemptLate(k) ==
  IF calls[k].attempt + 1 <= MaxAttempts
    THEN calls' = [calls EXCEPT ![k].pc = "conn", ![k].attempt = @ + 1,
                                ![k].new = NoConn]
    ELSE Return(k, "failed")

\* The attempts end with the last one, also if it was a redirect.
NextAttempt(k) ==
  IF calls[k].attempt + 1 < MaxAttempts
    THEN calls' = [calls EXCEPT ![k].pc = "conn", ![k].attempt = @ + 1,
                                ![k].new = NoConn]
    ELSE Return(k, "failed")

\* A retryable code, or FailedPrecondition without an address.
Retry(k) ==
  IF calls[k].attempt + 1 < MaxAttempts
    THEN calls' = [calls EXCEPT ![k].pc = "advance", ![k].conn = NoConn]
    ELSE Return(k, "failed")

\* The handler of a leader answers.  A deposed leader's proposal fails with
\* codes.Internal, which is not retried.
Handled(k) ==
  LET s == calls[k].conn.addr
  IN  /\ calls[k].pc = "invoke" /\ calls[k].conn \in open
      /\ s \in up /\ isLeader(s)
      /\ Return(k, IF leader = s THEN "ok" ELSE "failed")
      /\ UNCHANGED <<servers, client, expired, calm, mishaps>>

\* Broken variant: a redirect is treated as a server that is not available.
RedirectIgnored(k) ==
  LET s == calls[k].conn.addr
  IN  /\ calls[k].pc = "invoke" /\ calls[k].conn \in open
      /\ s \in up /\ ~isLeader(s) /\ HasLeaderAddr(s)
      /\ Retry(k)
      /\ UNCHANGED <<servers, client, expired, calm, mishaps>>

\* A follower redirects: Update of the cache, up to its lock.
Redirected(k) ==
  LET s == calls[k].conn.addr
  IN  /\ calls[k].pc = "invoke" /\ calls[k].conn \in open
      /\ s \in up /\ ~isLeader(s) /\ HasLeaderAddr(s)
      /\ NewClient(k, known[s])
      /\ UNCHANGED <<servers, cache, closed, expired, calm, mishaps>>

\* The server is down, knows no leader, or knows no address for it.
Unavailable(k) ==
  LET s == calls[k].conn.addr
  IN  /\ calls[k].pc = "invoke" /\ calls[k].conn \in open
      /\ s \notin up \/ (~isLeader(s) /\ ~HasLeaderAddr(s))
      /\ Retry(k)
      /\ UNCHANGED <<servers, client, expired, calm, mishaps>>

\* The connection was closed: Canceled if the request had not left yet, which
\* is not retried, or else Unavailable.
Broken(k) ==
  /\ calls[k].pc = "invoke" /\ calls[k].conn \notin open
  /\ Retry(k) \/ Return(k, "failed")
  /\ UNCHANGED <<servers, client, expired, calm, mishaps>>

\* The request or the reply is lost with the transport (Unavailable), or the
\* deadline of the call passes: DeadlineExceeded is retryable, so the shared
\* cache is rotated before the loop looks at the context again.
Lose(k) ==
  /\ calls[k].pc = "invoke"
  /\ Mishap
  /\ Retry(k)
  /\ expired' \in {expired, expired \cup {k}}
  /\ UNCHANGED <<servers, client>>

Advance(k) ==
  /\ calls[k].pc = "advance"
  /\ AdvanceNextIdx
  /\ Goto(k, "rotate")
  /\ UNCHANGED <<servers, open, closed, expired, calm, mishaps>>

\* Update(NextAddr()), up to its lock.
Rotate(k) ==
  /\ calls[k].pc = "rotate"
  /\ NewClient(k, NextAddr)
  /\ UNCHANGED <<servers, cache, closed, expired, calm, mishaps>>

\* Update: the second half, and the way to the next attempt.
Update(k) ==
  /\ calls[k].pc = "swap"
  /\ Swap(calls[k].new)
  /\ NextAttempt(k)
  /\ UNCHANGED <<servers, closed, expired, calm, mishaps>>

Step(k) ==
  \/ Conn(k) \/ Handled(k) \/ Redirected(k) \/ Unavailable(k) \/ Broken(k)
  \/ Advance(k) \/ Rotate(k) \/ Update(k)

Next ==
  \/ \E s \in Servers : \/ Elect(s) \/ Learn(s) \/ registerInFSM(s)
                        \/ Crash(s) \/ Restart(s)
  \/ Close
  \/ \E k \in Callers : Begin(k) \/ Step(k) \/ Lose(k)

Spec == Init /\ [][Next]_vars

\* The servers go on, and so do the calls; a caller that is idle calls again,
\* as the heartbeat ticker of a storage node does.
FairSpec ==
  /\ Spec
  /\ WF_vars(\E s \in Servers : Learn(s) \/ registerInFSM(s))
  /\ \A k \in Callers : WF_vars(Begin(k) \/ Step(k))

-----------------------------------------------------------------------------
(* Properties *)

TypeOK ==
  /\ up \subseteq Servers /\ leader \in Servers \cup {None}
  /\ known \in [Servers -> Servers \cup {None}]
  /\ registry \subseteq Servers /\ leaderCh \subseteq Servers
  /\ cache \in [conn : Conns, nextIdx : 0..(Len(Seeds) - 1)]
  /\ open \subseteq Conns /\ closed \in BOOLEAN
  /\ calls \in [Callers -> Call]
  /\ expired \subseteq Callers /\ calm \subseteq Callers
  /\ mishaps \in 0..MaxMishaps

\* Concurrent calls of Update leave no connection open that nobody refers to:
\* the open ones are the one in the cache and those that a running Update has
\* just dialled.  Until Close, the one in the cache is open.
ConnectionsOwned ==
  /\ open \subseteq {cache.conn} \cup Dialled
  /\ ~closed => cache.conn \in open

\* Invoke with more attempts than seeds reaches the leader: a call that begins
\* when every server knows the leader, and during which no server fails, no
\* message is lost and no other call begins, does not fail, wherever the cache
\* points and whether or not redirects carry an address.
UndisturbedSucceeds ==
  \A k \in calm : calls[k].pc # "failed"

\* Once a leader stays and all servers run, redirects bring the shared cache
\* to the leader for good, whatever concurrent calls did to it before.  A
\* redirect needs the address registered, and under the one Raft reports.
\* (Without redirects, two callers that advance the index in step may skip the
\* leader for ever.)
CacheConverges ==
  <>[](\/ closed \/ up # Servers \/ leader \notin registry \/ Advertise
       \/ cache.conn.addr = leader)

=============================================================================

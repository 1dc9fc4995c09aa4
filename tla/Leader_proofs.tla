--------------------------- MODULE Leader_proofs ---------------------------
(***************************************************************************)
(* Clients and nodes of a leader that may change.  LeaderClient: the       *)
(* connections of LeaderCache, and what a call that nothing disturbs       *)
(* returns, for any servers, seeds, callers and attempts.  NodeLiveness:   *)
(* what the leader's watcher guarantees to a node that keeps up its        *)
(* heartbeats, for any nodes, servers and timeout.                         *)
(***************************************************************************)
EXTENDS LeaderClient, NodeLiveness, TLAPS

USE DEF GetMetadataNodeByRaftAddr

-----------------------------------------------------------------------------
(* Type correctness *)

\* NoConn is not a connection.
LEMMA NoConnIsNone == NoConn \notin Conns
BY LeaderClientAssumption, Zenon DEF NoConn, Conns

\* Every seed is a server.
LEMMA SeedsAreServers ==
  /\ Len(Seeds) \in Nat \ {0}
  /\ \A i \in 0..(Len(Seeds) - 1) : Seeds[i + 1] \in Servers
BY LeaderClientAssumption

\* The first connection is one.
LEMMA FirstConnType == FirstConn \in Conns
BY SeedsAreServers, LeaderClientAssumption DEF FirstConn, Conns

\* A caller that is not in a call.
LEMMA IdleType == Idle \in Call
BY LeaderClientAssumption DEF Idle, Call

\* New leaves a well-typed client.
LEMMA TypeOKInit == Init => TypeOK
<1> SUFFICES ASSUME Init PROVE TypeOK
  BY Zenon
<1>1. cache \in [conn : Conns, nextIdx : 0..(Len(Seeds) - 1)] /\ open \subseteq Conns
  BY FirstConnType, SeedsAreServers DEF Init
<1>2. calls \in [Callers -> Call] /\ mishaps \in 0..MaxMishaps
  BY IdleType, LeaderClientAssumption DEF Init
<1>3. known \in [Servers -> Servers \cup {None}]
  BY Zenon DEF Init
<1>4. QED
  BY <1>1, <1>2, <1>3, Zenon DEF Init, TypeOK

\* No event at the servers, and not Close, breaks a type.
LEMMA TypeOKServers ==
  ASSUME TypeOK,
         (\E s \in Servers : \/ Elect(s) \/ Learn(s) \/ registerInFSM(s)
                             \/ Crash(s) \/ Restart(s)) \/ Close
  PROVE  TypeOK'
<1> USE LeaderClientAssumption DEF TypeOK, Mishap, servers, client
<1>1. ASSUME NEW s \in Servers, Elect(s) PROVE TypeOK'
  BY <1>1 DEF Elect
<1>2. ASSUME NEW s \in Servers, Learn(s) PROVE TypeOK'
  BY <1>2, Zenon DEF Learn
<1>3. ASSUME NEW s \in Servers, registerInFSM(s) PROVE TypeOK'
  BY <1>3 DEF registerInFSM
<1>4. ASSUME NEW s \in Servers, Crash(s) PROVE TypeOK'
  BY <1>4 DEF Crash
<1>5. ASSUME NEW s \in Servers, Restart(s) PROVE TypeOK'
  BY <1>5, Zenon DEF Restart
<1>6. ASSUME Close PROVE TypeOK'
  BY <1>6 DEF Close
<1>7. QED
  BY <1>1, <1>2, <1>3, <1>4, <1>5, <1>6, Zenon

\* A call returns, tries again, or goes on to another attempt.
LEMMA CallTypes ==
  ASSUME TypeOK, NEW k \in Callers
  PROVE  /\ \A r \in {"ok", "failed"} : Return(k, r) => calls' \in [Callers -> Call]
         /\ Retry(k) => calls' \in [Callers -> Call]
         /\ NextAttempt(k) => calls' \in [Callers -> Call]
<1>1. ASSUME NEW r \in {"ok", "failed"}, Return(k, r) PROVE calls' \in [Callers -> Call]
  BY <1>1, LeaderClientAssumption DEF Return, TypeOK, Call, Idle
<1>2. Return(k, "failed") => calls' \in [Callers -> Call]
  BY <1>1, Zenon
<1>3. ASSUME Retry(k) PROVE calls' \in [Callers -> Call]
  BY <1>2, <1>3 DEF Retry, TypeOK, Call
<1>4. ASSUME NextAttempt(k) PROVE calls' \in [Callers -> Call]
  <2>1. CASE calls[k].attempt + 1 < MaxAttempts
    <3>1. calls[k].attempt + 1 \in 0..(MaxAttempts - 1)
      BY <2>1, LeaderClientAssumption DEF TypeOK, Call
    <3>2. QED
      BY <1>4, <2>1, <3>1 DEF NextAttempt, TypeOK, Call
  <2>2. CASE ~(calls[k].attempt + 1 < MaxAttempts)
    BY <1>2, <1>4, <2>2, Zenon DEF NextAttempt
  <2>3. QED
    BY <2>1, <2>2, Zenon
<1>5. QED
  BY <1>1, <1>3, <1>4, Zenon

\* A dialled connection has a name that nobody uses.
LEMMA NewClientIs ==
  ASSUME TypeOK, NEW k \in Callers, NEW addr \in Servers, NewClient(k, addr)
  PROVE  \E c \in Conns :
           /\ c \notin open /\ c # cache.conn
           /\ \A j \in Callers : c # calls[j].new
           /\ open' = open \cup {c}
           /\ calls' = [calls EXCEPT ![k].pc = "swap", ![k].conn = NoConn, ![k].new = c]
<1> DEFINE i == CHOOSE i \in Unused(addr) : TRUE
           c == [addr |-> addr, no |-> i]
<1>1. i \in Unused(addr)
  BY Zenon DEF NewClient
<1>2. c \in Conns /\ c \notin open /\ c # cache.conn /\ \A j \in Callers : c # calls[j].new
  BY <1>1, Zenon DEF Unused, Conns
<1>3. /\ open' = open \cup {c}
      /\ calls' = [calls EXCEPT ![k].pc = "swap", ![k].conn = NoConn, ![k].new = c]
  BY Zenon DEF NewClient
<1>4. QED
  BY <1>2, <1>3, Zenon

\* The address of a redirect, and the next seed, are servers.
LEMMA AddressTypes ==
  ASSUME TypeOK
  PROVE  /\ \A s \in up : HasLeaderAddr(s) => known[s] \in Servers
         /\ NextAddr \in Servers
BY SeedsAreServers, Zenon DEF TypeOK, HasLeaderAddr, NextAddr

\* What makes ConnectionsOwned inductive: an Update between its halves holds an
\* open connection of its own, not the one in the cache and not that of
\* another Update.
Owned ==
  /\ ConnectionsOwned
  /\ \A k \in Callers : calls[k].pc = "swap" <=> calls[k].new # NoConn
  /\ \A k \in Callers : calls[k].new # NoConn =>
        /\ calls[k].new \in open
        /\ calls[k].new # cache.conn
        /\ \A j \in Callers \ {k} : calls[j].new # calls[k].new

\* No step of a call breaks a type.
LEMMA TypeOKCalls ==
  ASSUME TypeOK, Owned, NEW k \in Callers, Begin(k) \/ Step(k) \/ Lose(k)
  PROVE  TypeOK'
<1>1. ASSUME NEW addr \in Servers, NewClient(k, addr)
      PROVE  open' \subseteq Conns /\ calls' \in [Callers -> Call]
  <2>1. PICK c \in Conns :
          /\ open' = open \cup {c}
          /\ calls' = [calls EXCEPT ![k].pc = "swap", ![k].conn = NoConn, ![k].new = c]
    BY <1>1, NewClientIs, Zenon
  <2>2. [calls[k] EXCEPT !.pc = "swap", !.conn = NoConn, !.new = c] \in Call
    BY Zenon DEF TypeOK, Call
  <2>3. calls' = [calls EXCEPT ![k] = [calls[k] EXCEPT !.pc = "swap", !.conn = NoConn, !.new = c]]
    BY <2>1, Zenon
  <2>4. QED
    BY <2>1, <2>2, <2>3, SMTT(20) DEF TypeOK
<1>2. CASE Begin(k)
  <2>1. [Idle EXCEPT !.pc = "conn"] \in Call
    BY IdleType, Zenon DEF Call
  <2>2. calls' \in [Callers -> Call]
    BY <1>2, <2>1, Zenon DEF Begin, TypeOK
  <2>3. expired' \subseteq Callers /\ calm' \subseteq Callers
    BY <1>2, Zenon DEF Begin, TypeOK
  <2>4. QED
    BY <1>2, <2>2, <2>3, Zenon DEF Begin, TypeOK, servers, client
<1>3. CASE Conn(k)
  <2>1. calls' \in [Callers -> Call]
    <3>1. Return(k, "failed") => calls' \in [Callers -> Call]
      BY CallTypes, Zenon
    <3>2. cache.conn \in Conns
      BY Zenon DEF TypeOK
    <3>3. [calls[k] EXCEPT !.pc = "invoke", !.conn = cache.conn] \in Call
      BY <3>2, Zenon DEF TypeOK, Call
    <3>4. calls' = [calls EXCEPT ![k] = [calls[k] EXCEPT !.pc = "invoke", !.conn = cache.conn]]
            => calls' \in [Callers -> Call]
      BY <3>3, Zenon DEF TypeOK
    <3>5. QED
      BY <1>3, <3>1, <3>4, Zenon DEF Conn
  <2>2. QED
    BY <1>3, <2>1, Zenon DEF Conn, TypeOK, servers, client
<1>4. CASE Handled(k)
  <2>1. calls' \in [Callers -> Call]
    BY <1>4, CallTypes, Zenon DEF Handled
  <2>2. QED
    BY <1>4, <2>1, Zenon DEF Handled, TypeOK, servers, client
<1>5. CASE Redirected(k)
  BY <1>1, <1>5, AddressTypes, Zenon DEF Redirected, TypeOK, servers
<1>6. CASE Unavailable(k)
  BY <1>6, CallTypes, Zenon DEF Unavailable, TypeOK, servers, client
<1>7. CASE Broken(k)
  BY <1>7, CallTypes, Zenon DEF Broken, TypeOK, servers, client
<1>8. CASE Lose(k)
  BY <1>8, CallTypes, LeaderClientAssumption DEF Lose, Mishap, TypeOK, servers, client
<1>9. CASE Advance(k)
  <2>1. cache' \in [conn : Conns, nextIdx : 0..(Len(Seeds) - 1)]
    <3>1. (cache.nextIdx + 1) % Len(Seeds) \in 0..(Len(Seeds) - 1)
      BY SeedsAreServers DEF TypeOK
    <3>2. cache' = [cache EXCEPT !.nextIdx = (cache.nextIdx + 1) % Len(Seeds)]
      BY <1>9, Zenon DEF Advance, AdvanceNextIdx
    <3>3. QED
      BY <3>1, <3>2, Zenon DEF TypeOK
  <2>2. calls' \in [Callers -> Call]
    <3>1. [calls[k] EXCEPT !.pc = "rotate"] \in Call
      BY DEF TypeOK, Call
    <3>2. calls' = [calls EXCEPT ![k] = [calls[k] EXCEPT !.pc = "rotate"]]
      BY <1>9, Zenon DEF Advance, Goto
    <3>3. QED
      BY <3>1, <3>2, Zenon DEF TypeOK
  <2>3. QED
    BY <1>9, <2>1, <2>2, Zenon DEF Advance, TypeOK, servers
<1>10. CASE Rotate(k)
  BY <1>1, <1>10, AddressTypes, Zenon DEF Rotate, TypeOK, servers
<1>11. CASE Update(k)
  <2>1. calls[k].new \in Conns
    <3>1. calls[k].new # NoConn
      BY <1>11, Zenon DEF Update, Owned
    <3>2. calls[k].new \in Conns \cup {NoConn}
      BY Zenon DEF TypeOK, Call
    <3>3. QED
      BY <3>1, <3>2, Zenon
  <2>2. cache' \in [conn : Conns, nextIdx : 0..(Len(Seeds) - 1)] /\ open' \subseteq Conns
    <3>1. [cache EXCEPT !.conn = calls[k].new] \in [conn : Conns, nextIdx : 0..(Len(Seeds) - 1)]
      BY <2>1, Zenon DEF TypeOK
    <3>2. cache' \in {cache, [cache EXCEPT !.conn = calls[k].new]} /\ open' \subseteq open
      BY <1>11, Zenon DEF Update, Swap
    <3>3. QED
      BY <3>1, <3>2, Zenon DEF TypeOK
  <2>3. QED
    BY <1>11, <2>2, CallTypes, Zenon DEF Update, TypeOK, servers
<1>12. QED
  BY <1>2, <1>3, <1>4, <1>5, <1>6, <1>7, <1>8, <1>9, <1>10, <1>11, Zenon DEF Step

-----------------------------------------------------------------------------
(* Ownership of the connections *)

\* New dials one connection, and the cache has it.
LEMMA OwnedInit == Init => Owned
BY DEF Init, Owned, ConnectionsOwned, Dialled, Idle

\* What a step that neither dials nor swaps leaves as it is.
LEMMA OwnedKept ==
  ASSUME TypeOK, Owned, calls' \in [Callers -> Call],
         UNCHANGED <<open, closed>>, cache'.conn = cache.conn,
         \A k \in Callers : /\ calls'[k].new = calls[k].new
                            /\ calls'[k].pc = "swap" <=> calls[k].pc = "swap"
  PROVE  Owned'
<1>1. Dialled' = Dialled
  BY Zenon DEF Dialled
<1>2. ConnectionsOwned'
  BY <1>1, Zenon DEF Owned, ConnectionsOwned
<1>3. QED
  BY <1>2 DEF Owned

\* Redirected and Rotate: the connection just dialled is new to everyone.
LEMMA OwnedDialled ==
  ASSUME TypeOK, Owned, NEW k \in Callers, calls[k].pc # "swap",
         NEW addr \in Servers, NewClient(k, addr), UNCHANGED <<cache, closed>>
  PROVE  Owned'
<1>1. PICK c \in Conns :
        /\ c \notin open /\ c # cache.conn
        /\ \A j \in Callers : c # calls[j].new
        /\ open' = open \cup {c}
        /\ calls' = [calls EXCEPT ![k].pc = "swap", ![k].conn = NoConn, ![k].new = c]
  BY NewClientIs, Zenon
<1>2. c # NoConn
  BY NoConnIsNone, Zenon
<1>3. calls[k].new = NoConn
  BY Zenon DEF Owned
<1>4. /\ calls'[k].new = c /\ calls'[k].pc = "swap"
      /\ \A j \in Callers \ {k} : calls'[j] = calls[j]
  BY <1>1, Zenon DEF TypeOK, Call
<1>5. Dialled' = Dialled \cup {c}
  BY <1>2, <1>3, <1>4, Zenon DEF Dialled
<1>6. ConnectionsOwned'
  BY <1>1, <1>5, Zenon DEF Owned, ConnectionsOwned
<1>7. \A j \in Callers : calls'[j].pc = "swap" <=> calls'[j].new # NoConn
  BY <1>2, <1>4, Zenon DEF Owned
<1>8. ASSUME NEW j \in Callers, calls'[j].new # NoConn
      PROVE  /\ calls'[j].new \in open'
             /\ calls'[j].new # cache'.conn
             /\ \A i \in Callers \ {j} : calls'[i].new # calls'[j].new
  <2>1. /\ c \notin open /\ c # cache.conn /\ open' = open \cup {c} /\ cache' = cache
        /\ \A i \in Callers : c # calls[i].new
    BY <1>1, Zenon
  <2>2. CASE j = k
    BY <1>4, <2>1, <2>2, Zenon
  <2>3. CASE j # k
    <3>1. calls'[j].new = calls[j].new /\ calls[j].new # NoConn
      BY <1>4, <1>8, <2>3, Zenon
    <3>2. /\ calls[j].new \in open /\ calls[j].new # cache.conn
          /\ \A i \in Callers \ {j} : calls[i].new # calls[j].new
      BY <3>1, Zenon DEF Owned
    <3>3. ASSUME NEW i \in Callers \ {j} PROVE calls'[i].new # calls'[j].new
      BY <1>4, <2>1, <3>1, <3>2, Zenon
    <3>4. QED
      BY <2>1, <3>1, <3>2, <3>3, Zenon
  <2>4. QED
    BY <2>2, <2>3, Zenon
<1>9. QED
  BY <1>6, <1>7, <1>8, Zenon DEF Owned

\* The locked half of Update closes exactly one connection: its own if the
\* cache has the address already, or else the one that it replaces.
LEMMA OwnedSwapped ==
  ASSUME TypeOK, Owned, NEW k \in Callers, Update(k)
  PROVE  Owned'
<1> DEFINE c == calls[k].new
<1>1. c # NoConn /\ c \in open /\ c # cache.conn
  BY Zenon DEF Update, Owned
<1>2. /\ calls'[k].new = NoConn /\ calls'[k].pc # "swap"
      /\ \A j \in Callers \ {k} : calls'[j] = calls[j]
  BY DEF Update, NextAttempt, Return, Idle, TypeOK, Call
<1>3. Dialled' = Dialled \ {c}
  BY <1>1, <1>2 DEF Dialled, Owned
<1>4. \A j \in Callers : calls'[j].pc = "swap" <=> calls'[j].new # NoConn
  BY <1>2, Zenon DEF Owned
<1>5. CASE cache.conn.addr = c.addr
  <2>1. open' = open \ {c} /\ cache' = cache /\ closed' = closed
    BY <1>5, Zenon DEF Update, Swap
  <2>2. ConnectionsOwned'
    BY <1>1, <1>3, <2>1, Zenon DEF Owned, ConnectionsOwned
  <2>3. QED
    BY <1>1, <1>2, <1>4, <2>1, <2>2 DEF Owned
<1>6. CASE cache.conn.addr # c.addr
  <2>1. open' = open \ {cache.conn} /\ cache'.conn = c /\ closed' = closed
    BY <1>6, Zenon DEF Update, Swap, TypeOK
  <2>2. ConnectionsOwned'
    BY <1>1, <1>3, <2>1, Zenon DEF Owned, ConnectionsOwned
  <2>3. QED
    BY <1>1, <1>2, <1>4, <2>1, <2>2 DEF Owned
<1>7. QED
  BY <1>5, <1>6, Zenon

\* Close closes the connection in the cache, which no Update holds.
LEMMA OwnedClose == ASSUME TypeOK, Owned, Close PROVE Owned'
<1>1. open' = open \ {cache.conn} /\ closed' = TRUE /\ cache' = cache /\ calls' = calls
  BY Zenon DEF Close
<1>2. Dialled' = Dialled
  BY <1>1, Zenon DEF Dialled
<1>3. ConnectionsOwned'
  BY <1>1, <1>2, Zenon DEF Owned, ConnectionsOwned
<1>4. QED
  BY <1>1, <1>3, Zenon DEF Owned

\* A step of a call.
LEMMA OwnedCalls ==
  ASSUME TypeOK, Owned, NEW k \in Callers, Begin(k) \/ Step(k) \/ Lose(k)
  PROVE  Owned'
<1>1. calls' \in [Callers -> Call]
  BY TypeOKCalls, Zenon DEF TypeOK
<1>2. ASSUME calls[k].pc # "swap", Retry(k) \/ \E r \in {"ok", "failed"} : Return(k, r)
      PROVE  \A j \in Callers : /\ calls'[j].new = calls[j].new
                                /\ calls'[j].pc = "swap" <=> calls[j].pc = "swap"
  <2>1. calls[k].new = NoConn
    BY <1>2, Zenon DEF Owned
  <2>2. calls'[k].new = NoConn /\ calls'[k].pc # "swap"
    BY <1>2, <2>1 DEF Retry, Return, Idle, TypeOK, Call
  <2>3. \A j \in Callers \ {k} : calls'[j] = calls[j]
    BY <1>2, Zenon DEF Retry, Return, TypeOK
  <2>4. QED
    BY <1>2, <2>1, <2>2, <2>3, Zenon
<1>3. CASE Begin(k)
  <2>1. calls[k].new = NoConn
    BY <1>3, Zenon DEF Begin, Running, Owned
  <2>2. calls'[k].new = NoConn /\ calls'[k].pc # "swap" /\ calls[k].pc # "swap"
    BY <1>3, Zenon DEF Begin, Running, Idle, TypeOK, Call
  <2>3. \A j \in Callers \ {k} : calls'[j] = calls[j]
    BY <1>3, Zenon DEF Begin, TypeOK
  <2>4. QED
    BY <1>1, <1>3, <2>1, <2>2, <2>3, OwnedKept, Zenon DEF Begin, client
<1>4. CASE Conn(k)
  <2>1. CASE k \in expired
    BY <1>1, <1>2, <1>4, <2>1, OwnedKept, Zenon DEF Conn, client
  <2>2. CASE k \notin expired
    <3>1. calls' = [calls EXCEPT ![k].pc = "invoke", ![k].conn = cache.conn]
      BY <1>4, <2>2, Zenon DEF Conn
    <3>2. \A j \in Callers : /\ calls'[j].new = calls[j].new
                             /\ calls'[j].pc = "swap" <=> calls[j].pc = "swap"
      BY <1>4, <3>1, Zenon DEF Conn, TypeOK, Call
    <3>3. QED
      BY <1>1, <1>4, <3>2, OwnedKept, Zenon DEF Conn, client
  <2>3. QED
    BY <2>1, <2>2, Zenon
<1>5. CASE Handled(k)
  BY <1>1, <1>2, <1>5, OwnedKept, Zenon DEF Handled, client
<1>6. CASE Redirected(k)
  BY <1>6, AddressTypes, OwnedDialled, Zenon DEF Redirected
<1>7. CASE Unavailable(k)
  BY <1>1, <1>2, <1>7, OwnedKept, Zenon DEF Unavailable, client
<1>8. CASE Broken(k)
  BY <1>1, <1>2, <1>8, OwnedKept, Zenon DEF Broken, client
<1>9. CASE Lose(k)
  BY <1>1, <1>2, <1>9, OwnedKept, Zenon DEF Lose, client
<1>10. CASE Advance(k)
  <2>1. \A j \in Callers : /\ calls'[j].new = calls[j].new
                           /\ calls'[j].pc = "swap" <=> calls[j].pc = "swap"
    BY <1>10, Zenon DEF Advance, Goto, TypeOK, Call
  <2>2. cache'.conn = cache.conn
    BY <1>10, Zenon DEF Advance, AdvanceNextIdx, TypeOK
  <2>3. QED
    BY <1>1, <1>10, <2>1, <2>2, OwnedKept, Zenon DEF Advance
<1>11. CASE Rotate(k)
  BY <1>11, AddressTypes, OwnedDialled, Zenon DEF Rotate
<1>12. CASE Update(k)
  BY <1>12, OwnedSwapped, Zenon
<1>13. QED
  BY <1>3, <1>4, <1>5, <1>6, <1>7, <1>8, <1>9, <1>10, <1>11, <1>12, Zenon DEF Step

\* Type correctness and ownership are inductive together: the connection that
\* Update puts into the cache is one because the Update still owns it.
LEMMA CacheInductive == TypeOK /\ Owned /\ [Next]_vars => (TypeOK /\ Owned)'
<1> SUFFICES ASSUME TypeOK, Owned, [Next]_vars PROVE (TypeOK /\ Owned)'
  BY Zenon
<1>1. CASE \E s \in Servers : \/ Elect(s) \/ Learn(s) \/ registerInFSM(s)
                              \/ Crash(s) \/ Restart(s)
  <2>1. TypeOK'
    BY <1>1, TypeOKServers, Zenon
  <2>2. UNCHANGED <<client, calls>>
    BY <1>1, Zenon DEF Elect, Learn, registerInFSM, Crash, Restart
  <2>3. QED
    BY <2>1, <2>2, OwnedKept, Zenon DEF client, TypeOK
<1>2. CASE Close
  BY <1>2, TypeOKServers, OwnedClose, Zenon
<1>3. CASE \E k \in Callers : Begin(k) \/ Step(k) \/ Lose(k)
  BY <1>3, TypeOKCalls, OwnedCalls, Zenon
<1>4. CASE UNCHANGED vars
  <2>1. TypeOK'
    BY <1>4, Zenon DEF vars, servers, client, TypeOK
  <2>2. QED
    BY <1>4, <2>1, OwnedKept, Zenon DEF vars, client, TypeOK
<1>5. QED
  BY <1>1, <1>2, <1>3, <1>4, Zenon DEF Next

-----------------------------------------------------------------------------
(* An undisturbed call *)

\* Every server is a seed, and there are more attempts than seeds.
SeedsReach ==
  /\ Len(Seeds) < MaxAttempts
  /\ \A s \in Servers : \E j \in 0..(Len(Seeds) - 1) : Seeds[j + 1] = s

\* How often AdvanceNextIdx brings index n to index j.
Dist(n, j) == IF j >= n THEN j - n ELSE j + Len(Seeds) - n

\* With index n at attempt a, the leader's seed comes up by attempt Len(Seeds).
Due(a, n) == \E j \in 0..(Len(Seeds) - 1) : Seeds[j + 1] = leader /\ a + Dist(n, j) <= Len(Seeds)

\* Where an undisturbed call k is on its way to the leader.
OnCourse(k) ==
  LET a == calls[k].attempt
      n == cache.nextIdx
      c == calls[k].new
  IN  /\ calls[k].pc # "failed"
      /\ calls[k].pc \in {"conn", "invoke"} =>
            a = 0 \/ cache.conn.addr = leader \/ (cache.conn.addr = NextAddr /\ Due(a, n))
      /\ calls[k].pc = "invoke" => calls[k].conn = cache.conn
      /\ calls[k].pc = "advance" => a = 0 \/ (NextAddr # leader /\ Due(a, n))
      /\ calls[k].pc = "rotate" => Due(a + 1, n)
      /\ calls[k].pc = "swap" => /\ a + 1 < MaxAttempts
                                 /\ c.addr = leader \/ (c.addr = NextAddr /\ Due(a + 1, n))

\* What makes UndisturbedSucceeds inductive.  A leader is up; a server that is
\* down knows none.  While calm is not empty, the leader knows itself, nobody
\* knows another one, and no other call runs.
CalmInv ==
  /\ leader \in up \cup {None}
  /\ \A s \in Servers \ up : known[s] = None
  /\ \A k \in calm :
        /\ leader # None /\ known[leader] = leader /\ \A s \in Servers : known[s] \in {leader, None}
        /\ ~closed /\ k \notin expired
        /\ \A i \in Callers \ {k} : ~Running(i)
        /\ OnCourse(k)

\* AdvanceNextIdx counts round the seeds.
LEMMA NextIndex ==
  ASSUME NEW n \in 0..(Len(Seeds) - 1)
  PROVE  (n + 1) % Len(Seeds) = IF n + 1 = Len(Seeds) THEN 0 ELSE n + 1
<1> DEFINE l == Len(Seeds)
<1>1. l \in Nat \ {0} /\ n \in 0..(l - 1)
  BY SeedsAreServers, Zenon
<1> HIDE DEF l
<1>2. (n + 1) % l = IF n + 1 = l THEN 0 ELSE n + 1
  BY <1>1
<1> QED BY <1>2, Zenon DEF l

\* Each step of the index brings the leader's seed one nearer.
LEMMA DueNext ==
  ASSUME NEW a \in Nat, NEW n \in 0..(Len(Seeds) - 1), Due(a, n), Seeds[n + 1] # leader
  PROVE  a + 1 <= Len(Seeds) /\ Due(a + 1, (n + 1) % Len(Seeds))
<1>1. PICK j \in 0..(Len(Seeds) - 1) : Seeds[j + 1] = leader /\ a + Dist(n, j) <= Len(Seeds)
  BY Zenon DEF Due
<1>2. j # n /\ Len(Seeds) \in Nat \ {0}
  BY <1>1, SeedsAreServers, Zenon
<1> DEFINE l == Len(Seeds)
           m == (n + 1) % l
<1>3. m = IF n + 1 = l THEN 0 ELSE n + 1
  BY NextIndex, Zenon
<1>4. a + 1 <= l /\ (a + 1) + Dist(m, j) <= l
  <2>1. /\ Dist(n, j) = IF j >= n THEN j - n ELSE j + l - n
        /\ Dist(m, j) = IF j >= m THEN j - m ELSE j + l - m
    BY Zenon DEF Dist
  <2>2. l \in Nat \ {0} /\ j \in 0..(l - 1) /\ n \in 0..(l - 1) /\ a + Dist(n, j) <= l
    BY <1>1, <1>2, Zenon
  <2> HIDE DEF l, m
  <2>3. Dist(n, j) \in Nat \ {0} /\ Dist(m, j) = Dist(n, j) - 1
    BY <1>2, <1>3, <2>1, <2>2
  <2> QED BY <2>2, <2>3
<1> QED BY <1>1, <1>4, Zenon DEF Due

\* At the second attempt every seed is still to come, or is next.
LEMMA DueFirst ==
  ASSUME SeedsReach, leader \in Servers, NEW n \in 0..(Len(Seeds) - 1)
  PROVE  Due(1, n)
<1>1. PICK j \in 0..(Len(Seeds) - 1) : Seeds[j + 1] = leader
  BY Zenon DEF SeedsReach
<1>2. 1 + Dist(n, j) <= Len(Seeds)
  BY SeedsAreServers DEF Dist
<1> QED BY <1>1, <1>2, Zenon DEF Due

\* A seed that is due comes up before the attempts end.
LEMMA DueSoon ==
  ASSUME SeedsReach, NEW a \in Nat, NEW n \in 0..(Len(Seeds) - 1), Due(a, n)
  PROVE  a < MaxAttempts
<1>1. PICK j \in 0..(Len(Seeds) - 1) : a + Dist(n, j) <= Len(Seeds)
  BY Zenon DEF Due
<1>2. Dist(n, j) \in Nat
  BY SeedsAreServers DEF Dist
<1> QED BY <1>1, <1>2, SeedsAreServers, LeaderClientAssumption DEF SeedsReach

\* New: no call has begun.
LEMMA CalmInit == Init => CalmInv
BY LeaderClientAssumption, Zenon DEF Init, CalmInv

\* A call that goes on without a mishap keeps CalmInv, if it stays on course.
LEMMA CalmStep ==
  ASSUME TypeOK, CalmInv, NEW k \in Callers, Running(k),
         UNCHANGED <<servers, closed, expired, calm>>,
         \A i \in Callers \ {k} : calls'[i] = calls[i],
         k \in calm => OnCourse(k)'
  PROVE  CalmInv'
<1>1. UNCHANGED <<up, leader, known, closed, expired, calm>>
  BY Zenon DEF servers
<1>2. calm \subseteq {k}
  BY Zenon DEF CalmInv, TypeOK
<1>3. ASSUME NEW j \in calm, NEW i \in Callers \ {j} PROVE ~Running(i)'
  BY <1>2, <1>3, Zenon DEF CalmInv, Running
<1> QED BY <1>1, <1>2, <1>3 DEF CalmInv

\* No event at the servers takes a call off its course: a mishap ends the calm.
LEMMA CalmServers ==
  ASSUME TypeOK, CalmInv,
         (\E s \in Servers : \/ Elect(s) \/ Learn(s) \/ registerInFSM(s)
                             \/ Crash(s) \/ Restart(s)) \/ Close
  PROVE  CalmInv'
<1>1. UNCHANGED <<cache, calls, expired>>
  BY Zenon DEF Elect, Learn, registerInFSM, Crash, Restart, Close, client
<1>2. ASSUME leader' = leader, NEW k \in calm PROVE OnCourse(k)' <=> OnCourse(k)
  BY <1>1, <1>2, Zenon DEF OnCourse, NextAddr, Due
<1>3. \A i \in Callers : Running(i)' <=> Running(i)
  BY <1>1, Zenon DEF Running
<1>4. ASSUME NEW s \in Servers, Elect(s) PROVE CalmInv'
  BY <1>4, Zenon DEF Elect, Mishap, CalmInv, TypeOK
<1>5. ASSUME NEW s \in Servers, Learn(s) PROVE CalmInv'
  <2>1. UNCHANGED <<up, leader, calm, closed, expired>> /\ s \in up
    BY <1>5, Zenon DEF Learn, client
  <2>2. \A t \in Servers : known'[t] = IF t = s THEN leader ELSE known[t]
    BY <1>5, Zenon DEF Learn, TypeOK
  <2>3. leader # None => leader \in Servers
    BY Zenon DEF TypeOK
  <2> QED BY <1>2, <1>3, <2>1, <2>2, <2>3, Zenon DEF CalmInv
<1>6. ASSUME NEW s \in Servers, registerInFSM(s) PROVE CalmInv'
  <2>1. UNCHANGED <<up, leader, known, closed, expired>> /\ (calm' = calm \/ calm' = {})
    BY <1>6, Zenon DEF registerInFSM, Mishap, client
  <2> QED BY <1>2, <1>3, <2>1, Zenon DEF CalmInv
<1>7. ASSUME NEW s \in Servers, Crash(s) PROVE CalmInv'
  BY <1>7, Zenon DEF Crash, Mishap, CalmInv, TypeOK
<1>8. ASSUME NEW s \in Servers, Restart(s) PROVE CalmInv'
  <2>1. UNCHANGED <<leader, known, calm, closed, expired>> /\ up' = up \cup {s}
    BY <1>8, Zenon DEF Restart, client
  <2> QED BY <1>2, <1>3, <2>1, Zenon DEF CalmInv
<1>9. ASSUME Close PROVE CalmInv'
  BY <1>9, Zenon DEF Close, Mishap, CalmInv, servers
<1> QED BY <1>4, <1>5, <1>6, <1>7, <1>8, <1>9, Zenon

\* The server that an undisturbed call asks, if it is not the leader, does not
\* take the call for its own; and then there is another attempt.
LEMMA CalmAsks ==
  ASSUME SeedsReach, TypeOK, CalmInv, NEW k \in calm, calls[k].pc = "invoke"
  PROVE  LET s == calls[k].conn.addr
         IN  /\ s \in Servers /\ calls[k].conn = cache.conn
             /\ s \in up /\ isLeader(s) => s = leader
             /\ s = leader => s \in up /\ isLeader(s)
             /\ s # leader => /\ calls[k].attempt + 1 < MaxAttempts
                              /\ calls[k].attempt = 0 \/ (NextAddr # leader /\ Due(calls[k].attempt, cache.nextIdx))
<1> DEFINE s == calls[k].conn.addr
           a == calls[k].attempt
           n == cache.nextIdx
<1>1. k \in Callers /\ OnCourse(k) /\ leader # None /\ known[leader] = leader
  BY Zenon DEF CalmInv, TypeOK
<1>2. calls[k].conn = cache.conn /\ (a = 0 \/ cache.conn.addr = leader \/ (cache.conn.addr = NextAddr /\ Due(a, n)))
  BY <1>1, Zenon DEF OnCourse
<1>3. s \in Servers /\ s # None /\ n \in 0..(Len(Seeds) - 1) /\ a \in Nat
  BY <1>1, <1>2, LeaderClientAssumption DEF TypeOK, Conns, Call
<1>4. s \in up /\ isLeader(s) => s = leader
  BY <1>1, <1>3, Zenon DEF CalmInv, isLeader
<1>5. s = leader => s \in up /\ isLeader(s)
  BY <1>1, Zenon DEF CalmInv, isLeader
<1>6. ASSUME s # leader
      PROVE  a + 1 < MaxAttempts /\ (a = 0 \/ (NextAddr # leader /\ Due(a, n)))
  <2>1. CASE a = 0
    BY <2>1, SeedsAreServers, LeaderClientAssumption DEF SeedsReach
  <2>2. CASE a # 0
    <3>1. NextAddr # leader /\ Due(a, n)
      BY <1>2, <1>6, <2>2, Zenon
    <3>2. a + 1 <= Len(Seeds)
      BY <1>3, <3>1, DueNext, Zenon DEF NextAddr
    <3> QED BY <1>3, <3>1, <3>2, SeedsAreServers, LeaderClientAssumption DEF SeedsReach
  <2> QED BY <2>1, <2>2, Zenon
<1> QED BY <1>2, <1>3, <1>4, <1>5, <1>6, Zenon

\* Begin: a call is calm if it begins when all is quiet.
LEMMA CalmBegin ==
  ASSUME TypeOK, CalmInv, NEW k \in Callers, Begin(k)
  PROVE  CalmInv'
<1>1. /\ UNCHANGED <<up, leader, known, cache>> /\ closed' = FALSE /\ k \notin expired'
      /\ calm' \subseteq {k}
      /\ k \in calm' => Quiet /\ \A i \in Callers : ~Running(i)
  BY Zenon DEF Begin, servers, client, TypeOK
<1>2. /\ calls'[k] = [Idle EXCEPT !.pc = "conn"]
      /\ \A i \in Callers \ {k} : calls'[i] = calls[i]
  BY Zenon DEF Begin, TypeOK
<1>3. calls'[k].pc = "conn" /\ calls'[k].attempt = 0
  BY <1>2, Zenon DEF Idle
<1>4. OnCourse(k)'
  BY <1>3, Zenon DEF OnCourse
<1>5. ASSUME k \in calm'
      PROVE  /\ leader # None /\ known[leader] = leader
             /\ \A s \in Servers : known[s] \in {leader, None}
  BY <1>1, <1>5, Zenon DEF Quiet, CalmInv
<1>6. \A i \in Callers \ {k} : Running(i)' <=> Running(i)
  BY <1>2, Zenon DEF Running
<1> QED BY <1>1, <1>4, <1>5, <1>6, Zenon DEF CalmInv

\* A request that the leader does not answer.
LEMMA CalmInvoke ==
  ASSUME SeedsReach, TypeOK, Owned, CalmInv, NEW k \in Callers,
         Handled(k) \/ Redirected(k) \/ Unavailable(k) \/ Broken(k)
  PROVE  CalmInv'
<1> DEFINE s == calls[k].conn.addr
           a == calls[k].attempt
<1>1. /\ calls[k].pc = "invoke" /\ UNCHANGED <<servers, cache, closed, expired, calm>>
  BY Zenon DEF Handled, Redirected, Unavailable, Broken, client
<1>2. UNCHANGED <<leader, cache>> /\ Running(k)
  BY <1>1, Zenon DEF servers, Running
<1>3. Retry(k) \/ (\E r \in {"ok", "failed"} : Return(k, r)) \/ \E t \in {known[s]} : NewClient(k, t)
  BY ZenonT(30) DEF Handled, Redirected, Unavailable, Broken
<1>4. \A i \in Callers \ {k} : calls'[i] = calls[i]
  BY <1>3, Zenon DEF Retry, Return, NewClient, TypeOK
<1> SUFFICES ASSUME k \in calm PROVE OnCourse(k)'
  BY <1>1, <1>2, <1>4, CalmStep, ZenonT(30)
<1>5. /\ s \in Servers /\ calls[k].conn = cache.conn
      /\ s \in up /\ isLeader(s) => s = leader
      /\ s = leader => s \in up /\ isLeader(s)
      /\ s # leader => /\ a + 1 < MaxAttempts
                       /\ a = 0 \/ (NextAddr # leader /\ Due(a, cache.nextIdx))
  BY <1>1, CalmAsks, Zenon
<1>6. calls[k].conn \in open
  BY <1>5, Zenon DEF CalmInv, Owned, ConnectionsOwned
<1>7. NextAddr' = NextAddr /\ \A b, n : Due(b, n)' <=> Due(b, n)
  BY <1>2, Zenon DEF NextAddr, Due
<1>8. CASE Handled(k)
  <2>1. calls' = [calls EXCEPT ![k] = [Idle EXCEPT !.pc = "ok"]]
    BY <1>5, <1>8, Zenon DEF Handled, Return
  <2>2. calls'[k].pc = "ok"
    BY <2>1, Zenon DEF TypeOK, Idle
  <2> QED BY <2>2, Zenon DEF OnCourse
<1>9. CASE Redirected(k)
  <2>1. s # leader /\ known[s] = leader /\ leader \in Servers
    BY <1>5, <1>9, LeaderClientAssumption, Zenon
    DEF Redirected, HasLeaderAddr, CalmInv, TypeOK
  <2>2. PICK c : /\ c.addr = known[s]
                 /\ calls' = [calls EXCEPT ![k].pc = "swap", ![k].conn = NoConn, ![k].new = c]
    BY <1>9, Zenon DEF Redirected, NewClient
  <2>3. calls'[k].pc = "swap" /\ calls'[k].attempt = a /\ calls'[k].new = c
    BY <2>2, SMTT(30) DEF TypeOK, Call
  <2> QED BY <1>2, <1>5, <2>1, <2>2, <2>3, Zenon DEF OnCourse
<1>10. CASE Unavailable(k)
  <2>1. s # leader /\ Retry(k)
    BY <1>5, <1>10, Zenon DEF Unavailable
  <2>2. calls' = [calls EXCEPT ![k].pc = "advance", ![k].conn = NoConn]
    BY <1>5, <2>1, Zenon DEF Retry
  <2>3. calls'[k].pc = "advance" /\ calls'[k].attempt = a
    BY <2>2, SMTT(30) DEF TypeOK, Call
  <2> QED BY <1>2, <1>5, <1>7, <2>1, <2>3, ZenonT(30) DEF OnCourse
<1>11. CASE Broken(k)
  BY <1>6, <1>11, Zenon DEF Broken
<1> QED BY <1>8, <1>9, <1>10, <1>11, Zenon

\* The rest of the loop: the cached connection, and the way to the next one.
LEMMA CalmLoop ==
  ASSUME SeedsReach, TypeOK, CalmInv, NEW k \in Callers,
         Conn(k) \/ Advance(k) \/ Rotate(k) \/ Update(k)
  PROVE  CalmInv'
<1> DEFINE a == calls[k].attempt
           n == cache.nextIdx
<1>1. Running(k) /\ UNCHANGED <<servers, closed, expired, calm>> /\ leader' = leader
  BY Zenon DEF Conn, Advance, Rotate, Update, Running, client, servers
<1>2. \A i \in Callers \ {k} : calls'[i] = calls[i]
  BY Zenon DEF Conn, Advance, Rotate, Update, Return, Goto, NewClient, NextAttempt, TypeOK
<1> SUFFICES ASSUME k \in calm PROVE OnCourse(k)'
  BY <1>1, <1>2, CalmStep, Zenon
<1>3. a \in Nat /\ n \in 0..(Len(Seeds) - 1) /\ OnCourse(k) /\ leader \in Servers
  BY DEF TypeOK, Call, CalmInv
<1>4. \A b, m : Due(b, m)' <=> Due(b, m)
  BY <1>1, Zenon DEF Due
<1>5. CASE Conn(k)
  <2>1. calls[k].pc = "conn" /\ UNCHANGED cache
    BY <1>5, Zenon DEF Conn, client
  <2>2. calls' = [calls EXCEPT ![k].pc = "invoke", ![k].conn = cache.conn]
    BY <1>5, Zenon DEF Conn, CalmInv
  <2>3. calls'[k].pc = "invoke" /\ calls'[k].attempt = a /\ calls'[k].conn = cache.conn
    BY <2>2, SMTT(30) DEF TypeOK, Call
  <2> QED BY <1>1, <1>3, <1>4, <2>1, <2>3, Zenon DEF OnCourse, NextAddr
<1>6. CASE Advance(k)
  <2>1. calls[k].pc = "advance" /\ cache'.nextIdx = (n + 1) % Len(Seeds)
    BY <1>6, Zenon DEF Advance, AdvanceNextIdx, TypeOK
  <2>2. calls'[k].pc = "rotate" /\ calls'[k].attempt = a
    BY <1>6, Zenon DEF Advance, Goto, TypeOK, Call
  <2>3. (n + 1) % Len(Seeds) \in 0..(Len(Seeds) - 1)
    <3> HIDE DEF n
    <3>1. (n + 1) % Len(Seeds) = IF n + 1 = Len(Seeds) THEN 0 ELSE n + 1
      BY <1>3, NextIndex, Zenon
    <3>2. Len(Seeds) \in Nat \ {0}
      BY SeedsAreServers, Zenon
    <3> QED BY <1>3, <3>1, <3>2, SMTT(30)
  <2>4. Due(a + 1, (n + 1) % Len(Seeds))
    <3>1. a = 0 \/ (NextAddr # leader /\ Due(a, n))
      BY <1>3, <2>1, Zenon DEF OnCourse
    <3>2. CASE a = 0
      BY <1>3, <2>3, <3>2, DueFirst
    <3>3. CASE NextAddr # leader /\ Due(a, n)
      BY <1>3, <3>3, DueNext, Zenon DEF NextAddr
    <3> QED BY <3>1, <3>2, <3>3, Zenon
  <2>5. Due(calls[k].attempt + 1, cache.nextIdx)'
    BY <1>1, <2>1, <2>2, <2>4, Zenon DEF Due
  <2> QED BY <2>2, <2>5, Zenon DEF OnCourse
<1>7. CASE Rotate(k)
  <2>1. calls[k].pc = "rotate" /\ UNCHANGED cache
    BY <1>7, Zenon DEF Rotate
  <2>2. PICK c : /\ c.addr = NextAddr
                 /\ calls' = [calls EXCEPT ![k].pc = "swap", ![k].conn = NoConn, ![k].new = c]
    BY <1>7, Zenon DEF Rotate, NewClient
  <2>3. calls'[k].pc = "swap" /\ calls'[k].attempt = a /\ calls'[k].new = c
    BY <2>2 DEF TypeOK, Call
  <2>4. Due(a + 1, n)
    BY <1>3, <2>1, Zenon DEF OnCourse
  <2>5. a + 1 < MaxAttempts
    BY <1>3, <2>4, DueSoon, SMTT(30)
  <2> QED BY <1>4, <2>1, <2>2, <2>3, <2>4, <2>5, Zenon DEF OnCourse, NextAddr
<1>8. CASE Update(k)
  <2> DEFINE c == calls[k].new
  <2>1. /\ calls[k].pc = "swap" /\ a + 1 < MaxAttempts
        /\ c.addr = leader \/ (c.addr = NextAddr /\ Due(a + 1, n))
    BY <1>3, <1>8, Zenon DEF Update, OnCourse
  <2>2. cache'.conn.addr = c.addr /\ cache'.nextIdx = n
    BY <1>8, Zenon DEF Update, Swap, TypeOK
  <2>3. calls' = [calls EXCEPT ![k].pc = "conn", ![k].attempt = a + 1, ![k].new = NoConn]
    BY <1>8, <2>1, Zenon DEF Update, NextAttempt
  <2>4. calls'[k].pc = "conn" /\ calls'[k].attempt = a + 1
    BY <2>3, Zenon DEF TypeOK, Call
  <2>5. NextAddr' = NextAddr
    BY <2>2, Zenon DEF NextAddr
  <2> QED BY <1>1, <1>4, <2>1, <2>2, <2>4, <2>5, ZenonT(30) DEF OnCourse
<1> QED BY <1>5, <1>6, <1>7, <1>8, Zenon

\* CalmInv is inductive.
LEMMA CalmNext ==
  ASSUME SeedsReach, TypeOK, Owned, CalmInv, [Next]_vars
  PROVE  CalmInv'
<1>1. CASE \E k \in Callers : Lose(k)
  <2>1. calm' = {} /\ UNCHANGED <<up, leader, known>>
    BY <1>1, Zenon DEF Lose, Mishap, servers
  <2> QED BY <2>1, Zenon DEF CalmInv
<1>2. CASE UNCHANGED vars
  BY <1>2, ZenonT(30) DEF vars, servers, client, CalmInv, OnCourse, Due, NextAddr, Running
<1> QED BY <1>1, <1>2, CalmServers, CalmBegin, CalmInvoke, CalmLoop, Zenon DEF Next, Step

\* The cache, the connections and the calls are well typed whatever the
\* servers do and however the calls of one client interleave.
THEOREM TypeCorrect == Spec => []TypeOK
<1>1. Init => TypeOK /\ Owned
  BY TypeOKInit, OwnedInit, Zenon
<1>2. QED
  BY <1>1, CacheInductive, PTL DEF Spec

\* LeaderCache.Update leaks no connection and never closes the cached one
\* under the cache, for any number of concurrent callers.
THEOREM ConnectionsOwnedHolds == Spec => []ConnectionsOwned
<1>1. Init => TypeOK /\ Owned
  BY TypeOKInit, OwnedInit, Zenon
<1>2. Owned => ConnectionsOwned
  BY Zenon DEF Owned
<1>3. QED
  BY <1>1, <1>2, CacheInductive, PTL DEF Spec

\* UndisturbedSucceeds (LeaderAwareClient.Invoke): when every server is a seed
\* and there are more attempts than seeds, a call that begins when the servers
\* agree on a leader, and that no failure, loss or other call disturbs, does
\* not fail; for any servers, order of the seeds and state of the cache.
THEOREM UndisturbedSucceedsHolds ==
  ASSUME SeedsReach
  PROVE  Spec => []UndisturbedSucceeds
<1>1. Init => TypeOK /\ Owned /\ CalmInv
  BY TypeOKInit, OwnedInit, CalmInit, Zenon
<1>2. TypeOK /\ Owned /\ CalmInv /\ [Next]_vars => (TypeOK /\ Owned /\ CalmInv)'
  BY CacheInductive, CalmNext, Zenon
<1>3. CalmInv => UndisturbedSucceeds
  BY Zenon DEF CalmInv, OnCourse, UndisturbedSucceeds
<1>4. QED
  BY <1>1, <1>2, <1>3, PTL DEF Spec

-----------------------------------------------------------------------------
(* The watcher *)

\* An age grows by one up to the first value beyond the timeout.
LEMMA OlderIs ==
  ASSUME NEW a \in Ages
  PROVE  Older(a) \in Ages
BY NodeLivenessAssumption DEF Ages, Older

\* No node has an entry at first.
LEMMA LivenessTypeInit == LivenessInit => LivenessTypeOK
BY NodeLivenessAssumption DEF LivenessInit, LivenessTypeOK, Ages

\* Registering, as a call of the node.
LEMMA RegisterTypes ==
  ASSUME LivenessTypeOK, NEW n \in Nodes, RegisterWithMetadata(n)
  PROVE  /\ status' \in [Nodes -> {"unknown", "alive", "draining", "dead"}]
         /\ age' \in [Peers -> [Nodes -> Ages]]
         /\ lost' \in 0..MaxLost
         /\ quiet' \in [Nodes -> Ages] /\ trusted' \subseteq Nodes
<1>1. CASE RegisterNode(n) /\ UNCHANGED lost
  BY <1>1, NodeLivenessAssumption DEF RegisterNode, LivenessTypeOK, Ages
<1>2. CASE LoseCall /\ UNCHANGED <<status, age, history>>
  BY <1>2, NodeLivenessAssumption DEF LoseCall, LivenessTypeOK, history
<1>3. QED
  BY <1>1, <1>2, Zenon DEF RegisterWithMetadata

\* Every step keeps the types.
LEMMA LivenessTypeNext == LivenessTypeOK /\ [LivenessNext]_livenessVars => LivenessTypeOK'
<1> SUFFICES ASSUME LivenessTypeOK, [LivenessNext]_livenessVars PROVE LivenessTypeOK'
  BY Zenon
<1> USE NodeLivenessAssumption
<1>1. CASE Tick
  BY <1>1, OlderIs, Zenon DEF Tick, LivenessTypeOK
<1>2. ASSUME NEW n \in Nodes, Start(n) PROVE LivenessTypeOK'
  BY <1>2, RegisterTypes DEF Start, LivenessTypeOK
<1>3. ASSUME NEW n \in Nodes, Heartbeat(n) PROVE LivenessTypeOK'
  <2>1. CASE UpdateLastSeen(n) /\ UNCHANGED lost
    BY <1>3, <2>1 DEF Heartbeat, UpdateLastSeen, LivenessTypeOK, Ages
  <2>2. CASE RegisterWithMetadata(n)
    BY <1>3, <2>2, RegisterTypes, Zenon DEF Heartbeat, LivenessTypeOK
  <2>3. CASE LoseCall /\ UNCHANGED <<status, age, history>>
    BY <1>3, <2>3 DEF Heartbeat, LoseCall, LivenessTypeOK, history
  <2>4. QED
    BY <1>3, <2>1, <2>2, <2>3, Zenon DEF Heartbeat
<1>4. ASSUME NEW n \in Nodes, Stop(n) PROVE LivenessTypeOK'
  BY <1>4 DEF Stop, StopAndWait, DeregisterFromMetadata, LoseCall, LivenessTypeOK, history
<1>5. ASSUME NEW n \in Nodes, CrashNode(n) PROVE LivenessTypeOK'
  BY <1>5, Zenon DEF CrashNode, LivenessTypeOK, history
<1>6. ASSUME NEW s \in Peers, SweepRead(s) PROVE LivenessTypeOK'
  BY <1>6, Zenon DEF SweepRead, Stale, GetAllNodes, LivenessTypeOK, history
<1>7. ASSUME NEW s \in Peers, SweepMark(s) PROVE LivenessTypeOK'
  BY <1>7 DEF SweepMark, LivenessTypeOK, history
<1>8. ASSUME NEW s \in Peers, ElectLeader(s) PROVE LivenessTypeOK'
  BY <1>8 DEF ElectLeader, LivenessTypeOK, history
<1>9. ASSUME NEW s \in Peers, Restore(s) PROVE LivenessTypeOK'
  BY <1>9 DEF Restore, LivenessTypeOK, Ages, history
<1>10. CASE UNCHANGED livenessVars
  BY <1>10, Zenon DEF livenessVars, LivenessTypeOK
<1>11. QED
  BY <1>1, <1>2, <1>3, <1>4, <1>5, <1>6, <1>7, <1>8, <1>9, <1>10, Zenon DEF LivenessNext

-----------------------------------------------------------------------------
(* Trusted nodes *)

\* As long as one server leads, its LastSeen of a node that started once is the
\* time at which the node last registered or was heard.
AgeIsQuiet ==
  failovers = 0 =>
    \A n \in Nodes : starts[n] <= 1 /\ status[n] # "unknown" => age[leaderID][n] = quiet[n]

\* A trusted node is within the timeout, on no list of a sweep, and known.  The
\* sweep that is to mark a node dead has found it beyond the timeout, when the
\* node was not trusted any more; only a registration can make it so again.
Trust ==
  failovers = 0 =>
    \A n \in trusted : starts[n] <= 1 =>
      /\ quiet[n] <= SuspectTimeout
      /\ ~Listed(n)
      /\ status[n] \notin {"unknown", "dead"}

\* A node that has an entry has started.
StartedFirst == \A n \in Nodes : n \in running \/ status[n] # "unknown" => starts[n] >= 1

\* A sweep lists nodes that have an entry, and entries are never removed.
ListedKnown == \A n \in Nodes : Listed(n) => status[n] # "unknown"

IInv == LivenessTypeOK /\ AgeIsQuiet /\ Trust /\ StartedFirst /\ ListedKnown

\* No node has an entry, and none is trusted, at first.
LEMMA IInvInit == LivenessInit => IInv
BY LivenessTypeInit, Zenon DEF LivenessInit, IInv, AgeIsQuiet, Trust, StartedFirst, ListedKnown, Listed

\* A registration that succeeds, of a node whose count of starts is at most one
\* afterwards: the entry is new.
LEMMA RegisterKeeps ==
  ASSUME IInv, NEW n \in Nodes, RegisterWithMetadata(n),
         UNCHANGED <<leaderID, sweeps, failovers>>,
         starts' \in [Nodes -> Nat], starts'[n] >= 1, starts[n] <= starts'[n],
         starts'[n] <= 1 => status[n] = "unknown",
         \A m \in Nodes \ {n} : starts'[m] = starts[m]
  PROVE  AgeIsQuiet' /\ Trust' /\ (\A m \in Nodes : status'[m] # "unknown" => starts'[m] >= 1)
<1> USE DEF IInv
<1>1. CASE RegisterNode(n)
  <2>1. /\ \A m \in Nodes \ {n} : status'[m] = status[m] /\ quiet'[m] = quiet[m]
        /\ \A m \in Nodes \ {n}, s \in Peers : age'[s][m] = age[s][m]
        /\ status'[n] = "alive" /\ quiet'[n] = 0
        /\ status[n] = "unknown" => \A s \in Peers : age'[s][n] = 0
    BY <1>1, Zenon DEF RegisterNode, LivenessTypeOK
  <2>2. AgeIsQuiet'
    BY <2>1, ZenonT(30) DEF AgeIsQuiet, LivenessTypeOK
  <2>3. ASSUME NEW m \in trusted', starts'[m] <= 1, failovers' = 0
        PROVE  quiet'[m] <= SuspectTimeout /\ ~Listed(m)' /\ status'[m] \notin {"unknown", "dead"}
    <3>1. Listed(m)' = Listed(m)
      BY Zenon DEF Listed
    <3>2. CASE m = n
      <4>1. ~Listed(n)
        <5>1. n \in trusted => ~Listed(n)
          <6>1. starts[n] <= 1
            BY <2>3, <3>2, NodeLivenessAssumption, SMTT(30) DEF LivenessTypeOK
          <6>2. QED
            BY <2>3, <6>1, Zenon DEF Trust
        <5>2. QED
          BY <1>1, <2>3, <3>2, <5>1, Zenon DEF RegisterNode
      <4>2. quiet'[m] <= SuspectTimeout
        BY <2>1, <3>2, NodeLivenessAssumption, SMTT(30)
      <4>3. status'[m] = "alive"
        BY <2>1, <3>2, Zenon
      <4>4. ~Listed(m)'
        BY <3>1, <3>2, <4>1, Zenon
      <4>5. QED
        BY <4>2, <4>3, <4>4, Zenon
    <3>3. CASE m # n
      <4>1. m \in trusted /\ m \in Nodes
        BY <1>1, <2>3, <3>3, Zenon DEF RegisterNode, LivenessTypeOK
      <4>2. QED
        BY <2>1, <2>3, <3>1, <3>3, <4>1, Zenon DEF Trust
    <3>4. QED
      BY <3>2, <3>3, ZenonT(30)
  <2>4. Trust'
    BY <2>3, ZenonT(30) DEF Trust
  <2>5. QED
    BY <2>1, <2>2, <2>4, Zenon DEF StartedFirst
<1>2. CASE UNCHANGED <<status, age, history>>
  <2>1. status' = status /\ age' = age /\ quiet' = quiet /\ trusted' = trusted
    BY <1>2, Zenon DEF history
  <2>2. AgeIsQuiet'
    BY <2>1, Zenon DEF AgeIsQuiet
  <2>3. ASSUME NEW m \in trusted', starts'[m] <= 1, failovers' = 0
        PROVE  quiet'[m] <= SuspectTimeout /\ ~Listed(m)' /\ status'[m] \notin {"unknown", "dead"}
    <3>1. m \in Nodes /\ starts[m] <= 1
      BY <2>1, <2>3, NodeLivenessAssumption DEF LivenessTypeOK
    <3>2. QED
      BY <2>1, <2>3, <3>1, Zenon DEF Trust, Listed
  <2>4. QED
    BY <2>1, <2>2, <2>3, ZenonT(30) DEF Trust, StartedFirst
<1>3. QED
  BY <1>1, <1>2, Zenon DEF RegisterWithMetadata

\* A registration removes no entry.
LEMMA RegisterKnown ==
  ASSUME IInv, NEW n \in Nodes, RegisterWithMetadata(n), UNCHANGED sweeps
  PROVE  ListedKnown'
BY Zenon DEF RegisterWithMetadata, RegisterNode, IInv, ListedKnown, Listed, LivenessTypeOK

\* A step that leaves the history, the ages and the sweeps alone.
LEMMA StatusKeeps ==
  ASSUME IInv, UNCHANGED <<leaderID, age, starts, history>>,
         failovers' = 0 => failovers = 0,
         \A s \in Peers : sweeps'[s] \subseteq sweeps[s],
         \A n \in Nodes : /\ status'[n] = "unknown" <=> status[n] = "unknown"
                          /\ status'[n] = "dead" => status[n] = "dead" \/ Listed(n)
  PROVE  AgeIsQuiet' /\ Trust'
<1>1. age' = age /\ quiet' = quiet /\ trusted' = trusted /\ starts' = starts /\ leaderID' = leaderID
  BY Zenon DEF history
<1>2. AgeIsQuiet'
  BY <1>1, ZenonT(30) DEF IInv, AgeIsQuiet
<1>3. \A n \in Nodes : Listed(n)' => Listed(n)
  BY ZenonT(30) DEF Listed
<1>4. ASSUME failovers' = 0, NEW n \in trusted', starts'[n] <= 1
      PROVE  quiet'[n] <= SuspectTimeout /\ ~Listed(n)' /\ status'[n] \notin {"unknown", "dead"}
  BY <1>1, <1>3, <1>4, Zenon DEF IInv, Trust, LivenessTypeOK
<1>5. QED
  BY <1>2, <1>4, Zenon DEF Trust

\* Every step keeps the invariant.
LEMMA IInvNext == IInv /\ [LivenessNext]_livenessVars => IInv'
<1> SUFFICES ASSUME IInv, [LivenessNext]_livenessVars PROVE IInv'
  BY Zenon
<1> USE NodeLivenessAssumption
<1>1. LivenessTypeOK /\ LivenessTypeOK'
  BY LivenessTypeNext, Zenon DEF IInv
<1>2. CASE Tick
  <2>1. \A n \in Nodes : quiet'[n] = Older(quiet[n]) /\ age'[leaderID][n] = Older(age[leaderID][n])
    BY <1>1, <1>2, Zenon DEF Tick, LivenessTypeOK
  <2>2. AgeIsQuiet'
    BY <1>2, <2>1, ZenonT(30) DEF Tick, IInv, AgeIsQuiet
  <2>3. \A n \in Nodes : Listed(n)' = Listed(n)
    BY <1>2, Zenon DEF Tick, Listed
  <2>4. Trust'
    BY <1>1, <1>2, <2>1, <2>3, ZenonT(30) DEF Tick, IInv, Trust, LivenessTypeOK
  <2>5. StartedFirst'
    BY <1>2, ZenonT(30) DEF Tick, IInv, StartedFirst
  <2>6. QED
    BY <1>1, <1>2, <2>2, <2>3, <2>4, <2>5, Zenon DEF Tick, IInv, ListedKnown
<1>3. ASSUME NEW n \in Nodes, Start(n) PROVE IInv'
  <2>1. /\ starts'[n] = starts[n] + 1
        /\ \A m \in Nodes \ {n} : starts'[m] = starts[m]
        /\ starts' \in [Nodes -> Nat] /\ starts[n] \in Nat
    BY <1>1, <1>3, SMTT(30) DEF Start, LivenessTypeOK
  <2>2. starts'[n] <= 1 => status[n] = "unknown"
    BY <2>1, SMTT(30) DEF IInv, StartedFirst
  <2>3. AgeIsQuiet' /\ Trust' /\ (\A m \in Nodes : status'[m] # "unknown" => starts'[m] >= 1)
    BY <1>3, <2>1, <2>2, RegisterKeeps, SMTT(30) DEF Start
  <2>4. StartedFirst'
    BY <1>3, <2>1, <2>3 DEF Start, IInv, StartedFirst
  <2>5. QED
    BY <1>1, <1>3, <2>3, <2>4, RegisterKnown, ZenonT(30) DEF Start, IInv
<1>4. ASSUME NEW n \in Nodes, Heartbeat(n) PROVE IInv'
  <2>1. n \in running
    BY <1>1, <1>4, Zenon DEF Heartbeat, LivenessTypeOK
  <2>2. CASE UpdateLastSeen(n)
    <3>1. /\ quiet'[n] = 0 /\ age'[leaderID][n] = 0
          /\ \A m \in Nodes \ {n} : quiet'[m] = quiet[m] /\ age'[leaderID][m] = age[leaderID][m]
      BY <1>1, <2>2, ZenonT(30) DEF UpdateLastSeen, LivenessTypeOK
    <3>2. AgeIsQuiet'
      BY <1>4, <2>2, <3>1 DEF Heartbeat, UpdateLastSeen, IInv, AgeIsQuiet
    <3>3. Trust'
      <4>1. UNCHANGED <<failovers, trusted, starts, sweeps, status>>
        BY <1>4, <2>2, Zenon DEF Heartbeat, UpdateLastSeen
      <4>2. ASSUME NEW m \in trusted', starts'[m] <= 1, failovers' = 0
            PROVE  quiet'[m] <= SuspectTimeout /\ ~Listed(m)' /\ status'[m] \notin {"unknown", "dead"}
        <5>1. /\ m \in Nodes /\ quiet[m] <= SuspectTimeout /\ ~Listed(m)
              /\ status[m] \notin {"unknown", "dead"}
          BY <1>1, <4>1, <4>2, Zenon DEF IInv, Trust, LivenessTypeOK
        <5>2. quiet'[m] = quiet[m] \/ quiet'[m] = 0
          BY <3>1, <5>1, ZenonT(30)
        <5>3. quiet'[m] <= SuspectTimeout
          BY <5>1, <5>2, NodeLivenessAssumption, SMTT(30)
        <5>4. ~Listed(m)'
          BY <4>1, <5>1, Zenon DEF Listed
        <5>5. QED
          BY <4>1, <5>1, <5>3, <5>4, ZenonT(30)
      <4>3. QED
        BY <4>2, Zenon DEF Trust
    <3>4. StartedFirst'
      BY <1>4, <2>2, Zenon DEF Heartbeat, UpdateLastSeen, IInv, StartedFirst
    <3>5. QED
      BY <1>1, <1>4, <2>2, <3>2, <3>3, <3>4, Zenon
      DEF Heartbeat, UpdateLastSeen, IInv, ListedKnown, Listed
  <2>3. CASE status[n] = "unknown" /\ RegisterWithMetadata(n)
    <3>1. starts' = starts /\ starts \in [Nodes -> Nat] /\ starts[n] >= 1
      BY <1>1, <1>4, <2>1, SMTT(30) DEF Heartbeat, LivenessTypeOK, IInv, StartedFirst
    <3>2. AgeIsQuiet' /\ Trust' /\ (\A m \in Nodes : status'[m] # "unknown" => starts'[m] >= 1)
      BY <1>4, <2>3, <3>1, RegisterKeeps DEF Heartbeat
    <3>3. StartedFirst'
      BY <1>4, <3>1, <3>2, Zenon DEF Heartbeat, IInv, StartedFirst
    <3>4. QED
      BY <1>1, <1>4, <2>3, <3>2, <3>3, RegisterKnown, Zenon DEF Heartbeat, IInv
  <2>4. CASE UNCHANGED <<status, age, history>>
    <3>1. AgeIsQuiet' /\ Trust'
      BY <1>4, <2>4, StatusKeeps, ZenonT(30) DEF Heartbeat
    <3>2. StartedFirst' /\ ListedKnown'
      BY <1>4, <2>4, ZenonT(30) DEF Heartbeat, IInv, StartedFirst, ListedKnown, Listed
    <3>3. QED
      BY <1>1, <3>1, <3>2, Zenon DEF IInv
  <2>5. QED
    BY <1>4, <2>2, <2>3, <2>4, Zenon DEF Heartbeat
<1>5. ASSUME NEW n \in Nodes, Stop(n) PROVE IInv'
  <2>1. \A m \in Nodes : /\ status'[m] = "unknown" <=> status[m] = "unknown"
                         /\ status'[m] = "dead" => status[m] = "dead"
    BY <1>1, <1>5, Zenon DEF Stop, StopAndWait, DeregisterFromMetadata, LivenessTypeOK
  <2>2. AgeIsQuiet' /\ Trust'
    BY <1>5, <2>1, StatusKeeps, ZenonT(30) DEF Stop, StopAndWait, DeregisterFromMetadata
  <2>3. StartedFirst' /\ ListedKnown'
    BY <1>5, <2>1, ZenonT(30) DEF Stop, StopAndWait, DeregisterFromMetadata, IInv, StartedFirst, ListedKnown, Listed
  <2>4. QED
    BY <1>1, <2>2, <2>3, Zenon DEF IInv
<1>6. ASSUME NEW n \in Nodes, CrashNode(n) PROVE IInv'
  <2>1. AgeIsQuiet' /\ Trust'
    BY <1>6, StatusKeeps, Zenon DEF CrashNode
  <2>2. StartedFirst' /\ ListedKnown'
    BY <1>6, Zenon DEF CrashNode, IInv, StartedFirst, ListedKnown, Listed
  <2>3. QED
    BY <1>1, <2>1, <2>2, Zenon DEF IInv
<1>7. ASSUME NEW s \in Peers, SweepRead(s) PROVE IInv'
  <2>1. leaderID = s /\ UNCHANGED <<running, status, leaderID, age, starts, failovers, quiet, trusted>>
    BY <1>7, Zenon DEF SweepRead, history
  <2>2. \A n \in Nodes : Listed(n)' => Listed(n) \/ (status[n] = "alive" /\ age[leaderID][n] > SuspectTimeout)
    BY <1>1, <1>7, Zenon DEF SweepRead, Stale, Listed, LivenessTypeOK
  <2>3. AgeIsQuiet' /\ StartedFirst'
    BY <2>1, Zenon DEF IInv, AgeIsQuiet, StartedFirst
  <2>4. ListedKnown'
    BY <2>1, <2>2, Zenon DEF IInv, ListedKnown
  <2>5. ASSUME NEW n \in trusted, starts[n] <= 1, failovers = 0
        PROVE  quiet[n] <= SuspectTimeout /\ ~Listed(n)' /\ status[n] \notin {"unknown", "dead"}
    <3>1. /\ n \in Nodes /\ quiet[n] <= SuspectTimeout /\ ~Listed(n)
          /\ status[n] \notin {"unknown", "dead"}
      BY <1>1, <2>5, Zenon DEF IInv, Trust, LivenessTypeOK
    <3>2. age[leaderID][n] = quiet[n] /\ quiet[n] \in Nat
      BY <1>1, <2>5, <3>1, SMTT(30) DEF IInv, AgeIsQuiet, LivenessTypeOK, Ages
    <3>3. QED
      BY <2>2, <3>1, <3>2, SMTT(30)
  <2>6. Trust'
    BY <2>1, <2>5, Zenon DEF Trust
  <2>7. QED
    BY <1>1, <2>3, <2>4, <2>6, Zenon DEF IInv
<1>8. ASSUME NEW s \in Peers, SweepMark(s) PROVE IInv'
  <2>1. PICK n \in sweeps[s] :
          /\ sweeps' = [sweeps EXCEPT ![s] = @ \ {n}]
          /\ status' = IF leaderID = s THEN [status EXCEPT ![n] = "dead"] ELSE status
    BY <1>8, Zenon DEF SweepMark
  <2>2. n \in Nodes /\ Listed(n) /\ status[n] # "unknown"
    BY <1>1, <1>8, <2>1, Zenon DEF LivenessTypeOK, Listed, IInv, ListedKnown
  <2>3. \A m \in Nodes : /\ status'[m] = "unknown" <=> status[m] = "unknown"
                         /\ status'[m] = "dead" => status[m] = "dead" \/ Listed(m)
    BY <1>1, <2>1, <2>2, Zenon DEF LivenessTypeOK
  <2>4. \A t \in Peers : sweeps'[t] \subseteq sweeps[t]
    BY <1>1, <2>1, Zenon DEF LivenessTypeOK
  <2>5. AgeIsQuiet' /\ Trust'
    BY <1>8, <2>3, <2>4, StatusKeeps, Zenon DEF SweepMark
  <2>6. StartedFirst' /\ ListedKnown'
    BY <1>8, <2>3, <2>4, Zenon DEF SweepMark, IInv, StartedFirst, ListedKnown, Listed
  <2>7. QED
    BY <1>1, <2>5, <2>6, Zenon DEF IInv
<1>9. ASSUME NEW s \in Peers, ElectLeader(s) \/ Restore(s) PROVE IInv'
  <2>1. /\ failovers' # 0
        /\ running' = running /\ status' = status /\ starts' = starts /\ sweeps' = sweeps
    BY <1>1, <1>9 DEF ElectLeader, Restore, LivenessTypeOK
  <2>2. QED
    BY <1>1, <2>1, Zenon DEF IInv, AgeIsQuiet, Trust, StartedFirst, ListedKnown, Listed
<1>10. CASE UNCHANGED livenessVars
  BY <1>1, <1>10, Zenon DEF livenessVars, history, IInv, AgeIsQuiet, Trust, StartedFirst, ListedKnown, Listed
<1>11. QED
  BY <1>2, <1>3, <1>4, <1>5, <1>6, <1>7, <1>8, <1>9, <1>10, Zenon DEF LivenessNext

-----------------------------------------------------------------------------
(* What the watcher guarantees *)

\* Every state the nodes, the servers and the watchers reach is well typed: in
\* particular only running nodes have a heartbeat due.
THEOREM LivenessTypeCorrect == LivenessSpec => []LivenessTypeOK
<1>1. QED
  BY LivenessTypeInit, LivenessTypeNext, PTL DEF LivenessSpec

\* For any number of nodes and servers and any timeout, lost call and stale
\* list: while one server leads, the watcher never marks a node dead that
\* started once, registered, and has been heard within the timeout since.
THEOREM TrustedAliveHolds == LivenessSpec => []TrustedAlive
<1>1. IInv => TrustedAlive
  BY Zenon DEF IInv, Trust, TrustedAlive
<1>2. QED
  BY <1>1, IInvInit, IInvNext, PTL DEF LivenessSpec

=============================================================================

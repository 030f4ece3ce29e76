---------------------------------- MODULE Mesh ----------------------------------
(***************************************************************************)
(* PeerDiscovery of the knowledge nodes (services/knowledge-node/src/mesh):*)
(* who is connected to whom, the handshake that tells a connection whose   *)
(* it is, and the requests that a search sends over the connections, under *)
(* broken sockets, nodes that stop and nodes that restart.                 *)
(*                                                                         *)
(* Every socket has two ends, each with its own PeerConnection.  A node    *)
(* finds an end only through its map `peers`, by the node id of the other  *)
(* side once it is known, by a temporary id until then.                    *)
(***************************************************************************)
EXTENDS Naturals, Sequences

CONSTANTS
  Nodes,
  Sockets,      \* the connections that may be attempted, one after the other
  Searches,     \* the searches that may be made
  MaxRestarts,  \* how often nodes are restarted, in total
  Nobody        \* no end, no key, no node

Ends == [socket: Sockets, side: {"out", "in"}]

VARIABLES
  link,      \* who dialled and who was dialled, for each socket in use
  ws,        \* the state of the WebSocket at each end
  id,        \* the node id of the connection at each end, temporary or real
  peers,     \* the map `peers` of each node
  wire,      \* the messages on their way to each end
  broken,    \* the sockets the network has given up on
  pending,   \* the searches in pendingRequests of each end, their timers armed
  awaits,    \* the requests each search still waits for, by end
  search,    \* how far each search is
  seeker,    \* who made it
  running,   \* FALSE from the call of stop() on
  restarts

connVars == <<link, ws, id, peers, wire, broken>>
searchVars == <<pending, awaits, search, seeker>>
vars == <<connVars, searchVars, running, restarts>>

-----------------------------------------------------------------------------
(* Ends, keys and messages *)

Out(s) == [socket |-> s, side |-> "out"]
In(s) == [socket |-> s, side |-> "in"]
Other(e) == [e EXCEPT !.side = IF @ = "out" THEN "in" ELSE "out"]

Real(n) == [kind |-> "node", of |-> n]
PendingKey(n) == [kind |-> "pending", of |-> n]
InboundKey(s) == [kind |-> "inbound", of |-> s]
Keys ==
  { Real(n) : n \in Nodes } \cup { PendingKey(n) : n \in Nodes }
    \cup { InboundKey(s) : s \in Sockets }

ASSUME MeshAssumption ==
  /\ Sockets \subseteq Nat
  /\ MaxRestarts \in Nat
  /\ Nobody \notin Nodes \cup Ends \cup Keys

Identify(n) == [type |-> "identify", of |-> n]
Query(k) == [type |-> "search", of |-> k]
Answer(k) == [type |-> "search:response", of |-> k]

Owner(e) == IF e.side = "out" THEN link[e.socket].from ELSE link[e.socket].to
Remote(e) == Owner(Other(e))
EndsOf(n) == { e \in Ends : link[e.socket].from # Nobody /\ Owner(e) = n }

\* The id a connection has until the other side identifies itself.
TempKey(e) == IF e.side = "out" THEN PendingKey(Remote(e)) ELSE InboundKey(e.socket)

Listed(n) == { peers[n][k] : k \in Keys } \ {Nobody}

\* Status "connected", which close() does not change before the close event.
Connected(e) == ws[e] \in {"open", "closing"}

\* The address of an inbound connection is known when it has identified itself.
HasAddress(e, m) == (e.side = "out" /\ Remote(e) = m) \/ id[e] = Real(m)

\* A map from which the entries of some keys are deleted.
Without(map, keys) == [k \in Keys |-> IF k \in keys THEN Nobody ELSE map[k]]

\* What sendRaw() gets across: nothing unless the WebSocket is open, and what is
\* sent to an end that is gone is lost.
CanSend(e) == ws[e] = "open" /\ ws[Other(e)] # "closed"
Sent(es, message) ==
  [e \in Ends |-> IF Other(e) \in es THEN Append(wire[e], message) ELSE wire[e]]

\* The wires once some ends are closed: what was on its way to them is lost.
Cut(es) == [e \in Ends |-> IF e \in es THEN <<>> ELSE wire[e]]

\* Mutant of Reject: the timers are cleared and the promises forgotten.
RejectTimersOnly(es) ==
  /\ pending' = [e \in Ends |-> IF e \in es THEN {} ELSE pending[e]]
  /\ UNCHANGED awaits

\* Rejecting the requests of some ends, with their timers.
Reject(es) ==
  /\ pending' = [e \in Ends |-> IF e \in es THEN {} ELSE pending[e]]
  /\ awaits' = [k \in Searches |-> awaits[k] \ { e \in es : k \in pending[e] }]

Init ==
  /\ link = [s \in Sockets |-> [from |-> Nobody, to |-> Nobody]]
  /\ ws = [e \in Ends |-> "none"]
  /\ id = [e \in Ends |-> Nobody]
  /\ peers = [n \in Nodes |-> [k \in Keys |-> Nobody]]
  /\ wire = [e \in Ends |-> <<>>]
  /\ broken = {}
  /\ pending = [e \in Ends |-> {}]
  /\ awaits = [k \in Searches |-> {}]
  /\ search = [k \in Searches |-> "new"]
  /\ seeker = [k \in Searches |-> Nobody]
  /\ running = [n \in Nodes |-> TRUE]
  /\ restarts = 0

-----------------------------------------------------------------------------
(* Connections *)

\* connectToPeer() of the address of m: not if a connection with that address is
\* listed as connected or connecting.
Dial(n, m) ==
  /\ running[n]
  /\ n # m
  /\ ~ \E e \in Listed(n) : HasAddress(e, m) /\ ws[e] # "closed"
  /\ \E s \in Sockets :
       /\ link[s].from = Nobody
       /\ \A t \in Sockets : t < s => link[t].from # Nobody
       /\ link' = [link EXCEPT ![s] = [from |-> n, to |-> m]]
       /\ ws' = [ws EXCEPT ![Out(s)] = "connecting"]
       /\ id' = [id EXCEPT ![Out(s)] = PendingKey(m)]
       /\ peers' = [peers EXCEPT ![n][PendingKey(m)] = Out(s)]
  /\ UNCHANGED <<wire, broken, searchVars, running, restarts>>

\* The server of a node takes a connection: acceptConnection().
Accept(s) ==
  /\ ws[Out(s)] = "connecting"
  /\ ws[In(s)] = "none"
  /\ running[link[s].to]
  /\ ws' = [ws EXCEPT ![In(s)] = "open"]
  /\ id' = [id EXCEPT ![In(s)] = InboundKey(s)]
  /\ peers' = [peers EXCEPT ![link[s].to][InboundKey(s)] = In(s)]
  /\ wire' = Sent({In(s)}, Identify(link[s].to))
  /\ UNCHANGED <<link, broken, searchVars, running, restarts>>

\* The event 'open' where the connection was dialled.
Open(s) ==
  /\ ws[Out(s)] = "connecting"
  /\ ws[In(s)] # "none"
  /\ s \notin broken
  /\ ws' = [ws EXCEPT ![Out(s)] = "open"]
  /\ wire' = IF ws[In(s)] = "closed" THEN wire
             ELSE Sent({Out(s)}, Identify(link[s].from))
  /\ UNCHANGED <<link, id, peers, broken, searchVars, running, restarts>>

\* Mutant of DialFails: what has the same address is given up as well.
DialFailsByAddress(s) ==
  /\ ws[Out(s)] = "connecting"
  /\ ws' = [ws EXCEPT ![Out(s)] = "closed"]
  /\ peers' = [peers EXCEPT ![link[s].from] = Without(@, {TempKey(Out(s)), Real(link[s].to)})]
  /\ wire' = Cut({Out(s)})
  /\ broken' = broken \cup {s}
  /\ UNCHANGED <<link, id, searchVars, running, restarts>>

\* The time limit of a dial, or the events 'error' and 'close' of one that is refused.
DialFails(s) ==
  /\ ws[Out(s)] = "connecting"
  /\ ws' = [ws EXCEPT ![Out(s)] = "closed"]
  /\ peers' = [peers EXCEPT ![link[s].from] = Without(@, {TempKey(Out(s))})]
  /\ wire' = Cut({Out(s)})
  /\ broken' = broken \cup {s}
  /\ UNCHANGED <<link, id, searchVars, running, restarts>>

\* The network gives up on a socket: either end finds out, sooner or later.
Break(s) ==
  /\ \E e \in {Out(s), In(s)} : ws[e] \in {"open", "closing"}
  /\ s \notin broken
  /\ broken' = broken \cup {s}
  /\ UNCHANGED <<link, ws, id, peers, wire, searchVars, running, restarts>>

\* The event 'close' may come at an end that was told to close, at one whose other
\* end has closed once it has read everything, and at one of a broken socket.
MayClose(e) ==
  \/ ws[e] = "closing"
  \/ ws[e] = "open" /\ e.socket \in broken
  \/ ws[e] = "open" /\ ws[Other(e)] \in {"closing", "closed"} /\ wire[e] = <<>>

\* Mutant of Close: the entry of the real id stays.
CloseTemporary(e) ==
  /\ MayClose(e)
  /\ ws' = [ws EXCEPT ![e] = "closed"]
  /\ peers' = [peers EXCEPT ![Owner(e)] = Without(@, {TempKey(e)})]
  /\ wire' = Cut({e})
  /\ Reject({e})
  /\ UNCHANGED <<link, id, broken, search, seeker, running, restarts>>

\* The handler of 'close' deletes the entries of both ids of the connection, whichever
\* connections they now stand for.
Close(e) ==
  /\ MayClose(e)
  /\ ws' = [ws EXCEPT ![e] = "closed"]
  /\ peers' = [peers EXCEPT ![Owner(e)] = Without(@, {id[e], TempKey(e)})]
  /\ wire' = Cut({e})
  /\ Reject({e})
  /\ UNCHANGED <<link, id, broken, search, seeker, running, restarts>>

-----------------------------------------------------------------------------
(* Messages *)

\* handleIncoming() of 'identify': the entry moves from the old id to the real one, in
\* the place of any other connection that has it.
Identified(e, n) ==
  /\ id' = [id EXCEPT ![e] = Real(n)]
  /\ peers' = IF id[e] = Real(n) THEN peers
              ELSE [peers EXCEPT ![Owner(e)] = [Without(@, {id[e]}) EXCEPT ![Real(n)] = e]]
  /\ wire' = [wire EXCEPT ![e] = Tail(@)]
  /\ UNCHANGED searchVars

\* A query is answered on the connection listed under the id of the one it came by.
Queried(e, k) ==
  /\ LET via == peers[Owner(e)][id[e]]
         read == [wire EXCEPT ![e] = Tail(@)]
     IN  wire' = IF via # Nobody /\ CanSend(via)
                 THEN [read EXCEPT ![Other(via)] = Append(@, Answer(k))]
                 ELSE read
  /\ UNCHANGED <<id, peers, searchVars>>

\* An answer settles a request that its own connection waits for; any other is ignored.
Answered(e, k) ==
  /\ pending' = [pending EXCEPT ![e] = @ \ {k}]
  /\ awaits' = IF k \in pending[e] THEN [awaits EXCEPT ![k] = @ \ {e}] ELSE awaits
  /\ wire' = [wire EXCEPT ![e] = Tail(@)]
  /\ UNCHANGED <<id, peers, search, seeker>>

Receive(e) ==
  /\ ws[e] \in {"open", "closing"}
  /\ wire[e] # <<>>
  /\ LET message == Head(wire[e])
     IN  \/ message.type = "identify" /\ Identified(e, message.of)
         \/ message.type = "search" /\ Queried(e, message.of)
         \/ message.type = "search:response" /\ Answered(e, message.of)
  /\ UNCHANGED <<link, ws, broken, running, restarts>>

-----------------------------------------------------------------------------
(* Searches *)

\* fanOutSearch(): one request to every connected peer that is listed.
Search(n, k) ==
  /\ running[n]
  /\ search[k] = "new"
  /\ LET asked == { e \in Listed(n) : Connected(e) }
     IN  /\ pending' = [e \in Ends |-> IF e \in asked THEN pending[e] \cup {k} ELSE pending[e]]
         /\ awaits' = [awaits EXCEPT ![k] = asked]
         /\ wire' = Sent({ e \in asked : CanSend(e) }, Query(k))
  /\ search' = [search EXCEPT ![k] = "waiting"]
  /\ seeker' = [seeker EXCEPT ![k] = n]
  /\ UNCHANGED <<link, ws, id, peers, broken, running, restarts>>

\* The timer of a request, which is armed as long as the request is pending.
RequestTimeout(e, k) ==
  /\ k \in pending[e]
  /\ pending' = [pending EXCEPT ![e] = @ \ {k}]
  /\ awaits' = [awaits EXCEPT ![k] = @ \ {e}]
  /\ UNCHANGED <<connVars, search, seeker, running, restarts>>

\* The timer that the search sets beside each request: it gives up the request, which
\* stays pending until its own timer, an answer or the end of its connection.
SearchTimeout(e, k) ==
  /\ e \in awaits[k]
  /\ awaits' = [awaits EXCEPT ![k] = @ \ {e}]
  /\ UNCHANGED <<connVars, pending, search, seeker, running, restarts>>

\* All requests are settled: the results are merged and returned.
SearchReturns(k) ==
  /\ search[k] = "waiting"
  /\ awaits[k] = {}
  /\ search' = [search EXCEPT ![k] = "done"]
  /\ UNCHANGED <<connVars, pending, awaits, seeker, running, restarts>>

-----------------------------------------------------------------------------
(* Nodes *)

\* stop() up to its await: disconnectPeer() of every listed connection.  Closing one
\* that is being dialled ends it at once.
Stop(n) ==
  /\ running[n]
  /\ running' = [running EXCEPT ![n] = FALSE]
  /\ ws' = [e \in Ends |->
              IF e \notin Listed(n) THEN ws[e]
              ELSE IF ws[e] = "connecting" THEN "closed" ELSE "closing"]
  /\ broken' = broken \cup { e.socket : e \in { d \in Listed(n) : ws[d] = "connecting" } }
  /\ wire' = Cut({ e \in Listed(n) : ws[e] = "connecting" })
  /\ peers' = [peers EXCEPT ![n] = Without(@, Keys)]
  /\ Reject(Listed(n))
  /\ UNCHANGED <<link, id, search, seeker, restarts>>

\* A node crashes or exits, and starts again with nothing in memory.
Restart(n) ==
  /\ restarts < MaxRestarts
  /\ restarts' = restarts + 1
  /\ LET gone == { e \in EndsOf(n) : ws[e] # "none" }
     IN  /\ ws' = [e \in Ends |-> IF e \in gone THEN "closed" ELSE ws[e]]
         /\ id' = [e \in Ends |-> IF e \in gone THEN Nobody ELSE id[e]]
         /\ broken' = broken \cup { e.socket : e \in gone }
         /\ wire' = Cut(gone)
         /\ pending' = [e \in Ends |-> IF e \in gone THEN {} ELSE pending[e]]
  /\ peers' = [peers EXCEPT ![n] = Without(@, Keys)]
  /\ LET lost == { k \in Searches : search[k] = "waiting" /\ seeker[k] = n }
     IN  /\ search' = [k \in Searches |-> IF k \in lost THEN "lost" ELSE search[k]]
         /\ awaits' = [k \in Searches |-> IF k \in lost THEN {} ELSE awaits[k]]
  /\ running' = [running EXCEPT ![n] = TRUE]
  /\ UNCHANGED <<link, seeker>>

Next ==
  \/ \E n, m \in Nodes : Dial(n, m)
  \/ \E s \in Sockets : Accept(s) \/ Open(s) \/ DialFails(s) \/ Break(s)
  \/ \E e \in Ends : Close(e) \/ Receive(e)
  \/ \E n \in Nodes, k \in Searches : Search(n, k)
  \/ \E e \in Ends, k \in Searches : RequestTimeout(e, k) \/ SearchTimeout(e, k)
  \/ \E k \in Searches : SearchReturns(k)
  \/ \E n \in Nodes : Stop(n) \/ Restart(n)

Spec == Init /\ [][Next]_vars

-----------------------------------------------------------------------------
(* Properties *)

Messages ==
  { Identify(n) : n \in Nodes } \cup { Query(k) : k \in Searches }
    \cup { Answer(k) : k \in Searches }

\* The variables hold what the code keeps in them, and every message is one of the three.
TypeOK ==
  /\ link \in [Sockets -> [from: Nodes \cup {Nobody}, to: Nodes \cup {Nobody}]]
  /\ ws \in [Ends -> {"none", "connecting", "open", "closing", "closed"}]
  /\ id \in [Ends -> Keys \cup {Nobody}]
  /\ peers \in [Nodes -> [Keys -> Ends \cup {Nobody}]]
  /\ wire \in [Ends -> Seq(Messages)]
  /\ broken \subseteq Sockets
  /\ pending \in [Ends -> SUBSET Searches]
  /\ awaits \in [Searches -> SUBSET Ends]
  /\ search \in [Searches -> {"new", "waiting", "done", "lost"}]
  /\ seeker \in [Searches -> Nodes \cup {Nobody}]
  /\ running \in [Nodes -> BOOLEAN]
  /\ restarts \in 0 .. MaxRestarts

\* The map of a node leads to live connections of its own, each under its own id,
\* although entries are deleted by id and connections share ids: what is closed is
\* listed nowhere, and what is listed as a peer is one.
EntriesAreLive ==
  \A n \in Nodes, k \in Keys :
    peers[n][k] # Nobody =>
      /\ peers[n][k] \in EndsOf(n)
      /\ id[peers[n][k]] = k
      /\ ws[peers[n][k]] \in {"connecting", "open", "closing"}

\* A node with an open connection to a peer that has identified itself finds the peer
\* under its id, as long as no other connection to that peer has closed on it.  (The
\* close of an older connection takes the entry of its successor away.)
ListedUntilClosed ==
  \A n, m \in Nodes : \A e \in EndsOf(n) :
    running[n] /\ ws[e] = "open" /\ id[e] = Real(m) =>
      \/ peers[n][Real(m)] # Nobody
      \/ \E d \in EndsOf(n) : ws[d] = "closed" /\ id[d] = Real(m)

\* A search waits only for requests that their connections still have, with a timer: no
\* promise is left that nothing would settle, when connections close, are replaced,
\* or their nodes stop.
AwaitedIsPending ==
  \A k \in Searches : \A e \in awaits[k] : k \in pending[e]

=============================================================================

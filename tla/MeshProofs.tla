------------------------------- MODULE MeshProofs -------------------------------
(***************************************************************************)
(* The maps of the knowledge nodes, for any number of nodes, connections,  *)
(* searches and restarts.                                                  *)
(***************************************************************************)
EXTENDS Mesh, TLAPS

-----------------------------------------------------------------------------
(* Ends, keys and wires *)

\* The two ends of a socket.
LEMMA EndsOfSocket ==
  ASSUME NEW s \in Sockets
  PROVE  /\ Out(s) \in Ends /\ Out(s).socket = s /\ Out(s).side = "out"
         /\ In(s) \in Ends /\ In(s).socket = s /\ In(s).side = "in"
         /\ Other(Out(s)) = In(s) /\ Other(In(s)) = Out(s)
         /\ Out(s) # In(s)
BY DEF Out, In, Other, Ends

\* The end on the other side of one.
LEMMA OtherEnd ==
  ASSUME NEW e \in Ends
  PROVE  /\ e.socket \in Sockets
         /\ Other(e) \in Ends /\ Other(e).socket = e.socket /\ Other(Other(e)) = e
         /\ e = Out(e.socket) \/ e = In(e.socket)
<1>1. PICK s \in Sockets, d \in {"out", "in"} : e = [socket |-> s, side |-> d]
  BY DEF Ends
<1>2. Other(e) = [socket |-> s, side |-> IF d = "out" THEN "in" ELSE "out"]
  BY <1>1 DEF Other
<1>3. Other(e) \in Ends /\ Other(e).socket = s
  BY <1>1, <1>2 DEF Ends
<1>4. e.socket = s /\ (e = Out(s) \/ e = In(s))
  BY <1>1 DEF Out, In
<1>5. Other(Other(e)) = e
  <2>1. Other([socket |-> s, side |-> IF d = "out" THEN "in" ELSE "out"]) = [socket |-> s, side |-> d]
    BY <1>1 DEF Other
  <2> QED
    BY <1>1, <1>2, <2>1
<1> QED
  BY <1>1, <1>3, <1>4, <1>5

\* Ids of nodes and temporary ids are keys, and never the same.
LEMMA KeysDiffer ==
  /\ \A n \in Nodes : Real(n) \in Keys /\ PendingKey(n) \in Keys
  /\ \A s \in Sockets : InboundKey(s) \in Keys
  /\ \A n, m : Real(n) = Real(m) => n = m
  /\ \A n, m : Real(n) # PendingKey(m) /\ Real(n) # InboundKey(m)
BY DEF Keys, Real, PendingKey, InboundKey

\* What is on its way to a connection, and every identification among it is that of r.
WireOK(w, r) ==
  /\ w \in Seq(Messages)
  /\ \A i \in 1..Len(w) : w[i].type = "identify" => w[i].of = r

\* The messages, by type.
LEMMA MessageTypes ==
  /\ \A n \in Nodes : /\ Identify(n) \in Messages
                      /\ Identify(n).type = "identify" /\ Identify(n).of = n
  /\ \A k \in Searches : /\ Query(k) \in Messages /\ Answer(k) \in Messages
                         /\ Query(k).type # "identify" /\ Answer(k).type # "identify"
  /\ \A m \in Messages : /\ m.type = "identify" => m.of \in Nodes
                         /\ m.type # "identify" => m.of \in Searches
<1>1. \A n \in Nodes : Identify(n) \in Messages /\ Identify(n).type = "identify" /\ Identify(n).of = n
  BY DEF Messages, Identify
<1>2. \A k \in Searches : /\ Query(k) \in Messages /\ Answer(k) \in Messages
                          /\ Query(k).type # "identify" /\ Answer(k).type # "identify"
  BY DEF Messages, Query, Answer
<1>3. ASSUME NEW m \in Messages
      PROVE  /\ m.type = "identify" => m.of \in Nodes
             /\ m.type # "identify" => m.of \in Searches
  <2>1. CASE m \in { Identify(n) : n \in Nodes }
    BY <2>1 DEF Identify
  <2>2. CASE m \in { Query(k) : k \in Searches } \cup { Answer(k) : k \in Searches }
    BY <2>2 DEF Query, Answer
  <2> QED
    BY <2>1, <2>2 DEF Messages
<1> QED
  BY <1>1, <1>2, <1>3

\* An empty wire is in order.
LEMMA EmptyOK == \A r : WireOK(<<>>, r)
BY DEF WireOK

\* A wire stays in order when a message that is true is added.
LEMMA AppendOK ==
  ASSUME NEW w, NEW r, WireOK(w, r), NEW m \in Messages, m.type = "identify" => m.of = r
  PROVE  WireOK(Append(w, m), r)
<1>1. w \in Seq(Messages) /\ Append(w, m) \in Seq(Messages) /\ Len(Append(w, m)) = Len(w) + 1
  BY DEF WireOK
<1>2. \A i \in 1..(Len(w) + 1) : Append(w, m)[i] = IF i <= Len(w) THEN w[i] ELSE m
  BY <1>1
<1> QED
  BY <1>1, <1>2 DEF WireOK

\* It stays in order when the first message is taken, and that message is true.
LEMMA TailOK ==
  ASSUME NEW w, NEW r, WireOK(w, r), w # <<>>
  PROVE  /\ WireOK(Tail(w), r)
         /\ Head(w) \in Messages
         /\ Head(w).type = "identify" => Head(w).of = r
<1>1. w \in Seq(Messages) /\ Len(w) \in Nat \ {0} /\ Head(w) = w[1]
  BY DEF WireOK
<1>2. Tail(w) \in Seq(Messages) /\ Len(Tail(w)) = Len(w) - 1
  BY <1>1
<1>3. \A i \in 1..Len(Tail(w)) : Tail(w)[i] = w[i + 1]
  BY <1>1, <1>2
<1> QED
  BY <1>1, <1>2, <1>3 DEF WireOK

-----------------------------------------------------------------------------
(* The inductive invariant *)

\* The types that the argument needs.
Types ==
  /\ link \in [Sockets -> [from: Nodes \cup {Nobody}, to: Nodes \cup {Nobody}]]
  /\ ws \in [Ends -> {"none", "connecting", "open", "closing", "closed"}]
  /\ id \in [Ends -> Keys \cup {Nobody}]
  /\ peers \in [Nodes -> [Keys -> Ends \cup {Nobody}]]
  /\ wire \in [Ends -> Seq(Messages)]
  /\ broken \subseteq Sockets

\* A socket in use is between two nodes, and at one that is not in use nothing has happened.
SocketsOK ==
  /\ \A s \in Sockets : link[s].from # Nobody => link[s].from \in Nodes /\ link[s].to \in Nodes
  /\ \A e \in Ends : link[e.socket].from = Nobody =>
       ws[e] = "none" /\ id[e] = Nobody /\ wire[e] = <<>>

\* What is being dialled has its temporary id.
DialsOK ==
  \A s \in Sockets : ws[Out(s)] = "connecting" => id[Out(s)] = PendingKey(link[s].to)

\* Nodes say who they are: an id that is a node's is that of the other side, and so is
\* every identification on its way.
IdsOK ==
  \A e \in Ends : link[e.socket].from # Nobody =>
    /\ \A n \in Nodes : id[e] = Real(n) => n = Remote(e)
    /\ WireOK(wire[e], Remote(e))

\* A live connection has an id.
Named == \A e \in Ends : ws[e] \in {"connecting", "open", "closing"} => id[e] # Nobody

Connections == Types /\ SocketsOK /\ DialsOK /\ IdsOK /\ EntriesAreLive

\* What is sent keeps the wires in order, if those who identify themselves are who they say.
LEMMA SentOK ==
  ASSUME Types, SocketsOK, IdsOK, NEW es \in SUBSET Ends, NEW m \in Messages,
         \A e \in es : /\ link[e.socket].from # Nobody
                       /\ m.type = "identify" => m.of = Owner(e)
  PROVE  /\ Sent(es, m) \in [Ends -> Seq(Messages)]
         /\ \A e \in Ends : IF link[e.socket].from = Nobody THEN Sent(es, m)[e] = <<>>
                            ELSE WireOK(Sent(es, m)[e], Remote(e))
<1>1. Sent(es, m) \in [Ends -> Seq(Messages)]
  BY DEF Sent, Types
<1>2. ASSUME NEW e \in Ends
      PROVE  IF link[e.socket].from = Nobody THEN Sent(es, m)[e] = <<>>
             ELSE WireOK(Sent(es, m)[e], Remote(e))
  <2>1. Other(e) \in es => link[e.socket].from # Nobody
    BY OtherEnd
  <2>2. CASE Other(e) \in es
    <3>1. Sent(es, m)[e] = Append(wire[e], m)
      BY <2>2 DEF Sent
    <3>2. m.type = "identify" => m.of = Remote(e)
      BY <2>2 DEF Remote
    <3>3. WireOK(wire[e], Remote(e))
      BY <2>1, <2>2 DEF IdsOK
    <3> QED
      BY <2>1, <2>2, <3>1, <3>2, <3>3, AppendOK
  <2>3. CASE Other(e) \notin es
    BY <2>3 DEF Sent, IdsOK, SocketsOK
  <2> QED
    BY <2>2, <2>3
<1> QED
  BY <1>1, <1>2

\* So does what is lost.
LEMMA CutOK ==
  ASSUME Types, SocketsOK, IdsOK, NEW es
  PROVE  /\ Cut(es) \in [Ends -> Seq(Messages)]
         /\ \A e \in Ends : IF link[e.socket].from = Nobody THEN Cut(es)[e] = <<>>
                            ELSE WireOK(Cut(es)[e], Remote(e))
BY EmptyOK DEF Cut, Types, IdsOK, SocketsOK

\* Which end is whose depends on the links alone.
LEMMA SameEnds ==
  ASSUME link' = link
  PROVE  /\ \A e : Owner(e)' = Owner(e) /\ Remote(e)' = Remote(e)
         /\ \A n : EndsOf(n)' = EndsOf(n)
BY DEF Owner, Remote, EndsOf

\* What a node has listed is its own and live.
LEMMA ListedIsLive ==
  ASSUME Types, EntriesAreLive, NEW n \in Nodes, NEW e \in Listed(n)
  PROVE  /\ e \in Ends /\ e \in EndsOf(n) /\ Owner(e) = n /\ link[e.socket].from # Nobody
         /\ ws[e] \in {"connecting", "open", "closing"}
         /\ peers[n][id[e]] = e /\ id[e] \in Keys
BY DEF Listed, EntriesAreLive, EndsOf, Types

-----------------------------------------------------------------------------
(* Every step keeps it *)

\* Initially there are no connections.
LEMMA ConnectionsInit == Init => Connections
<1> SUFFICES ASSUME Init PROVE Connections
  OBVIOUS
<1> USE DEF Init
<1>1. Types
  BY MeshAssumption DEF Types
<1>2. SocketsOK
  BY OtherEnd DEF SocketsOK
<1>3. DialsOK
  BY EndsOfSocket DEF DialsOK
<1>4. IdsOK
  BY OtherEnd DEF IdsOK
<1>5. EntriesAreLive
  BY DEF EntriesAreLive
<1> QED
  BY <1>1, <1>2, <1>3, <1>4, <1>5 DEF Connections

\* Dialling.
LEMMA DialKeeps ==
  ASSUME Connections, NEW n \in Nodes, NEW m \in Nodes, Dial(n, m)
  PROVE  Connections'
<1> USE DEF Connections
<1>1. PICK s \in Sockets :
        /\ link[s].from = Nobody
        /\ link' = [link EXCEPT ![s] = [from |-> n, to |-> m]]
        /\ ws' = [ws EXCEPT ![Out(s)] = "connecting"]
        /\ id' = [id EXCEPT ![Out(s)] = PendingKey(m)]
        /\ peers' = [peers EXCEPT ![n][PendingKey(m)] = Out(s)]
  BY DEF Dial
<1>2. wire' = wire /\ broken' = broken
  BY DEF Dial
<1>3. n # Nobody /\ m # Nobody
  BY MeshAssumption
<1>4. link'[s] = [from |-> n, to |-> m] /\ \A t \in Sockets \ {s} : link'[t] = link[t]
  BY <1>1 DEF Types
<1>5. \A e \in Ends : e.socket # s =>
        /\ Owner(e)' = Owner(e) /\ Remote(e)' = Remote(e)
        /\ ws'[e] = ws[e] /\ id'[e] = id[e]
  BY <1>1, <1>4, OtherEnd, EndsOfSocket DEF Owner, Remote, Types
<1>6. Types'
  BY <1>1, <1>2, EndsOfSocket, KeysDiffer DEF Types
<1>7. SocketsOK'
  BY <1>1, <1>2, <1>3, <1>4, <1>5, OtherEnd DEF SocketsOK
<1>8. DialsOK'
  <2>1. ASSUME NEW t \in Sockets \ {s} PROVE (ws[Out(t)] = "connecting" => id[Out(t)] = PendingKey(link[t].to))'
    BY <1>4, <1>5, <2>1, EndsOfSocket DEF DialsOK
  <2>2. id'[Out(s)] = PendingKey(m)
    BY <1>1, EndsOfSocket DEF Types
  <2> QED
    BY <1>4, <2>1, <2>2 DEF DialsOK
<1>9. IdsOK'
  <2>1. ASSUME NEW e \in Ends, e.socket = s
        PROVE  (\A r \in Nodes : id[e] # Real(r))' /\ wire'[e] = <<>>
    <3>1. id[e] = Nobody /\ wire[e] = <<>>
      BY <1>1, <2>1 DEF SocketsOK
    <3>2. id'[e] = PendingKey(m) \/ id'[e] = id[e]
      BY <1>1 DEF Types
    <3> QED
      BY <1>2, <3>1, <3>2, KeysDiffer, MeshAssumption
  <2>2. ASSUME NEW e \in Ends, e.socket # s, link'[e.socket].from # Nobody
        PROVE  /\ \A r \in Nodes : id'[e] = Real(r) => r = Remote(e)'
               /\ WireOK(wire'[e], Remote(e)')
    BY <1>2, <1>4, <1>5, <2>2, OtherEnd DEF IdsOK
  <2>3. \A e \in Ends : e.socket = s => WireOK(wire'[e], Remote(e)')
    BY <2>1, EmptyOK
  <2> QED
    BY <2>1, <2>2, <2>3 DEF IdsOK, WireOK
<1>10. EntriesAreLive'
  <2> SUFFICES ASSUME NEW x \in Nodes, NEW k \in Keys, peers'[x][k] # Nobody
               PROVE  /\ peers'[x][k] \in EndsOf(x)'
                      /\ id'[peers'[x][k]] = k
                      /\ ws'[peers'[x][k]] \in {"connecting", "open", "closing"}
    BY DEF EntriesAreLive
  <2>1. CASE x = n /\ k = PendingKey(m)
    <3>1. peers'[x][k] = Out(s)
      BY <1>1, <2>1, KeysDiffer DEF Types
    <3>2. Owner(Out(s))' = n
      BY <1>4, EndsOfSocket DEF Owner
    <3> QED
      BY <1>1, <1>3, <1>4, <2>1, <3>1, <3>2, EndsOfSocket DEF Types, EndsOf
  <2>2. CASE ~ (x = n /\ k = PendingKey(m))
    <3>1. peers'[x][k] = peers[x][k]
      BY <1>1, <2>2 DEF Types
    <3>2. peers[x][k] \in Listed(x)
      BY <3>1 DEF Listed
    <3>3. peers[x][k] \in Ends /\ peers[x][k].socket # s
      BY <1>1, <3>2, ListedIsLive
    <3> QED
      BY <1>4, <1>5, <3>1, <3>2, <3>3, ListedIsLive, OtherEnd DEF EntriesAreLive, EndsOf
  <2> QED
    BY <2>1, <2>2
<1> QED
  BY <1>6, <1>7, <1>8, <1>9, <1>10

\* What remains to be shown of a step that dials nothing.
LEMMA SameLinks ==
  ASSUME Connections, link' = link,
         wire' \in [Ends -> Seq(Messages)],
         \A e \in Ends : IF link[e.socket].from = Nobody
                        THEN wire'[e] = <<>> /\ ws'[e] = ws[e] /\ id'[e] = id[e]
                        ELSE WireOK(wire'[e], Remote(e)),
         \A e \in Ends, n \in Nodes : id'[e] = Real(n) => id[e] = Real(n) \/ n = Remote(e)
  PROVE  SocketsOK' /\ IdsOK'
<1>1. SocketsOK'
  BY OtherEnd DEF Connections, SocketsOK
<1>2. IdsOK'
  <2>1. \A e \in Ends : Remote(e)' = Remote(e)
    BY SameEnds
  <2> QED
    BY <2>1 DEF Connections, IdsOK, WireOK
<1> QED
  BY <1>1, <1>2

\* An accepted connection.
LEMMA AcceptKeeps ==
  ASSUME Connections, NEW s \in Sockets, Accept(s)
  PROVE  Connections'
<1> USE DEF Connections
<1>1. /\ ws[Out(s)] = "connecting" /\ ws[In(s)] = "none"
      /\ ws' = [ws EXCEPT ![In(s)] = "open"]
      /\ id' = [id EXCEPT ![In(s)] = InboundKey(s)]
      /\ peers' = [peers EXCEPT ![link[s].to][InboundKey(s)] = In(s)]
      /\ wire' = Sent({In(s)}, Identify(link[s].to))
      /\ link' = link /\ broken' = broken
  BY DEF Accept
<1>2. link[s].from \in Nodes /\ link[s].to \in Nodes /\ link[s].from # Nobody
  BY <1>1, EndsOfSocket DEF SocketsOK
<1>3. Owner(In(s)) = link[s].to
  BY EndsOfSocket DEF Owner
<1>4. /\ wire' \in [Ends -> Seq(Messages)]
      /\ \A e \in Ends : IF link[e.socket].from = Nobody THEN wire'[e] = <<>>
                         ELSE WireOK(wire'[e], Remote(e))
  <2>1. {In(s)} \in SUBSET Ends /\ Identify(link[s].to) \in Messages
    BY <1>2, EndsOfSocket, MessageTypes
  <2>2. \A e \in {In(s)} : /\ link[e.socket].from # Nobody
                           /\ Identify(link[s].to).of = Owner(e)
    BY <1>2, <1>3, EndsOfSocket, MessageTypes
  <2> QED
    BY <1>1, <2>1, <2>2, SentOK
<1>5. Types'
  BY <1>1, <1>2, <1>4, EndsOfSocket, KeysDiffer DEF Types
<1>6. SocketsOK' /\ IdsOK'
  <2>1. \A e \in Ends : link[e.socket].from = Nobody => ws'[e] = ws[e] /\ id'[e] = id[e]
    BY <1>1, <1>2, EndsOfSocket DEF Types
  <2>2. \A e \in Ends, n \in Nodes : id'[e] = Real(n) => id[e] = Real(n)
    BY <1>1, KeysDiffer DEF Types
  <2> QED
    BY <1>1, <1>4, <2>1, <2>2, SameLinks
<1>7. DialsOK'
  BY <1>1, EndsOfSocket DEF DialsOK, Types, In, Out
<1>8. EntriesAreLive'
  <2> SUFFICES ASSUME NEW x \in Nodes, NEW k \in Keys, peers'[x][k] # Nobody
               PROVE  /\ peers'[x][k] \in EndsOf(x)
                      /\ id'[peers'[x][k]] = k
                      /\ ws'[peers'[x][k]] \in {"connecting", "open", "closing"}
    BY <1>1, SameEnds DEF EntriesAreLive
  <2>1. CASE x = link[s].to /\ k = InboundKey(s)
    <3>1. peers'[x][k] = In(s)
      BY <1>1, <2>1 DEF Types
    <3> QED
      BY <1>1, <1>2, <1>3, <2>1, <3>1, EndsOfSocket DEF Types, EndsOf
  <2>2. CASE ~ (x = link[s].to /\ k = InboundKey(s))
    <3>1. peers'[x][k] = peers[x][k]
      BY <1>1, <2>2 DEF Types
    <3>2. peers[x][k] \in Listed(x)
      BY <3>1 DEF Listed
    <3>3. peers[x][k] \in Ends /\ peers[x][k] # In(s)
      BY <1>1, <3>2, ListedIsLive
    <3> QED
      BY <1>1, <3>1, <3>3 DEF EntriesAreLive, Types
  <2> QED
    BY <2>1, <2>2
<1> QED
  BY <1>5, <1>6, <1>7, <1>8

\* A dial that succeeds.
LEMMA OpenKeeps ==
  ASSUME Connections, NEW s \in Sockets, Open(s)
  PROVE  Connections'
<1> USE DEF Connections
<1>1. /\ ws[Out(s)] = "connecting"
      /\ ws' = [ws EXCEPT ![Out(s)] = "open"]
      /\ wire' = wire \/ wire' = Sent({Out(s)}, Identify(link[s].from))
      /\ link' = link /\ id' = id /\ peers' = peers /\ broken' = broken
  BY DEF Open
<1>2. link[s].from \in Nodes /\ link[s].from # Nobody
  BY <1>1, EndsOfSocket DEF SocketsOK
<1>3. Owner(Out(s)) = link[s].from
  BY EndsOfSocket DEF Owner
<1>4. /\ wire' \in [Ends -> Seq(Messages)]
      /\ \A e \in Ends : IF link[e.socket].from = Nobody THEN wire'[e] = <<>>
                         ELSE WireOK(wire'[e], Remote(e))
  <2>1. {Out(s)} \in SUBSET Ends /\ Identify(link[s].from) \in Messages
    BY <1>2, EndsOfSocket, MessageTypes
  <2>2. \A e \in {Out(s)} : /\ link[e.socket].from # Nobody
                            /\ Identify(link[s].from).of = Owner(e)
    BY <1>2, <1>3, EndsOfSocket, MessageTypes
  <2>3. CASE wire' = wire
    BY <2>3 DEF Types, SocketsOK, IdsOK
  <2>4. CASE wire' = Sent({Out(s)}, Identify(link[s].from))
    BY <2>1, <2>2, <2>4, SentOK
  <2> QED
    BY <1>1, <2>3, <2>4
<1>5. Types'
  BY <1>1, <1>4 DEF Types
<1>6. SocketsOK' /\ IdsOK'
  <2>1. \A e \in Ends : link[e.socket].from = Nobody => ws'[e] = ws[e] /\ id'[e] = id[e]
    BY <1>1, <1>2, EndsOfSocket DEF Types
  <2> QED
    BY <1>1, <1>4, <2>1, SameLinks
<1>7. DialsOK'
  BY <1>1, EndsOfSocket DEF DialsOK, Types
<1>8. EntriesAreLive'
  BY <1>1, SameEnds DEF EntriesAreLive, Types
<1> QED
  BY <1>5, <1>6, <1>7, <1>8

\* Ends of a node that close, their entries gone from its map, which may lose any others.
LEMMA EndsCloseKeeps ==
  ASSUME Connections, NEW n \in Nodes, NEW gone \in SUBSET EndsOf(n), NEW keys,
         \A e \in gone, k \in Keys : peers[n][k] = e => k \in keys,
         link' = link, broken' \subseteq Sockets,
         ws' \in [Ends -> {"none", "connecting", "open", "closing", "closed"}],
         \A e \in Ends \ gone : ws'[e] = ws[e],
         \A e \in gone : ws'[e] \in {"closing", "closed"},
         id' \in [Ends -> Keys \cup {Nobody}],
         \A e \in Ends : id'[e] = id[e] \/ (e \in gone /\ id'[e] = Nobody),
         peers' = [peers EXCEPT ![n] = Without(@, keys)],
         \E es : wire' = Cut(es)
  PROVE  Connections'
<1> USE DEF Connections
<1>1. Types'
  BY CutOK DEF Types, Without
<1>2. \A e \in gone : e \in Ends /\ link[e.socket].from # Nobody /\ Owner(e) = n
  BY DEF EndsOf
<1>3. SocketsOK' /\ IdsOK'
  <2>1. \A e \in Ends : link[e.socket].from = Nobody => ws'[e] = ws[e] /\ id'[e] = id[e]
    BY <1>2
  <2>2. \A e \in Ends, m \in Nodes : id'[e] = Real(m) => id[e] = Real(m)
    BY KeysDiffer, MeshAssumption
  <2>3. /\ wire' \in [Ends -> Seq(Messages)]
        /\ \A e \in Ends : IF link[e.socket].from = Nobody THEN wire'[e] = <<>>
                           ELSE WireOK(wire'[e], Remote(e))
    BY CutOK
  <2> QED
    BY <2>1, <2>2, <2>3, SameLinks
<1>4. DialsOK'
  BY EndsOfSocket DEF DialsOK
<1>5. EntriesAreLive'
  <2> SUFFICES ASSUME NEW x \in Nodes, NEW k \in Keys, peers'[x][k] # Nobody
               PROVE  /\ peers'[x][k] \in EndsOf(x)
                      /\ id'[peers'[x][k]] = k
                      /\ ws'[peers'[x][k]] \in {"connecting", "open", "closing"}
    BY SameEnds DEF EntriesAreLive
  <2>1. peers'[x][k] = peers[x][k] /\ (x = n => k \notin keys)
    BY DEF Types, Without
  <2>2. peers[x][k] \in Listed(x)
    BY <2>1 DEF Listed
  <2>3. peers[x][k] \in Ends /\ Owner(peers[x][k]) = x
    BY <2>2, ListedIsLive
  <2>4. peers[x][k] \notin gone
    BY <1>2, <2>1, <2>3
  <2> QED
    BY <2>1, <2>3, <2>4 DEF EntriesAreLive
<1> QED
  BY <1>1, <1>3, <1>4, <1>5

\* A dial that fails.
LEMMA DialFailsKeeps ==
  ASSUME Connections, NEW s \in Sockets, DialFails(s)
  PROVE  Connections'
<1>1. /\ ws[Out(s)] = "connecting"
      /\ ws' = [ws EXCEPT ![Out(s)] = "closed"]
      /\ peers' = [peers EXCEPT ![link[s].from] = Without(@, {TempKey(Out(s))})]
      /\ wire' = Cut({Out(s)})
      /\ broken' = broken \cup {s}
      /\ link' = link /\ id' = id
  BY DEF DialFails
<1>2. link[s].from \in Nodes /\ link[s].to \in Nodes /\ link[s].from # Nobody
  BY <1>1, EndsOfSocket DEF Connections, SocketsOK
<1>3. {Out(s)} \in SUBSET EndsOf(link[s].from)
  BY <1>2, EndsOfSocket DEF EndsOf, Owner
<1>4. TempKey(Out(s)) = id[Out(s)]
  BY <1>1, <1>2, EndsOfSocket DEF Connections, DialsOK, TempKey, Remote, Owner
<1>5. \A k \in Keys : peers[link[s].from][k] = Out(s) => k \in {TempKey(Out(s))}
  BY <1>2, <1>4, EndsOfSocket, MeshAssumption DEF Connections, EntriesAreLive
<1>6. /\ ws' \in [Ends -> {"none", "connecting", "open", "closing", "closed"}]
      /\ \A e \in Ends \ {Out(s)} : ws'[e] = ws[e]
      /\ ws'[Out(s)] = "closed"
      /\ broken' \subseteq Sockets
      /\ id' \in [Ends -> Keys \cup {Nobody}]
  BY <1>1, EndsOfSocket DEF Connections, Types
<1> DEFINE gone == {Out(s)}
           keys == {TempKey(Out(s))}
<1>7. /\ gone \in SUBSET EndsOf(link[s].from)
      /\ \A e \in gone, k \in Keys : peers[link[s].from][k] = e => k \in keys
      /\ \A e \in Ends \ gone : ws'[e] = ws[e]
      /\ \A e \in gone : ws'[e] \in {"closing", "closed"}
      /\ peers' = [peers EXCEPT ![link[s].from] = Without(@, keys)]
      /\ \E es : wire' = Cut(es)
      /\ \A e \in Ends : id'[e] = id[e] \/ (e \in gone /\ id'[e] = Nobody)
  BY <1>1, <1>3, <1>5, <1>6
<1> HIDE DEF gone, keys
<1>8. link' = link
  BY <1>1
<1> QED
  BY <1>2, <1>6, <1>7, <1>8, EndsCloseKeeps

\* A connection that closes.
LEMMA CloseKeeps ==
  ASSUME Connections, NEW e \in Ends, Close(e)
  PROVE  Connections'
<1>1. /\ ws[e] \in {"open", "closing"}
      /\ ws' = [ws EXCEPT ![e] = "closed"]
      /\ peers' = [peers EXCEPT ![Owner(e)] = Without(@, {id[e], TempKey(e)})]
      /\ wire' = Cut({e})
      /\ link' = link /\ id' = id /\ broken' = broken
  BY DEF Close, MayClose
<1>2. link[e.socket].from # Nobody /\ Owner(e) \in Nodes
  BY <1>1, OtherEnd DEF Connections, SocketsOK, Owner
<1>3. {e} \in SUBSET EndsOf(Owner(e))
  BY <1>2 DEF EndsOf
<1>4. \A k \in Keys : peers[Owner(e)][k] = e => k \in {id[e], TempKey(e)}
  BY <1>2, MeshAssumption DEF Connections, EntriesAreLive
<1>5. /\ ws' \in [Ends -> {"none", "connecting", "open", "closing", "closed"}]
      /\ \A d \in Ends \ {e} : ws'[d] = ws[d]
      /\ ws'[e] = "closed"
      /\ broken' \subseteq Sockets
      /\ id' \in [Ends -> Keys \cup {Nobody}]
  BY <1>1 DEF Connections, Types
<1> DEFINE n == Owner(e)
           gone == {e}
           keys == {id[e], TempKey(e)}
<1>6. /\ n \in Nodes /\ gone \in SUBSET EndsOf(n)
      /\ \A d \in gone, k \in Keys : peers[n][k] = d => k \in keys
      /\ \A d \in Ends \ gone : ws'[d] = ws[d]
      /\ \A d \in gone : ws'[d] \in {"closing", "closed"}
      /\ peers' = [peers EXCEPT ![n] = Without(@, keys)]
      /\ \E es : wire' = Cut(es)
      /\ \A d \in Ends : id'[d] = id[d] \/ (d \in gone /\ id'[d] = Nobody)
  BY <1>1, <1>2, <1>3, <1>4, <1>5
<1> HIDE DEF n, gone, keys
<1>7. link' = link
  BY <1>1
<1> QED
  BY <1>5, <1>6, <1>7, EndsCloseKeeps

\* A node that stops.
LEMMA StopKeeps ==
  ASSUME Connections, NEW n \in Nodes, Stop(n)
  PROVE  Connections'
<1>1. /\ ws' = [e \in Ends |->
                  IF e \notin Listed(n) THEN ws[e]
                  ELSE IF ws[e] = "connecting" THEN "closed" ELSE "closing"]
      /\ broken' = broken \cup { e.socket : e \in { d \in Listed(n) : ws[d] = "connecting" } }
      /\ wire' = Cut({ e \in Listed(n) : ws[e] = "connecting" })
      /\ peers' = [peers EXCEPT ![n] = Without(@, Keys)]
      /\ link' = link /\ id' = id
  BY DEF Stop
<1>2. Types /\ EntriesAreLive
  BY DEF Connections
<1>3. Listed(n) \in SUBSET EndsOf(n) /\ Listed(n) \subseteq Ends
  BY <1>2, ListedIsLive
<1>4. /\ ws' \in [Ends -> {"none", "connecting", "open", "closing", "closed"}]
      /\ \A e \in Ends \ Listed(n) : ws'[e] = ws[e]
      /\ \A e \in Listed(n) : ws'[e] \in {"closing", "closed"}
      /\ id' \in [Ends -> Keys \cup {Nobody}]
  BY <1>1, <1>2, <1>3 DEF Types
<1>5. broken' \subseteq Sockets
  <2>1. \A e \in Listed(n) : e.socket \in Sockets
    BY <1>3, OtherEnd
  <2> QED
    BY <1>1, <1>2, <2>1 DEF Types
<1>6. \A e \in Listed(n), k \in Keys : peers[n][k] = e => k \in Keys
  OBVIOUS
<1> QED
  BY <1>1, <1>3, <1>4, <1>5, <1>6, EndsCloseKeeps

\* A node that starts again.
LEMMA RestartKeeps ==
  ASSUME Connections, NEW n \in Nodes, Restart(n)
  PROVE  Connections'
<1> DEFINE gone == { e \in EndsOf(n) : ws[e] # "none" }
<1>1. /\ ws' = [e \in Ends |-> IF e \in gone THEN "closed" ELSE ws[e]]
      /\ id' = [e \in Ends |-> IF e \in gone THEN Nobody ELSE id[e]]
      /\ broken' = broken \cup { e.socket : e \in gone }
      /\ wire' = Cut(gone)
      /\ peers' = [peers EXCEPT ![n] = Without(@, Keys)]
      /\ link' = link
  BY DEF Restart
<1>2. gone \in SUBSET EndsOf(n) /\ gone \subseteq Ends
  BY DEF EndsOf
<1> HIDE DEF gone
<1>3. /\ ws' \in [Ends -> {"none", "connecting", "open", "closing", "closed"}]
      /\ \A e \in Ends \ gone : ws'[e] = ws[e]
      /\ \A e \in gone : ws'[e] \in {"closing", "closed"}
      /\ id' \in [Ends -> Keys \cup {Nobody}]
      /\ \A e \in Ends : id'[e] = id[e] \/ (e \in gone /\ id'[e] = Nobody)
  BY <1>1, <1>2 DEF Connections, Types
<1>4. broken' \subseteq Sockets
  <2>1. \A e \in gone : e.socket \in Sockets
    BY <1>2, OtherEnd
  <2> QED
    BY <1>1, <2>1 DEF Connections, Types
<1>5. \A e \in gone, k \in Keys : peers[n][k] = e => k \in Keys
  OBVIOUS
<1> QED
  BY <1>1, <1>2, <1>3, <1>4, <1>5, EndsCloseKeeps

\* A step that touches nothing but the wires, and keeps those in order.
LEMMA WiresKeep ==
  ASSUME Connections, UNCHANGED <<link, ws, id, peers>>, broken' \subseteq Sockets,
         wire' \in [Ends -> Seq(Messages)],
         \A e \in Ends : IF link[e.socket].from = Nobody THEN wire'[e] = <<>>
                        ELSE WireOK(wire'[e], Remote(e))
  PROVE  Connections'
<1> USE DEF Connections
<1>1. SocketsOK' /\ IdsOK'
  BY SameLinks
<1>2. EntriesAreLive'
  BY SameEnds DEF EntriesAreLive
<1> QED
  BY <1>1, <1>2 DEF Types, DialsOK

\* A wire from which a message is read.
LEMMA ReadOK ==
  ASSUME Connections, NEW e \in Ends, ws[e] \in {"open", "closing"}, wire[e] # <<>>,
         NEW rest, rest = [wire EXCEPT ![e] = Tail(@)]
  PROVE  /\ link[e.socket].from # Nobody /\ Owner(e) \in Nodes /\ Remote(e) \in Nodes
         /\ Head(wire[e]) \in Messages
         /\ Head(wire[e]).type = "identify" => Head(wire[e]).of = Remote(e)
         /\ rest \in [Ends -> Seq(Messages)]
         /\ \A d \in Ends : IF link[d.socket].from = Nobody THEN rest[d] = <<>>
                            ELSE WireOK(rest[d], Remote(d))
<1> USE DEF Connections
<1>1. link[e.socket].from # Nobody /\ Owner(e) \in Nodes /\ Remote(e) \in Nodes
  BY OtherEnd DEF SocketsOK, Owner, Remote
<1>2. WireOK(wire[e], Remote(e))
  BY <1>1 DEF IdsOK
<1>3. rest[e] = Tail(wire[e]) /\ \A d \in Ends \ {e} : rest[d] = wire[d]
  BY DEF Types
<1>4. WireOK(rest[e], Remote(e))
  BY <1>2, <1>3, TailOK
<1>5. rest \in [Ends -> Seq(Messages)]
  <2>1. Tail(wire[e]) \in Seq(Messages)
    BY <1>3, <1>4 DEF WireOK
  <2> QED
    BY <2>1 DEF Types
<1> QED
  BY <1>1, <1>2, <1>3, <1>4, <1>5, TailOK DEF SocketsOK, IdsOK

\* An identification.
LEMMA IdentifiedKeeps ==
  ASSUME Connections, NEW e \in Ends, ws[e] \in {"open", "closing"}, wire[e] # <<>>,
         Head(wire[e]).type = "identify", Identified(e, Head(wire[e]).of),
         UNCHANGED <<link, ws, broken>>
  PROVE  Connections'
<1> USE DEF Connections
<1> DEFINE n == Remote(e)
<1>1. /\ link[e.socket].from # Nobody /\ Owner(e) \in Nodes /\ n \in Nodes
      /\ Head(wire[e]).of = n
      /\ wire' \in [Ends -> Seq(Messages)]
      /\ \A d \in Ends : IF link[d.socket].from = Nobody THEN wire'[d] = <<>>
                         ELSE WireOK(wire'[d], Remote(d))
  BY ReadOK DEF Identified
<1>2. /\ id' = [id EXCEPT ![e] = Real(n)]
      /\ peers' = IF id[e] = Real(n) THEN peers
                  ELSE [peers EXCEPT ![Owner(e)] =
                          [Without(@, {id[e]}) EXCEPT ![Real(n)] = e]]
  BY <1>1 DEF Identified
<1> HIDE DEF n
<1>3. Real(n) \in Keys
  BY <1>1, KeysDiffer
<1>4. Types'
  <2>1. id' \in [Ends -> Keys \cup {Nobody}]
    BY <1>2, <1>3 DEF Types
  <2>2. peers' \in [Nodes -> [Keys -> Ends \cup {Nobody}]]
    BY <1>1, <1>2, <1>3 DEF Types, Without
  <2> QED
    BY <1>1, <2>1, <2>2 DEF Types
<1>5. SocketsOK' /\ IdsOK'
  <2>1. \A d \in Ends : link[d.socket].from = Nobody => id'[d] = id[d]
    BY <1>1, <1>2 DEF Types
  <2>2. \A d \in Ends, m \in Nodes : id'[d] = Real(m) => id[d] = Real(m) \/ m = Remote(d)
    BY <1>2, KeysDiffer DEF Types, n
  <2> QED
    BY <1>1, <2>1, <2>2, SameLinks
<1>6. DialsOK'
  <2>1. \A s \in Sockets : ws[Out(s)] = "connecting" => Out(s) # e
    OBVIOUS
  <2> QED
    BY <1>2, <2>1, EndsOfSocket DEF DialsOK, Types
<1>7. EntriesAreLive'
  <2> SUFFICES ASSUME NEW x \in Nodes, NEW k \in Keys, peers'[x][k] # Nobody
               PROVE  /\ peers'[x][k] \in EndsOf(x)
                      /\ id'[peers'[x][k]] = k
                      /\ ws[peers'[x][k]] \in {"connecting", "open", "closing"}
    BY SameEnds DEF EntriesAreLive
  <2>1. CASE id[e] = Real(n)
    BY <1>2, <2>1 DEF EntriesAreLive, Types
  <2>2. CASE id[e] # Real(n) /\ x = Owner(e) /\ k = Real(n)
    <3>1. peers'[x][k] = e
      BY <1>2, <2>2 DEF Types, Without
    <3>2. e \in EndsOf(x) /\ id'[e] = k
      BY <1>1, <1>2, <2>2 DEF EndsOf, Types
    <3> QED
      BY <3>1, <3>2
  <2>3. CASE id[e] # Real(n) /\ ~ (x = Owner(e) /\ k = Real(n))
    <3>1. peers'[x][k] = peers[x][k] /\ (x = Owner(e) => k # id[e])
      BY <1>2, <2>3 DEF Types, Without
    <3>2. peers[x][k] \in EndsOf(x) /\ id[peers[x][k]] = k
          /\ ws[peers[x][k]] \in {"connecting", "open", "closing"}
      BY <3>1 DEF EntriesAreLive
    <3>3. peers[x][k] # e /\ peers[x][k] \in Ends
      BY <3>1, <3>2 DEF EndsOf
    <3> QED
      BY <1>2, <3>1, <3>2, <3>3 DEF Types
  <2> QED
    BY <2>1, <2>2, <2>3
<1> QED
  BY <1>4, <1>5, <1>6, <1>7

\* A query.
LEMMA QueriedKeeps ==
  ASSUME Connections, Named, NEW e \in Ends, ws[e] \in {"open", "closing"}, wire[e] # <<>>,
         NEW k \in Searches, Queried(e, k),
         UNCHANGED <<link, ws, broken>>
  PROVE  Connections'
<1> USE DEF Connections
<1> DEFINE via == peers[Owner(e)][id[e]]
           rest == [wire EXCEPT ![e] = Tail(@)]
<1>1. /\ Owner(e) \in Nodes
      /\ rest \in [Ends -> Seq(Messages)]
      /\ \A d \in Ends : IF link[d.socket].from = Nobody THEN rest[d] = <<>>
                         ELSE WireOK(rest[d], Remote(d))
  BY ReadOK
<1>2. \/ wire' = rest
      \/ /\ via # Nobody /\ ws[via] = "open"
         /\ wire' = [rest EXCEPT ![Other(via)] = Append(@, Answer(k))]
  BY DEF Queried, CanSend
<1>3. UNCHANGED <<link, ws, id, peers>> /\ broken' \subseteq Sockets
  BY DEF Queried, Types
<1> HIDE DEF rest
<1>4. CASE wire' = rest
  BY <1>1, <1>3, <1>4, WiresKeep
<1>5. CASE /\ via # Nobody /\ ws[via] = "open"
           /\ wire' = [rest EXCEPT ![Other(via)] = Append(@, Answer(k))]
  <2>1. via \in EndsOf(Owner(e))
    <3>1. id[e] \in Keys
      BY DEF Named, Types
    <3> QED
      BY <1>1, <1>5, <3>1 DEF EntriesAreLive
  <2> HIDE DEF via
  <2> DEFINE d == Other(via)
  <2>2. d \in Ends /\ link[d.socket].from # Nobody
    BY <2>1, OtherEnd DEF EndsOf
  <2>3. wire' = [rest EXCEPT ![d] = Append(@, Answer(k))]
    BY <1>5
  <2> HIDE DEF d
  <2>4. WireOK(Append(rest[d], Answer(k)), Remote(d))
    BY <1>1, <2>2, AppendOK, MessageTypes
  <2>5. Append(rest[d], Answer(k)) \in Seq(Messages)
    BY <2>4 DEF WireOK
  <2>6. wire' \in [Ends -> Seq(Messages)]
    BY <1>1, <2>3, <2>5
  <2>7. \A c \in Ends : IF link[c.socket].from = Nobody THEN wire'[c] = <<>>
                        ELSE WireOK(wire'[c], Remote(c))
    BY <1>1, <2>2, <2>3, <2>4
  <2> QED
    BY <1>3, <2>6, <2>7, WiresKeep
<1> QED
  BY <1>2, <1>4, <1>5

\* Any message.
LEMMA ReceiveKeeps ==
  ASSUME Connections, Named, NEW e \in Ends, Receive(e)
  PROVE  Connections'
<1> DEFINE m == Head(wire[e])
<1>1. /\ ws[e] \in {"open", "closing"} /\ wire[e] # <<>>
      /\ UNCHANGED <<link, ws, broken>>
      /\ \/ m.type = "identify" /\ Identified(e, m.of)
         \/ m.type = "search" /\ Queried(e, m.of)
         \/ m.type = "search:response" /\ Answered(e, m.of)
  BY DEF Receive
<1>2. m.type # "identify" => m.of \in Searches
  BY <1>1, ReadOK, MessageTypes
<1>3. CASE m.type = "identify" /\ Identified(e, m.of)
  BY <1>1, <1>3, IdentifiedKeeps
<1>4. CASE m.type = "search" /\ Queried(e, m.of)
  BY <1>1, <1>2, <1>4, QueriedKeeps
<1>5. CASE m.type = "search:response" /\ Answered(e, m.of)
  <2>1. wire' = [wire EXCEPT ![e] = Tail(@)] /\ UNCHANGED <<link, ws, id, peers, broken>>
    BY <1>1, <1>5 DEF Answered
  <2>2. broken' \subseteq Sockets
    BY <2>1 DEF Connections, Types
  <2> QED
    BY <1>1, <2>1, <2>2, ReadOK, WiresKeep
<1> QED
  BY <1>1, <1>3, <1>4, <1>5

\* A search.
LEMMA SearchKeeps ==
  ASSUME Connections, NEW n \in Nodes, NEW k \in Searches, Search(n, k)
  PROVE  Connections'
<1> DEFINE es == { e \in Listed(n) : Connected(e) /\ CanSend(e) }
<1>1. UNCHANGED <<link, ws, id, peers, broken>> /\ wire' = Sent(es, Query(k))
  <2>1. { e \in { d \in Listed(n) : Connected(d) } : CanSend(e) } = es
    OBVIOUS
  <2> QED
    BY <2>1 DEF Search
<1>2. es \in SUBSET Ends /\ \A e \in es : link[e.socket].from # Nobody
  BY ListedIsLive DEF Connections
<1> HIDE DEF es
<1>3. Query(k) \in Messages /\ Query(k).type # "identify"
  BY MessageTypes
<1>4. /\ wire' \in [Ends -> Seq(Messages)]
      /\ \A e \in Ends : IF link[e.socket].from = Nobody THEN wire'[e] = <<>>
                         ELSE WireOK(wire'[e], Remote(e))
  BY <1>1, <1>2, <1>3, SentOK DEF Connections
<1>5. broken' \subseteq Sockets
  BY <1>1 DEF Connections, Types
<1> QED
  BY <1>1, <1>4, <1>5, WiresKeep

\* Steps that do not concern the connections, and one that breaks a socket.
LEMMA OthersKeep ==
  ASSUME Connections, UNCHANGED <<link, ws, id, peers, wire>>,
         broken' \subseteq Sockets
  PROVE  Connections'
<1>1. /\ wire' \in [Ends -> Seq(Messages)]
      /\ \A e \in Ends : IF link[e.socket].from = Nobody THEN wire'[e] = <<>>
                         ELSE WireOK(wire'[e], Remote(e))
  BY DEF Connections, Types, SocketsOK, IdsOK
<1> QED
  BY <1>1, WiresKeep

\* Every step keeps the connections in order.
LEMMA ConnectionsStep ==
  ASSUME Connections, Named, [Next]_vars
  PROVE  Connections'
<1>1. ASSUME NEW n \in Nodes, NEW m \in Nodes, Dial(n, m) PROVE Connections'
  BY <1>1, DialKeeps
<1>2. ASSUME NEW s \in Sockets, Accept(s) \/ Open(s) \/ DialFails(s) PROVE Connections'
  BY <1>2, AcceptKeeps, OpenKeeps, DialFailsKeeps
<1>3. ASSUME NEW s \in Sockets, Break(s) PROVE Connections'
  <2>1. UNCHANGED <<link, ws, id, peers, wire>> /\ broken' \subseteq Sockets
    BY <1>3 DEF Break, Connections, Types
  <2> QED
    BY <2>1, OthersKeep
<1>4. ASSUME NEW e \in Ends, Close(e) \/ Receive(e) PROVE Connections'
  BY <1>4, CloseKeeps, ReceiveKeeps
<1>5. ASSUME NEW n \in Nodes, NEW k \in Searches, Search(n, k) PROVE Connections'
  BY <1>5, SearchKeeps
<1>6. CASE \/ \E e \in Ends, k \in Searches : RequestTimeout(e, k) \/ SearchTimeout(e, k)
           \/ \E k \in Searches : SearchReturns(k)
           \/ UNCHANGED vars
  <2>1. UNCHANGED <<link, ws, id, peers, wire, broken>>
    BY <1>6 DEF RequestTimeout, SearchTimeout, SearchReturns, vars, connVars
  <2>2. broken' \subseteq Sockets
    BY <2>1 DEF Connections, Types
  <2> QED
    BY <2>1, <2>2, OthersKeep
<1>7. ASSUME NEW n \in Nodes, Stop(n) \/ Restart(n) PROVE Connections'
  BY <1>7, StopKeeps, RestartKeeps
<1> QED
  BY <1>1, <1>2, <1>3, <1>4, <1>5, <1>6, <1>7 DEF Next

\* Live connections keep an id.
LEMMA NamedStep ==
  ASSUME Connections, Named, [Next]_vars
  PROVE  Named'
<1> USE DEF Named, Connections, Types
<1>1. ASSUME NEW n \in Nodes, NEW m \in Nodes, Dial(n, m) PROVE Named'
  BY <1>1, KeysDiffer, MeshAssumption DEF Dial
<1>2. ASSUME NEW s \in Sockets, Accept(s) PROVE Named'
  BY <1>2, KeysDiffer, MeshAssumption DEF Accept
<1>3. ASSUME NEW s \in Sockets, Open(s) PROVE Named'
  BY <1>3, EndsOfSocket DEF Open
<1>4. ASSUME NEW s \in Sockets, DialFails(s) \/ Break(s) PROVE Named'
  BY <1>4 DEF DialFails, Break
<1>5. ASSUME NEW e \in Ends, Close(e) PROVE Named'
  BY <1>5 DEF Close
<1>6. ASSUME NEW e \in Ends, Receive(e) PROVE Named'
  <2>1. ws' = ws /\ (id' = id \/ id' = [id EXCEPT ![e] = Real(Remote(e))])
    <3> DEFINE m == Head(wire[e])
    <3>1. /\ ws' = ws
          /\ \/ m.type = "identify" /\ Identified(e, m.of)
             \/ Queried(e, m.of)
             \/ Answered(e, m.of)
      BY <1>6 DEF Receive
    <3>2. m.type = "identify" => m.of = Remote(e)
      BY <1>6, ReadOK DEF Receive
    <3> HIDE DEF m
    <3> QED
      BY <3>1, <3>2 DEF Identified, Queried, Answered
  <2>2. Real(Remote(e)) # Nobody
    <3>1. Remote(e) \in Nodes
      BY <1>6, ReadOK DEF Receive
    <3>2. Real(Remote(e)) \in Keys
      BY <3>1, KeysDiffer
    <3> QED
      BY <3>2, MeshAssumption
  <2> QED
    BY <2>1, <2>2
<1>7. ASSUME NEW n \in Nodes, NEW k \in Searches, Search(n, k) PROVE Named'
  BY <1>7 DEF Search
<1>8. CASE \/ \E e \in Ends, k \in Searches : RequestTimeout(e, k) \/ SearchTimeout(e, k)
           \/ \E k \in Searches : SearchReturns(k)
           \/ UNCHANGED vars
  BY <1>8 DEF RequestTimeout, SearchTimeout, SearchReturns, vars, connVars
<1>9. ASSUME NEW n \in Nodes, Stop(n) PROVE Named'
  <2>1. \A e \in Ends : ws'[e] \in {"connecting", "open", "closing"} =>
          ws[e] \in {"connecting", "open", "closing"}
    <3>1. \A e \in Listed(n) : ws[e] \in {"connecting", "open", "closing"}
      BY ListedIsLive
    <3> QED
      BY <1>9, <3>1 DEF Stop
  <2> QED
    BY <1>9, <2>1 DEF Stop
<1>10. ASSUME NEW n \in Nodes, Restart(n) PROVE Named'
  BY <1>10 DEF Restart
<1> QED
  BY <1>1, <1>2, <1>3, <1>4, <1>5, <1>6, <1>7, <1>8, <1>9, <1>10 DEF Next

-----------------------------------------------------------------------------
(* Peers that are connected are found *)

\* A temporary id is not a node's.
LEMMA TempKeyNotReal ==
  ASSUME NEW e, NEW m
  PROVE  TempKey(e) # Real(m)
BY KeysDiffer DEF TempKey

\* What a step that leaves the links alone has to show at each node: what was closed stays
\* so, what is newly open and identified has its entry, and an entry that goes is that of a
\* connection that has closed.
LEMMA StillListed ==
  ASSUME ListedUntilClosed, link' = link,
         \A n, m \in Nodes : running'[n] =>
           /\ running[n]
           /\ \A d \in EndsOf(n) : ws[d] = "closed" => ws'[d] = "closed" /\ id'[d] = id[d]
           /\ \A d \in EndsOf(n) : ws'[d] = "open" /\ id'[d] = Real(m) =>
                (ws[d] = "open" /\ id[d] = Real(m)) \/ peers'[n][Real(m)] # Nobody
           /\ peers[n][Real(m)] # Nobody =>
                \/ peers'[n][Real(m)] # Nobody
                \/ \E d \in EndsOf(n) : ws'[d] = "closed" /\ id'[d] = Real(m)
  PROVE  ListedUntilClosed'
<1>1. \A n : EndsOf(n)' = EndsOf(n)
  BY SameEnds
<1> SUFFICES ASSUME NEW n \in Nodes, NEW m \in Nodes, NEW e \in EndsOf(n),
                    running'[n], ws'[e] = "open", id'[e] = Real(m)
             PROVE  \/ peers'[n][Real(m)] # Nobody
                    \/ \E d \in EndsOf(n) : ws'[d] = "closed" /\ id'[d] = Real(m)
  BY <1>1 DEF ListedUntilClosed
<1>2. CASE ws[e] = "open" /\ id[e] = Real(m)
  <2>1. CASE peers[n][Real(m)] # Nobody
    BY <2>1
  <2>2. CASE \E d \in EndsOf(n) : ws[d] = "closed" /\ id[d] = Real(m)
    BY <2>2
  <2> QED
    BY <1>2, <2>1, <2>2 DEF ListedUntilClosed
<1> QED
  BY <1>2

\* Every step keeps peers listed.
LEMMA ListedStep ==
  ASSUME Connections, running \in [Nodes -> BOOLEAN], ListedUntilClosed, [Next]_vars
  PROVE  ListedUntilClosed'
<1> USE DEF Connections
<1>1. ASSUME NEW n \in Nodes, NEW m \in Nodes, Dial(n, m) PROVE ListedUntilClosed'
  <2>1. PICK s \in Sockets :
          /\ link[s].from = Nobody
          /\ link' = [link EXCEPT ![s] = [from |-> n, to |-> m]]
          /\ ws' = [ws EXCEPT ![Out(s)] = "connecting"]
          /\ id' = [id EXCEPT ![Out(s)] = PendingKey(m)]
          /\ peers' = [peers EXCEPT ![n][PendingKey(m)] = Out(s)]
    BY <1>1 DEF Dial
  <2>2. running' = running
    BY <1>1 DEF Dial
  <2>3. \A e \in Ends : e.socket = s => ws'[e] \in {"none", "connecting"} /\ ws[e] = "none"
    BY <2>1 DEF Types, SocketsOK
  <2>4. \A x \in Nodes : \A e \in Ends : e.socket # s =>
          /\ e \in EndsOf(x)' <=> e \in EndsOf(x)
          /\ ws'[e] = ws[e] /\ id'[e] = id[e]
    BY <2>1, OtherEnd, EndsOfSocket DEF EndsOf, Owner, Types
  <2>5. \A x, r \in Nodes : peers'[x][Real(r)] = peers[x][Real(r)]
    BY <2>1, KeysDiffer DEF Types
  <2> SUFFICES ASSUME NEW x \in Nodes, NEW r \in Nodes, NEW e \in EndsOf(x)',
                      running[x], ws'[e] = "open", id'[e] = Real(r)
               PROVE  \/ peers[x][Real(r)] # Nobody
                      \/ \E d \in EndsOf(x)' : ws'[d] = "closed" /\ id'[d] = Real(r)
    BY <2>2, <2>5 DEF ListedUntilClosed
  <2>6. e \in Ends /\ e.socket # s
    BY <2>3 DEF EndsOf
  <2>7. \/ peers[x][Real(r)] # Nobody
        \/ \E d \in EndsOf(x) : ws[d] = "closed" /\ id[d] = Real(r)
    BY <2>4, <2>6 DEF ListedUntilClosed
  <2>8. ASSUME NEW d \in EndsOf(x), ws[d] = "closed", id[d] = Real(r)
        PROVE  d \in EndsOf(x)' /\ ws'[d] = "closed" /\ id'[d] = Real(r)
    BY <2>3, <2>4, <2>8 DEF EndsOf
  <2> QED
    BY <2>7, <2>8
<1>2. ASSUME NEW s \in Sockets, Accept(s) PROVE ListedUntilClosed'
  <2>1. /\ ws[In(s)] = "none"
        /\ ws' = [ws EXCEPT ![In(s)] = "open"]
        /\ id' = [id EXCEPT ![In(s)] = InboundKey(s)]
        /\ peers' = [peers EXCEPT ![link[s].to][InboundKey(s)] = In(s)]
        /\ link' = link /\ running' = running
    BY <1>2 DEF Accept
  <2>2. \A x, r \in Nodes : peers'[x][Real(r)] = peers[x][Real(r)]
    BY <2>1, KeysDiffer DEF Types
  <2>3. \A d \in Ends : ws[d] = "closed" => ws'[d] = "closed" /\ id'[d] = id[d]
    BY <2>1 DEF Types
  <2>4. \A d \in Ends, m \in Nodes : ws'[d] = "open" /\ id'[d] = Real(m) =>
          ws[d] = "open" /\ id[d] = Real(m)
    BY <2>1, KeysDiffer DEF Types
  <2>5. \A n : EndsOf(n) \subseteq Ends
    BY DEF EndsOf
  <2> QED
    BY <2>1, <2>2, <2>3, <2>4, <2>5, StillListed
<1>3. ASSUME NEW s \in Sockets, Open(s) PROVE ListedUntilClosed'
  <2>1. /\ ws[Out(s)] = "connecting"
        /\ ws' = [ws EXCEPT ![Out(s)] = "open"]
        /\ link' = link /\ id' = id /\ peers' = peers /\ running' = running
    BY <1>3 DEF Open
  <2>2. \A d \in Ends, m \in Nodes : ws'[d] = "open" /\ id'[d] = Real(m) =>
          ws[d] = "open" /\ id[d] = Real(m)
    BY <2>1, KeysDiffer DEF Types, DialsOK
  <2>3. \A d \in Ends : ws[d] = "closed" => ws'[d] = "closed" /\ id'[d] = id[d]
    BY <2>1 DEF Types
  <2>4. \A n : EndsOf(n) \subseteq Ends
    BY DEF EndsOf
  <2> QED
    BY <2>1, <2>2, <2>3, <2>4, StillListed
<1>4. ASSUME NEW s \in Sockets, DialFails(s) PROVE ListedUntilClosed'
  <2>1. /\ ws' = [ws EXCEPT ![Out(s)] = "closed"]
        /\ peers' = [peers EXCEPT ![link[s].from] = Without(@, {TempKey(Out(s))})]
        /\ link' = link /\ id' = id /\ running' = running
    BY <1>4 DEF DialFails
  <2>2. \A x, r \in Nodes : peers'[x][Real(r)] = peers[x][Real(r)]
    BY <2>1, KeysDiffer, TempKeyNotReal DEF Types, Without
  <2>3. /\ \A d \in Ends : ws[d] = "closed" => ws'[d] = "closed"
        /\ \A d \in Ends : ws'[d] = "open" => ws[d] = "open"
    BY <2>1 DEF Types
  <2>4. \A n : EndsOf(n) \subseteq Ends
    BY DEF EndsOf
  <2> QED
    BY <2>1, <2>2, <2>3, <2>4, StillListed
<1>5. ASSUME NEW e \in Ends, Close(e) PROVE ListedUntilClosed'
  <2>1. /\ ws[e] \in {"open", "closing"}
        /\ ws' = [ws EXCEPT ![e] = "closed"]
        /\ peers' = [peers EXCEPT ![Owner(e)] = Without(@, {id[e], TempKey(e)})]
        /\ link' = link /\ id' = id /\ running' = running
    BY <1>5 DEF Close, MayClose
  <2>2. e \in EndsOf(Owner(e))
    BY <2>1, OtherEnd DEF SocketsOK, EndsOf
  <2>3. \A x, r \in Nodes :
          peers'[x][Real(r)] = peers[x][Real(r)] \/ (x = Owner(e) /\ id[e] = Real(r))
    BY <2>1, KeysDiffer, TempKeyNotReal DEF Types, Without
  <2>4. /\ ws'[e] = "closed"
        /\ \A d \in Ends : ws[d] = "closed" => ws'[d] = "closed"
        /\ \A d \in Ends : ws'[d] = "open" => ws[d] = "open"
    BY <2>1 DEF Types
  <2>5. \A n : EndsOf(n) \subseteq Ends
    BY DEF EndsOf
  <2> QED
    BY <2>1, <2>2, <2>3, <2>4, <2>5, StillListed
<1>6. ASSUME NEW e \in Ends, Receive(e) PROVE ListedUntilClosed'
  <2> DEFINE m == Head(wire[e])
  <2>1. /\ ws[e] \in {"open", "closing"} /\ wire[e] # <<>>
        /\ UNCHANGED <<link, ws, running>>
        /\ \/ m.type = "identify" /\ Identified(e, m.of)
           \/ UNCHANGED <<id, peers>>
    BY <1>6 DEF Receive, Queried, Answered
  <2>2. /\ link[e.socket].from # Nobody /\ Remote(e) \in Nodes /\ Owner(e) \in Nodes
        /\ m.type = "identify" => m.of = Remote(e)
    BY <2>1, ReadOK
  <2> HIDE DEF m
  <2>3. CASE UNCHANGED <<id, peers>>
    BY <2>1, <2>3, StillListed
  <2>4. CASE m.type = "identify" /\ Identified(e, m.of)
    <3>1. /\ id' = [id EXCEPT ![e] = Real(Remote(e))]
          /\ peers' = IF id[e] = Real(Remote(e)) THEN peers
                      ELSE [peers EXCEPT ![Owner(e)] =
                              [Without(@, {id[e]}) EXCEPT ![Real(Remote(e))] = e]]
      BY <2>2, <2>4 DEF Identified
    <3>2. CASE id[e] = Real(Remote(e))
      <4>1. id' = id /\ peers' = peers
        BY <3>1, <3>2 DEF Types
      <4> QED
        BY <2>1, <4>1, StillListed
    <3>3. CASE id[e] # Real(Remote(e))
      <4>1. \A r \in Nodes : id[e] # Real(r)
        BY <2>2, <3>3 DEF IdsOK
      <4>2. \A x, r \in Nodes : peers'[x][Real(r)] =
              IF x = Owner(e) /\ r = Remote(e) THEN e ELSE peers[x][Real(r)]
        BY <2>2, <3>1, <3>3, <4>1, KeysDiffer DEF Types, Without
      <4>3. e # Nobody
        BY MeshAssumption
      <4>4. \A d \in Ends \ {e} : id'[d] = id[d]
        BY <3>1 DEF Types
      <4>5. id'[e] = Real(Remote(e))
        BY <3>1 DEF Types
      <4>6. \A n : EndsOf(n) \subseteq Ends /\ (e \in EndsOf(n) => n = Owner(e))
        BY DEF EndsOf
      <4>7. \A n, r \in Nodes : \A d \in EndsOf(n) : ws'[d] = "open" /\ id'[d] = Real(r) =>
              (ws[d] = "open" /\ id[d] = Real(r)) \/ peers'[n][Real(r)] # Nobody
        BY <2>1, <2>2, <4>2, <4>3, <4>4, <4>5, <4>6, KeysDiffer
      <4>8. \A n \in Nodes : \A d \in EndsOf(n) :
              ws[d] = "closed" => ws'[d] = "closed" /\ id'[d] = id[d]
        BY <2>1, <4>4, <4>6
      <4>9. \A n, r \in Nodes : peers[n][Real(r)] # Nobody => peers'[n][Real(r)] # Nobody
        BY <4>2, <4>3
      <4> QED
        BY <2>1, <4>7, <4>8, <4>9, StillListed
    <3> QED
      BY <3>2, <3>3
  <2> QED
    BY <2>1, <2>3, <2>4
<1>7. ASSUME NEW n \in Nodes, Stop(n) PROVE ListedUntilClosed'
  <2>1. /\ running' = [running EXCEPT ![n] = FALSE]
        /\ peers' = [peers EXCEPT ![n] = Without(@, Keys)]
        /\ link' = link /\ id' = id
    BY <1>7 DEF Stop
  <2>2. \A d \in Ends : d \notin Listed(n) => ws'[d] = ws[d]
    BY <1>7 DEF Stop
  <2>3. \A d \in Listed(n) : Owner(d) = n
    BY ListedIsLive
  <2>4. \A x : \A d \in EndsOf(x) : d \in Ends /\ Owner(d) = x
    BY DEF EndsOf
  <2>5. ASSUME NEW x \in Nodes, x # n
        PROVE  /\ peers'[x] = peers[x] /\ running'[x] = running[x]
               /\ \A d \in EndsOf(x) : ws'[d] = ws[d] /\ id'[d] = id[d]
    <3>1. peers'[x] = peers[x]
      BY <2>1, <2>5 DEF Types
    <3>2. running'[x] = running[x]
      BY <1>7, <2>1, <2>5
    <3> QED
      BY <2>1, <2>2, <2>3, <2>4, <2>5, <3>1, <3>2
  <2>6. ~ running'[n]
    BY <2>1
  <2> QED
    BY <2>1, <2>5, <2>6, StillListed
<1>8. ASSUME NEW n \in Nodes, Restart(n) PROVE ListedUntilClosed'
  <2> DEFINE gone == { e \in EndsOf(n) : ws[e] # "none" }
  <2>1. /\ ws' = [e \in Ends |-> IF e \in gone THEN "closed" ELSE ws[e]]
        /\ id' = [e \in Ends |-> IF e \in gone THEN Nobody ELSE id[e]]
        /\ peers' = [peers EXCEPT ![n] = Without(@, Keys)]
        /\ running' = [running EXCEPT ![n] = TRUE]
        /\ link' = link
    BY <1>8 DEF Restart
  <2>2. gone \subseteq Ends
    BY DEF EndsOf
  <2>3. \A d \in EndsOf(n) : ws'[d] # "open"
    BY <2>1 DEF EndsOf
  <2>4. \A d \in gone : Owner(d) = n
    BY DEF EndsOf
  <2> HIDE DEF gone
  <2>5. ASSUME NEW x \in Nodes, x # n
        PROVE  /\ peers'[x] = peers[x] /\ running'[x] = running[x]
               /\ \A d \in EndsOf(x) : ws'[d] = ws[d] /\ id'[d] = id[d]
    <3>1. peers'[x] = peers[x] /\ running'[x] = running[x]
      BY <2>1, <2>5 DEF Types
    <3>2. \A d \in EndsOf(x) : d \in Ends /\ d \notin gone
      BY <2>4, <2>5 DEF EndsOf
    <3> QED
      BY <2>1, <3>1, <3>2
  <2>6. \A x : EndsOf(x)' = EndsOf(x)
    BY <2>1, SameEnds
  <2> SUFFICES ASSUME NEW x \in Nodes, NEW m \in Nodes, NEW e \in EndsOf(x),
                      running'[x], ws'[e] = "open", id'[e] = Real(m)
               PROVE  \/ peers'[x][Real(m)] # Nobody
                      \/ \E d \in EndsOf(x) : ws'[d] = "closed" /\ id'[d] = Real(m)
    BY <2>6 DEF ListedUntilClosed
  <2>7. x # n
    BY <2>3
  <2> QED
    BY <2>5, <2>7 DEF ListedUntilClosed
<1>9. ASSUME \/ \E n \in Nodes, k \in Searches : Search(n, k)
             \/ \E e \in Ends, k \in Searches : RequestTimeout(e, k) \/ SearchTimeout(e, k)
             \/ \E k \in Searches : SearchReturns(k)
             \/ \E s \in Sockets : Break(s)
             \/ UNCHANGED vars
      PROVE  ListedUntilClosed'
  <2>1. UNCHANGED <<link, ws, id, peers, running>>
    BY <1>9 DEF Search, RequestTimeout, SearchTimeout, SearchReturns, Break, vars, connVars
  <2> QED
    BY <2>1, StillListed
<1> QED
  BY <1>1, <1>2, <1>3, <1>4, <1>5, <1>6, <1>7, <1>8, <1>9 DEF Next

-----------------------------------------------------------------------------
(* Searches wait for what can still be settled *)

\* The types of the variables that searches and nodes add.
SearchTypes ==
  /\ pending \in [Ends -> SUBSET Searches]
  /\ awaits \in [Searches -> SUBSET Ends]
  /\ search \in [Searches -> {"new", "waiting", "done", "lost"}]
  /\ seeker \in [Searches -> Nodes \cup {Nobody}]
  /\ running \in [Nodes -> BOOLEAN]
  /\ restarts \in 0 .. MaxRestarts

\* What is awaited was asked by the node that searches, over a connection of its own.
AwaitedByOwner ==
  \A k \in Searches : \A e \in awaits[k] :
    /\ search[k] = "waiting" /\ seeker[k] \in Nodes /\ e \in EndsOf(seeker[k])
    /\ k \in pending[e]

\* The types are kept.
LEMMA SearchTypesStep ==
  ASSUME Connections, SearchTypes, [Next]_vars
  PROVE  SearchTypes'
<1> USE DEF SearchTypes
<1>1. ASSUME NEW n \in Nodes, NEW m \in Nodes, Dial(n, m) PROVE SearchTypes'
  BY <1>1 DEF Dial, searchVars
<1>2. ASSUME NEW s \in Sockets, Accept(s) \/ Open(s) \/ DialFails(s) \/ Break(s)
      PROVE  SearchTypes'
  BY <1>2 DEF Accept, Open, DialFails, Break, searchVars
<1>3. ASSUME NEW e \in Ends, Close(e) PROVE SearchTypes'
  BY <1>3 DEF Close, Reject
<1>4. ASSUME NEW e \in Ends, Receive(e) PROVE SearchTypes'
  BY <1>4 DEF Receive, Identified, Queried, Answered, searchVars
<1>5. ASSUME NEW n \in Nodes, NEW k \in Searches, Search(n, k) PROVE SearchTypes'
  <2>1. Listed(n) \subseteq Ends
    BY ListedIsLive DEF Connections
  <2> QED
    BY <1>5, <2>1 DEF Search
<1>6. ASSUME NEW e \in Ends, NEW k \in Searches, RequestTimeout(e, k) \/ SearchTimeout(e, k)
      PROVE  SearchTypes'
  BY <1>6 DEF RequestTimeout, SearchTimeout
<1>7. ASSUME NEW k \in Searches, SearchReturns(k) PROVE SearchTypes'
  BY <1>7 DEF SearchReturns
<1>8. ASSUME NEW n \in Nodes, Stop(n) PROVE SearchTypes'
  BY <1>8 DEF Stop, Reject
<1>9. ASSUME NEW n \in Nodes, Restart(n) PROVE SearchTypes'
  <2> DEFINE gone == { e \in EndsOf(n) : ws[e] # "none" }
             lost == { k \in Searches : search[k] = "waiting" /\ seeker[k] = n }
  <2>1. /\ pending' = [e \in Ends |-> IF e \in gone THEN {} ELSE pending[e]]
        /\ search' = [k \in Searches |-> IF k \in lost THEN "lost" ELSE search[k]]
        /\ awaits' = [k \in Searches |-> IF k \in lost THEN {} ELSE awaits[k]]
        /\ running' = [running EXCEPT ![n] = TRUE]
        /\ seeker' = seeker /\ restarts < MaxRestarts /\ restarts' = restarts + 1
    BY <1>9 DEF Restart
  <2> HIDE DEF gone, lost
  <2> QED
    BY <2>1, MeshAssumption
<1>10. CASE UNCHANGED vars
  BY <1>10 DEF vars, searchVars
<1> QED
  BY <1>1, <1>2, <1>3, <1>4, <1>5, <1>6, <1>7, <1>8, <1>9, <1>10 DEF Next

\* A step that starts no search and settles what it takes from the pending requests.
LEMMA StillAwaited ==
  ASSUME AwaitedByOwner, link' = link,
         \A k \in Searches : \A e \in awaits'[k] :
           /\ e \in awaits[k] /\ k \in pending'[e]
           /\ search'[k] = search[k] /\ seeker'[k] = seeker[k]
  PROVE  AwaitedByOwner'
BY SameEnds DEF AwaitedByOwner

\* Rejecting the requests of some ends leaves none of them awaited.
LEMMA RejectSettles ==
  ASSUME SearchTypes, AwaitedByOwner, NEW es, Reject(es)
  PROVE  \A k \in Searches : \A e \in awaits'[k] : e \in awaits[k] /\ k \in pending'[e]
BY DEF Reject, SearchTypes, AwaitedByOwner

\* Every step keeps what is awaited pending.
LEMMA AwaitedStep ==
  ASSUME Connections, SearchTypes, AwaitedByOwner, [Next]_vars
  PROVE  AwaitedByOwner'
<1>1. ASSUME NEW n \in Nodes, NEW m \in Nodes, Dial(n, m) PROVE AwaitedByOwner'
  <2>1. PICK s \in Sockets :
          /\ link[s].from = Nobody
          /\ link' = [link EXCEPT ![s] = [from |-> n, to |-> m]]
    BY <1>1 DEF Dial
  <2>2. UNCHANGED searchVars
    BY <1>1 DEF Dial
  <2>3. \A x \in Nodes : \A e \in EndsOf(x) : e \in EndsOf(x)'
    BY <2>1, OtherEnd DEF EndsOf, Owner, Connections, Types
  <2> QED
    BY <2>2, <2>3 DEF AwaitedByOwner, searchVars
<1>2. ASSUME NEW e \in Ends, Close(e) PROVE AwaitedByOwner'
  <2>1. Reject({e}) /\ UNCHANGED <<link, search, seeker>>
    BY <1>2 DEF Close
  <2> QED
    BY <2>1, RejectSettles, StillAwaited
<1>3. ASSUME NEW e \in Ends, Receive(e) PROVE AwaitedByOwner'
  <2>1. CASE \E k : Answered(e, k) /\ link' = link
    <3>1. PICK k : Answered(e, k) /\ link' = link
      BY <2>1
    <3>2. /\ pending' = [pending EXCEPT ![e] = @ \ {k}]
          /\ awaits' = IF k \in pending[e] THEN [awaits EXCEPT ![k] = @ \ {e}] ELSE awaits
          /\ UNCHANGED <<search, seeker>>
      BY <3>1 DEF Answered
    <3>3. \A j \in Searches : \A d \in awaits'[j] : d \in awaits[j] /\ j \in pending'[d]
      BY <3>2 DEF SearchTypes, AwaitedByOwner
    <3> QED
      BY <3>1, <3>2, <3>3, StillAwaited
  <2>2. CASE UNCHANGED <<link, searchVars>>
    BY <2>2, StillAwaited DEF AwaitedByOwner, searchVars
  <2> QED
    BY <1>3, <2>1, <2>2 DEF Receive, Identified, Queried, searchVars
<1>4. ASSUME NEW n \in Nodes, NEW k \in Searches, Search(n, k) PROVE AwaitedByOwner'
  <2> DEFINE asked == { e \in Listed(n) : Connected(e) }
  <2>1. /\ pending' = [e \in Ends |-> IF e \in asked THEN pending[e] \cup {k} ELSE pending[e]]
        /\ awaits' = [awaits EXCEPT ![k] = asked]
        /\ search' = [search EXCEPT ![k] = "waiting"]
        /\ seeker' = [seeker EXCEPT ![k] = n]
        /\ link' = link
    BY <1>4 DEF Search
  <2>2. \A e \in asked : e \in Ends /\ e \in EndsOf(n)
    BY ListedIsLive DEF Connections
  <2> HIDE DEF asked
  <2>3. \A x : EndsOf(x)' = EndsOf(x)
    BY <2>1, SameEnds
  <2>4. \A e \in asked : k \in pending'[e] /\ e \in EndsOf(n)'
    BY <2>1, <2>2, <2>3
  <2>5. awaits'[k] = asked /\ search'[k] = "waiting" /\ seeker'[k] = n
    BY <2>1 DEF SearchTypes
  <2>6. ASSUME NEW j \in Searches, j # k, NEW e \in awaits'[j]
        PROVE  /\ search'[j] = "waiting" /\ seeker'[j] \in Nodes
               /\ e \in EndsOf(seeker'[j]) /\ j \in pending'[e]
    BY <2>1, <2>6 DEF SearchTypes, AwaitedByOwner
  <2> QED
    BY <2>3, <2>4, <2>5, <2>6 DEF AwaitedByOwner
<1>5. ASSUME NEW e \in Ends, NEW k \in Searches, RequestTimeout(e, k) \/ SearchTimeout(e, k)
      PROVE  AwaitedByOwner'
  <2>1. \A j \in Searches : \A d \in awaits'[j] : d \in awaits[j] /\ j \in pending'[d]
    BY <1>5 DEF RequestTimeout, SearchTimeout, SearchTypes, AwaitedByOwner
  <2>2. UNCHANGED <<link, search, seeker>>
    BY <1>5 DEF RequestTimeout, SearchTimeout, connVars
  <2> QED
    BY <2>1, <2>2, StillAwaited
<1>6. ASSUME NEW k \in Searches, SearchReturns(k) PROVE AwaitedByOwner'
  <2>1. \A j \in Searches : \A d \in awaits'[j] :
          d \in awaits[j] /\ j \in pending'[d] /\ search'[j] = search[j]
    BY <1>6 DEF SearchReturns, SearchTypes, AwaitedByOwner
  <2>2. UNCHANGED <<link, seeker>>
    BY <1>6 DEF SearchReturns, connVars
  <2> QED
    BY <2>1, <2>2, StillAwaited
<1>7. ASSUME NEW n \in Nodes, Stop(n) PROVE AwaitedByOwner'
  <2>1. Reject(Listed(n)) /\ UNCHANGED <<link, search, seeker>>
    BY <1>7 DEF Stop
  <2> QED
    BY <2>1, RejectSettles, StillAwaited
<1>8. ASSUME NEW n \in Nodes, Restart(n) PROVE AwaitedByOwner'
  <2> DEFINE gone == { e \in EndsOf(n) : ws[e] # "none" }
             lost == { k \in Searches : search[k] = "waiting" /\ seeker[k] = n }
  <2>1. /\ pending' = [e \in Ends |-> IF e \in gone THEN {} ELSE pending[e]]
        /\ search' = [k \in Searches |-> IF k \in lost THEN "lost" ELSE search[k]]
        /\ awaits' = [k \in Searches |-> IF k \in lost THEN {} ELSE awaits[k]]
        /\ seeker' = seeker /\ link' = link
    BY <1>8 DEF Restart
  <2>2. ASSUME NEW k \in Searches, NEW e \in awaits'[k]
        PROVE  /\ e \in awaits[k] /\ k \in pending'[e]
               /\ search'[k] = search[k] /\ seeker'[k] = seeker[k]
    <3>1. k \notin lost /\ e \in awaits[k]
      BY <2>1, <2>2
    <3>2. search[k] = "waiting" /\ e \in EndsOf(seeker[k]) /\ k \in pending[e] /\ e \in Ends
      BY <3>1 DEF AwaitedByOwner, EndsOf
    <3>3. seeker[k] # n
      BY <3>1, <3>2
    <3>4. e \notin gone
      BY <3>2, <3>3 DEF EndsOf
    <3> QED
      BY <2>1, <3>1, <3>2, <3>4
  <2> QED
    BY <2>1, <2>2, StillAwaited
<1>9. CASE \/ \E s \in Sockets : Accept(s) \/ Open(s) \/ DialFails(s) \/ Break(s)
           \/ UNCHANGED vars
  <2>1. UNCHANGED <<link, searchVars>>
    BY <1>9 DEF Accept, Open, DialFails, Break, vars, connVars
  <2> QED
    BY <2>1, StillAwaited DEF AwaitedByOwner, searchVars
<1> QED
  BY <1>1, <1>2, <1>3, <1>4, <1>5, <1>6, <1>7, <1>8, <1>9 DEF Next

-----------------------------------------------------------------------------
(* The theorems *)

IInv ==
  /\ Connections /\ Named
  /\ ListedUntilClosed
  /\ SearchTypes /\ AwaitedByOwner

\* The invariant holds initially.
LEMMA IInvInit == Init => IInv
<1> SUFFICES ASSUME Init PROVE IInv
  OBVIOUS
<1>1. Connections
  BY ConnectionsInit
<1>2. Named /\ ListedUntilClosed
  BY DEF Init, Named, ListedUntilClosed, EndsOf
<1>3. SearchTypes /\ AwaitedByOwner
  BY MeshAssumption DEF Init, SearchTypes, AwaitedByOwner
<1> QED
  BY <1>1, <1>2, <1>3 DEF IInv

\* Every step keeps it.
LEMMA IInvStep == IInv /\ [Next]_vars => IInv'
<1> SUFFICES ASSUME IInv, [Next]_vars PROVE IInv'
  OBVIOUS
<1>1. Connections' /\ Named'
  BY ConnectionsStep, NamedStep DEF IInv
<1>2. ListedUntilClosed'
  BY ListedStep DEF IInv, SearchTypes
<1>3. SearchTypes' /\ AwaitedByOwner'
  BY SearchTypesStep, AwaitedStep DEF IInv
<1> QED
  BY <1>1, <1>2, <1>3 DEF IInv

\* It holds always.
LEMMA IInvAlways == Spec => []IInv
  BY IInvInit, IInvStep, PTL DEF Spec

\* Every reachable state of the mesh is of its type.
THEOREM MeshTypeCorrect == Spec => []TypeOK
<1>1. IInv => TypeOK
  BY DEF IInv, Connections, Types, SearchTypes, TypeOK
<1> QED
  BY <1>1, IInvAlways, PTL

\* The maps of the nodes lead to live connections of their own, each under its own id,
\* for any number of nodes that dial each other as often as they like.
THEOREM EntriesCorrect == Spec => []EntriesAreLive
<1>1. IInv => EntriesAreLive
  BY DEF IInv, Connections
<1> QED
  BY <1>1, IInvAlways, PTL

\* A peer that is connected and identified is found, unless a connection to it has closed.
THEOREM ListedCorrect == Spec => []ListedUntilClosed
<1>1. IInv => ListedUntilClosed
  BY DEF IInv
<1> QED
  BY <1>1, IInvAlways, PTL

\* No search waits for a request that nothing would settle.
THEOREM AwaitedCorrect == Spec => []AwaitedIsPending
<1>1. IInv => AwaitedIsPending
  BY DEF IInv, AwaitedByOwner, AwaitedIsPending
<1> QED
  BY <1>1, IInvAlways, PTL

=============================================================================

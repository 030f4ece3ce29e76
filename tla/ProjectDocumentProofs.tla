------------------------ MODULE ProjectDocumentProofs ------------------------
(***************************************************************************)
(* Replicas that have seen the same changes hold the same document, for    *)
(* any number of nodes, keys, tracks and clips, and any wall clocks.       *)
(***************************************************************************)
EXTENDS ProjectDocumentMachine, TLAPS

-----------------------------------------------------------------------------
(* The clocks *)

\* The clocks of the bounded machine are clocks.
LEMMA ClocksOf ==
  ASSUME NEW W, NEW C, W \subseteq Nat, C \subseteq Nat, NEW x \in [wall : W, counter : C]
  PROVE  x \in Clocks
<1>1. x.wall \in Nat /\ x.counter \in Nat
  OBVIOUS
<1>2. x = [wall |-> x.wall, counter |-> x.counter]
  OBVIOUS
<1> QED BY <1>1, <1>2 DEF Clocks

\* A stamp given now is later than every stamp the clock has reached.
LEMMA TickLater ==
  ASSUME NEW c \in Clocks, NEW p \in Nat, NEW s \in Stamps, NEW n \in Nodes, Reached(c, s)
  PROVE  /\ Tick(c, p) \in Clocks
         /\ Reached(Tick(c, p), s)
         /\ Later([wall |-> Tick(c, p).wall, counter |-> Tick(c, p).counter, node |-> n], s)
BY SMT DEF Tick, Clocks, Stamps, Reached, Later

\* A clock that was received has reached the stamp received and all it had reached.
LEMMA ReceiveReaches ==
  ASSUME NEW c \in Clocks, NEW p \in Nat, NEW r \in Stamps
  PROVE  /\ Receive(c, r, p) \in Clocks
         /\ Reached(Receive(c, r, p), r)
         /\ \A s \in Stamps : Reached(c, s) => Reached(Receive(c, r, p), s)
BY SMT DEF Receive, Larger, Clocks, Stamps, Reached

\* The fields of a stamp.
LEMMA StampFields ==
  ASSUME NEW s \in Stamps
  PROVE  s.wall \in Nat /\ s.counter \in Nat /\ s.node \in Nat
<1>1. s.node \in Nodes /\ s.wall \in Nat /\ s.counter \in Nat
  BY DEF Stamps
<1> QED BY <1>1, DocumentAssumption

\* What has reached a stamp has reached every one that is not later.
LEMMA ReachedDown ==
  ASSUME NEW c \in Clocks, NEW r \in Stamps, NEW s \in Stamps, Reached(c, r), ~Later(s, r)
  PROVE  Reached(c, s)
<1> QED BY StampFields, SMT DEF Clocks, Reached, Later

\* The order of the stamps is total.
LEMMA StampsOrdered ==
  ASSUME NEW r \in Stamps, NEW s \in Stamps, ~Later(r, s), ~Later(s, r)
  PROVE  r = s
<1>1. /\ r.wall \in Nat /\ r.counter \in Nat /\ r.node \in Nat
      /\ s.wall \in Nat /\ s.counter \in Nat /\ s.node \in Nat
  BY StampFields
<1>2. r.wall = s.wall /\ r.counter = s.counter /\ r.node = s.node
  BY <1>1, SMT DEF Later
<1> QED BY <1>2, SMT DEF Stamps

\* No two stamps are later than each other.
LEMMA LaterAsymmetric ==
  ASSUME NEW r \in Stamps, NEW s \in Stamps, Later(r, s)
  PROVE  ~Later(s, r)
<1> QED BY StampFields, SMT DEF Later

\* A stamp no later than one that is no later than a third is no later than the third.
LEMMA LaterTransitive ==
  ASSUME NEW r \in Stamps, NEW s \in Stamps, NEW t \in Stamps, ~Later(r, s), ~Later(s, t)
  PROVE  ~Later(r, t)
<1> QED BY StampFields, SMT DEF Later

-----------------------------------------------------------------------------
(* The invariant *)

\* A document is what its log says: each register holds what the last change of the
\* log that wrote it has written.
IsDocument(d) ==
  /\ d.node \in Nodes /\ d.seq \in Nat
  /\ d.reg = [r \in DOMAIN d.reg |-> d.reg[r]]

StampsTyped(d) == \A e \in d.log : e.hlc \in Stamps

RegistersWritten(d) ==
  \A r \in DOMAIN d.reg : \E e \in d.log :
    r \in DOMAIN e.writes /\ d.reg[r] = [value |-> e.writes[r], at |-> e.hlc]

LastWriteHolds(d) ==
  \A e \in d.log : \A r \in DOMAIN e.writes :
    r \in DOMAIN d.reg /\ ~Later(e.hlc, d.reg[r].at)

Faithful(d) ==
  IsDocument(d) /\ StampsTyped(d) /\ RegistersWritten(d) /\ LastWriteHolds(d)

\* The changes that any document knows.
Changes == UNION { d.log : d \in Documents }

ChangesUnique == \A c, e \in Changes : c.id = e.id \/ c.hlc = e.hlc => c = e

\* What a node has stamped: nothing its clock has not reached, nor beyond its counter.
OwnChanges ==
  \A e \in Changes : \E n \in Nodes, k \in Nat :
    /\ e.id = <<n, k>> /\ k <= doc[n].seq
    /\ e.hlc.node = n
    /\ Reached(clock[n], e.hlc)

ClocksReached == \A n \in Nodes : \A e \in doc[n].log : Reached(clock[n], e.hlc)

IInv ==
  /\ clock \in [Nodes -> Clocks]
  /\ doc = [n \in Nodes |-> doc[n]] /\ saved = [n \in Nodes |-> saved[n]]
  /\ \A n \in Nodes : doc[n].node = n
  /\ \A d \in Documents : Faithful(d)
  /\ ChangesUnique
  /\ OwnChanges
  /\ ClocksReached

-----------------------------------------------------------------------------
(* Documents written and merged *)

\* A change stamped later than all of the log leaves a faithful document.
LEMMA RecordedFaithful ==
  ASSUME NEW d, Faithful(d), NEW w, NEW s \in Stamps,
         \A e \in d.log : Later(s, e.hlc)
  PROVE  /\ Faithful(Recorded(d, w, s))
         /\ \A r \in DOMAIN w : Recorded(d, w, s).reg[r] = [value |-> w[r], at |-> s]
<1> DEFINE new == Recorded(d, w, s)
           entry == [id |-> <<d.node, d.seq + 1>>, hlc |-> s, writes |-> w]
<1>1. /\ new.node = d.node /\ new.seq = d.seq + 1
      /\ new.reg = Written(d.reg, w, s)
      /\ new.log = d.log \cup {entry}
  BY DEF Recorded
<1>2. DOMAIN new.reg = DOMAIN d.reg \cup DOMAIN w
  BY <1>1 DEF Written
<1>3. ASSUME NEW r \in DOMAIN w
      PROVE  new.reg[r] = [value |-> w[r], at |-> s]
  <2>1. CASE r \in DOMAIN d.reg
    <3>1. PICK e \in d.log : d.reg[r] = [value |-> e.writes[r], at |-> e.hlc]
      BY <2>1 DEF Faithful, RegistersWritten
    <3>2. Later(s, d.reg[r].at)
      BY <3>1
    <3> QED BY <1>1, <2>1, <3>2 DEF Written, WriteLWW
  <2>2. CASE r \notin DOMAIN d.reg
    BY <1>1, <2>2 DEF Written
  <2> QED BY <2>1, <2>2
<1>4. \A r \in DOMAIN d.reg \ DOMAIN w : new.reg[r] = d.reg[r]
  BY <1>1 DEF Written
<1>5. IsDocument(new)
  <2>1. new.reg = [r \in DOMAIN new.reg |-> new.reg[r]]
    BY <1>1 DEF Written
  <2>2. new.node \in Nodes /\ new.seq \in Nat
    BY <1>1 DEF Faithful, IsDocument
  <2> QED BY <1>1, <2>1, <2>2 DEF IsDocument
<1>6. StampsTyped(new)
  BY <1>1 DEF Faithful, StampsTyped
<1>7. RegistersWritten(new)
  <2> SUFFICES ASSUME NEW r \in DOMAIN new.reg
               PROVE  \E e \in new.log : r \in DOMAIN e.writes
                        /\ new.reg[r] = [value |-> e.writes[r], at |-> e.hlc]
    BY DEF RegistersWritten
  <2>1. CASE r \in DOMAIN w
    <3>1. entry \in new.log /\ entry.writes = w /\ entry.hlc = s
      BY <1>1
    <3> QED BY <1>3, <2>1, <3>1
  <2>2. CASE r \notin DOMAIN w
    BY <1>1, <1>2, <1>4, <2>2 DEF Faithful, RegistersWritten
  <2> QED BY <2>1, <2>2
<1>8. LastWriteHolds(new)
  <2> SUFFICES ASSUME NEW e \in new.log, NEW r \in DOMAIN e.writes
               PROVE  r \in DOMAIN new.reg /\ ~Later(e.hlc, new.reg[r].at)
    BY DEF LastWriteHolds
  <2>0. ~Later(s, s)
    BY StampFields, SMT DEF Later
  <2>1. CASE e = entry
    <3>1. e.hlc = s /\ e.writes = w
      BY <2>1
    <3>2. r \in DOMAIN w
      BY <3>1
    <3>3. new.reg[r] = [value |-> w[r], at |-> s]
      BY <1>3, <3>2
    <3>4. new.reg[r].at = s
      BY <3>3
    <3> HIDE DEF new
    <3> QED BY <1>2, <2>0, <3>1, <3>2, <3>4
  <2>2. CASE e \in d.log
    <3>1. r \in DOMAIN d.reg /\ ~Later(e.hlc, d.reg[r].at)
      BY <2>2 DEF Faithful, LastWriteHolds
    <3>2. CASE r \in DOMAIN w
      <4>1. Later(s, e.hlc) /\ e.hlc \in Stamps
        BY <2>2 DEF Faithful, StampsTyped
      <4>2. ~Later(e.hlc, s)
        BY <4>1, StampFields, SMT DEF Later
      <4>3. new.reg[r] = [value |-> w[r], at |-> s]
        BY <1>3, <3>2
      <4>4. new.reg[r].at = s
        BY <4>3
      <4> HIDE DEF new
      <4> QED BY <1>2, <3>2, <4>2, <4>4
    <3>3. CASE r \notin DOMAIN w
      BY <1>2, <1>4, <3>1, <3>3
    <3> QED BY <3>2, <3>3
  <2> QED BY <1>1, <2>1, <2>2
<1> QED BY <1>3, <1>5, <1>6, <1>7, <1>8 DEF Faithful

\* What a document holds of a register.
LEMMA CellOfDocument ==
  ASSUME NEW d, Faithful(d), NEW r \in DOMAIN d.reg
  PROVE  d.reg[r].at \in Stamps /\ d.reg[r] = [value |-> d.reg[r].value, at |-> d.reg[r].at]
<1>1. PICK e \in d.log : d.reg[r] = [value |-> e.writes[r], at |-> e.hlc]
  BY DEF Faithful, RegistersWritten
<1>2. e.hlc \in Stamps
  BY DEF Faithful, StampsTyped
<1>3. d.reg[r].value = e.writes[r] /\ d.reg[r].at = e.hlc
  BY <1>1
<1> QED BY <1>1, <1>2, <1>3

\* So does a merge of two faithful documents, which takes over every change it lacks.
LEMMA MergedFaithful ==
  ASSUME NEW d, Faithful(d), NEW o, Faithful(o),
         \A c \in d.log, e \in o.log : c.id = e.id => c = e
  PROVE  Faithful(Merged(d, o)) /\ Merged(d, o).log = d.log \cup o.log
<1> DEFINE new == Merged(d, o)
<1>1. new.node = d.node /\ new.seq = d.seq /\ new.reg = Joined(d.reg, o.reg)
  BY DEF Merged
<1>2. new.log = d.log \cup o.log
  <2>1. new.log = d.log \cup Missing(d, o)
    BY DEF Merged
  <2>2. \A e \in o.log : e \notin d.log => e \in Missing(d, o)
    BY DEF Missing
  <2>3. Missing(d, o) \subseteq o.log
    BY DEF Missing
  <2> QED BY <2>1, <2>2, <2>3
<1>3. DOMAIN new.reg = DOMAIN d.reg \cup DOMAIN o.reg
  BY <1>1 DEF Joined
<1>4. ASSUME NEW r \in DOMAIN new.reg
      PROVE  /\ r \in DOMAIN d.reg \ DOMAIN o.reg => new.reg[r] = d.reg[r]
             /\ r \in DOMAIN o.reg \ DOMAIN d.reg => new.reg[r] = o.reg[r]
             /\ r \in DOMAIN d.reg \cap DOMAIN o.reg /\ Later(o.reg[r].at, d.reg[r].at) =>
                  new.reg[r] = [value |-> o.reg[r].value, at |-> o.reg[r].at]
             /\ r \in DOMAIN d.reg \cap DOMAIN o.reg /\ ~Later(o.reg[r].at, d.reg[r].at) =>
                  new.reg[r] = d.reg[r]
  BY <1>1, <1>3 DEF Joined, WriteLWW
<1>5. \A r \in DOMAIN d.reg : d.reg[r].at \in Stamps
  BY CellOfDocument
<1>6. \A r \in DOMAIN o.reg : o.reg[r].at \in Stamps
  BY CellOfDocument
<1>7. \A r \in DOMAIN o.reg :
        o.reg[r] = [value |-> o.reg[r].value, at |-> o.reg[r].at]
  BY CellOfDocument
<1> HIDE DEF new
<1>8. ASSUME NEW r \in DOMAIN new.reg
      PROVE  \/ r \in DOMAIN d.reg /\ new.reg[r] = d.reg[r]
             \/ r \in DOMAIN o.reg /\ new.reg[r] = o.reg[r]
  BY <1>3, <1>4, <1>7
<1>9. IsDocument(new)
  <2>1. new.reg = [r \in DOMAIN new.reg |-> new.reg[r]]
    BY <1>1 DEF Joined
  <2> QED BY <1>1, <2>1 DEF IsDocument, Faithful
<1>10. StampsTyped(new)
  BY <1>2 DEF Faithful, StampsTyped
<1>11. RegistersWritten(new)
  <2> SUFFICES ASSUME NEW r \in DOMAIN new.reg
               PROVE  \E e \in new.log : r \in DOMAIN e.writes
                        /\ new.reg[r] = [value |-> e.writes[r], at |-> e.hlc]
    BY DEF RegistersWritten
  <2>1. CASE r \in DOMAIN d.reg /\ new.reg[r] = d.reg[r]
    BY <1>2, <2>1 DEF Faithful, RegistersWritten
  <2>2. CASE r \in DOMAIN o.reg /\ new.reg[r] = o.reg[r]
    BY <1>2, <2>2 DEF Faithful, RegistersWritten
  <2> QED BY <1>8, <2>1, <2>2
<1>12. LastWriteHolds(new)
  <2> SUFFICES ASSUME NEW e \in new.log, NEW r \in DOMAIN e.writes
               PROVE  r \in DOMAIN new.reg /\ ~Later(e.hlc, new.reg[r].at)
    BY DEF LastWriteHolds
  <2>0. e.hlc \in Stamps
    BY <1>10 DEF StampsTyped
  <2>1. CASE e \in d.log
    <3>1. r \in DOMAIN d.reg /\ ~Later(e.hlc, d.reg[r].at)
      BY <2>1 DEF Faithful, LastWriteHolds
    <3>2. CASE r \in DOMAIN o.reg /\ Later(o.reg[r].at, d.reg[r].at)
      <4>1. new.reg[r].at = o.reg[r].at
        <5>1. new.reg[r] = [value |-> o.reg[r].value, at |-> o.reg[r].at]
          BY <1>3, <1>4, <3>1, <3>2
        <5> QED BY <5>1
      <4>2. ~Later(d.reg[r].at, o.reg[r].at)
        BY <1>5, <1>6, <3>1, <3>2, LaterAsymmetric
      <4> QED BY <1>3, <1>5, <1>6, <2>0, <3>1, <3>2, <4>1, <4>2, LaterTransitive
    <3>3. CASE ~(r \in DOMAIN o.reg /\ Later(o.reg[r].at, d.reg[r].at))
      <4>1. new.reg[r] = d.reg[r]
        BY <1>3, <1>4, <3>1, <3>3
      <4> QED BY <1>3, <3>1, <4>1
    <3> QED BY <3>2, <3>3
  <2>2. CASE e \in o.log
    <3>1. r \in DOMAIN o.reg /\ ~Later(e.hlc, o.reg[r].at)
      BY <2>2 DEF Faithful, LastWriteHolds
    <3>2. CASE r \in DOMAIN d.reg /\ ~Later(o.reg[r].at, d.reg[r].at)
      <4>1. new.reg[r] = d.reg[r]
        BY <1>3, <1>4, <3>1, <3>2
      <4> QED BY <1>3, <1>5, <1>6, <2>0, <3>1, <3>2, <4>1, LaterTransitive
    <3>3. CASE ~(r \in DOMAIN d.reg /\ ~Later(o.reg[r].at, d.reg[r].at))
      <4>1. new.reg[r] = o.reg[r]
        BY <1>3, <1>4, <1>7, <3>1, <3>3
      <4> QED BY <1>3, <3>1, <4>1
    <3> QED BY <3>2, <3>3
  <2> QED BY <1>2, <2>1, <2>2
<1> QED BY <1>2, <1>9, <1>10, <1>11, <1>12 DEF Faithful, new

\* Two faithful documents with one log have the same registers.
LEMMA OneLogOneDocument ==
  ASSUME NEW d, Faithful(d), NEW o, Faithful(o), d.log = o.log,
         \A c, e \in d.log : c.hlc = e.hlc => c = e
  PROVE  d.reg = o.reg
<1>1. DOMAIN d.reg = DOMAIN o.reg
  <2>1. DOMAIN d.reg \subseteq DOMAIN o.reg
    BY DEF Faithful, RegistersWritten, LastWriteHolds
  <2>2. DOMAIN o.reg \subseteq DOMAIN d.reg
    BY DEF Faithful, RegistersWritten, LastWriteHolds
  <2> QED BY <2>1, <2>2
<1>2. ASSUME NEW r \in DOMAIN d.reg
      PROVE  d.reg[r] = o.reg[r]
  <2>1. PICK c \in d.log : /\ r \in DOMAIN c.writes
                           /\ d.reg[r] = [value |-> c.writes[r], at |-> c.hlc]
    BY DEF Faithful, RegistersWritten
  <2>2. PICK e \in d.log : /\ r \in DOMAIN e.writes
                           /\ o.reg[r] = [value |-> e.writes[r], at |-> e.hlc]
    BY <1>1 DEF Faithful, RegistersWritten
  <2>3. c.hlc \in Stamps /\ e.hlc \in Stamps
    BY DEF Faithful, StampsTyped
  <2>4. ~Later(e.hlc, c.hlc)
    <3>1. ~Later(e.hlc, d.reg[r].at)
      BY <2>2 DEF Faithful, LastWriteHolds
    <3> QED BY <2>1, <3>1
  <2>5. ~Later(c.hlc, e.hlc)
    <3>1. ~Later(c.hlc, o.reg[r].at)
      BY <2>1 DEF Faithful, LastWriteHolds
    <3> QED BY <2>2, <3>1
  <2>6. c = e
    BY <2>3, <2>4, <2>5, StampsOrdered
  <2> QED BY <2>1, <2>2, <2>6
<1>3. d.reg = [r \in DOMAIN d.reg |-> d.reg[r]] /\ o.reg = [r \in DOMAIN o.reg |-> o.reg[r]]
  BY DEF Faithful, IsDocument
<1> QED BY <1>1, <1>2, <1>3

-----------------------------------------------------------------------------
(* The steps *)

\* The documents at first are faithful.
LEMMA InitIInv == Init => IInv
<1> SUFFICES ASSUME Init PROVE IInv
  OBVIOUS
<1> USE DocumentAssumption, BoundsAssumption
<1>1. clock \in [Nodes -> Clocks]
  <2>1. \A m \in Nodes : clock[m] \in [wall : Moments, counter : {0}]
    BY DEF Init
  <2>2. \A m \in Nodes : clock[m] \in Clocks
    <3>1. {0} \subseteq Nat
      OBVIOUS
    <3> QED BY <2>1, <3>1, ClocksOf
  <2>3. clock = [m \in Nodes |-> clock[m]]
    BY DEF Init
  <2> QED BY <2>2, <2>3
<1>2. \A n \in Nodes : doc[n] = NewDocument(n) /\ saved[n] = NewDocument(n)
  BY DEF Init
<1>3. \A d \in Documents : \E n \in Nodes : d = NewDocument(n)
  BY <1>2 DEF Documents
<1>4. \A n \in Nodes : Faithful(NewDocument(n)) /\ NewDocument(n).log = {}
  BY DEF NewDocument, Nothing, Faithful, IsDocument, StampsTyped, RegistersWritten,
         LastWriteHolds
<1>5. Changes = {}
  BY <1>3, <1>4 DEF Changes
<1>6. \A n \in Nodes : doc[n].node = n /\ doc[n].log = {}
  <2>1. \A n \in Nodes : NewDocument(n).node = n
    BY DEF NewDocument
  <2> QED BY <1>2, <1>4, <2>1
<1>7. doc = [n \in Nodes |-> doc[n]] /\ saved = [n \in Nodes |-> saved[n]]
  BY DEF Init
<1> QED BY <1>1, <1>3, <1>4, <1>5, <1>6, <1>7 DEF IInv, ChangesUnique, OwnChanges, ClocksReached

\* Where the documents and their changes are.
LEMMA InDocuments ==
  /\ \A n \in Nodes : doc[n] \in Documents /\ saved[n] \in Documents
  /\ \A n \in Nodes : \A e \in doc[n].log \cup saved[n].log : e \in Changes
BY DEF Documents, Changes

\* What an edit makes of the document and of its clock.
LEMMA EditFacts ==
  ASSUME IInv, NEW n \in Nodes, NEW writes, NEW p \in Moments, Edit(n, writes, p)
  PROVE  LET c == Tick(clock[n], p)
             s == [wall |-> c.wall, counter |-> c.counter, node |-> n]
         IN  /\ c \in Clocks /\ s \in Stamps
             /\ clock' = [clock EXCEPT ![n] = c]
             /\ doc' = [doc EXCEPT ![n] = Recorded(doc[n], writes, s)]
             /\ saved' = saved
             /\ \A t \in Stamps : Reached(clock[n], t) => Later(s, t) /\ Reached(c, t)
             /\ Reached(c, s)
             /\ \A f \in doc[n].log : Later(s, f.hlc) /\ Reached(c, f.hlc)
             /\ Faithful(Recorded(doc[n], writes, s))
             /\ \A r \in DOMAIN writes :
                  Recorded(doc[n], writes, s).reg[r] = [value |-> writes[r], at |-> s]
<1> DEFINE c == Tick(clock[n], p)
           s == [wall |-> c.wall, counter |-> c.counter, node |-> n]
<1>0. clock[n] \in Clocks /\ p \in Nat /\ doc[n].node = n
  BY BoundsAssumption DEF IInv
<1>1. c \in Clocks
  BY <1>0, SMT DEF Tick, Clocks
<1>2. s \in Stamps /\ Reached(c, s)
  <2>1. c.wall \in Nat /\ c.counter \in Nat
    BY <1>1 DEF Clocks
  <2> QED BY <2>1, SMT DEF Stamps, Reached
<1>3. \A t \in Stamps : Reached(clock[n], t) => Later(s, t) /\ Reached(c, t)
  BY <1>0, TickLater
<1>4. /\ clock' = [clock EXCEPT ![n] = c]
      /\ doc' = [doc EXCEPT ![n] = Recorded(doc[n], writes, s)]
      /\ saved' = saved
  BY <1>0 DEF Edit
<1>5. Faithful(doc[n])
  BY InDocuments DEF IInv
<1>6. \A f \in doc[n].log : Later(s, f.hlc) /\ Reached(c, f.hlc)
  BY <1>3, <1>5 DEF IInv, ClocksReached, Faithful, StampsTyped
<1> HIDE DEF c, s
<1>7. /\ Faithful(Recorded(doc[n], writes, s))
      /\ \A r \in DOMAIN writes :
           Recorded(doc[n], writes, s).reg[r] = [value |-> writes[r], at |-> s]
  BY <1>2, <1>5, <1>6, RecordedFaithful
<1> QED BY <1>1, <1>2, <1>3, <1>4, <1>6, <1>7 DEF c, s

\* Edits keep the documents faithful.
LEMMA EditIInv ==
  ASSUME IInv, NEW n \in Nodes, NEW writes, NEW p \in Moments, Edit(n, writes, p)
  PROVE  IInv'
<1> DEFINE c == Tick(clock[n], p)
           s == [wall |-> c.wall, counter |-> c.counter, node |-> n]
           entry == [id |-> <<n, doc[n].seq + 1>>, hlc |-> s, writes |-> writes]
<1>1. /\ c \in Clocks /\ s \in Stamps /\ s.node = n
      /\ clock' = [clock EXCEPT ![n] = c]
      /\ doc' = [doc EXCEPT ![n] = Recorded(doc[n], writes, s)]
      /\ saved' = saved
      /\ \A t \in Stamps : Reached(clock[n], t) => Later(s, t) /\ Reached(c, t)
      /\ Reached(c, s)
      /\ \A f \in doc[n].log : Later(s, f.hlc) /\ Reached(c, f.hlc)
      /\ Faithful(Recorded(doc[n], writes, s))
  BY EditFacts
<1> HIDE DEF c, s
<1>2. doc[n].seq \in Nat /\ doc[n].node = n
  BY InDocuments DEF IInv, Faithful, IsDocument
<1>3. /\ doc'[n].log = doc[n].log \cup {entry} /\ doc'[n].seq = doc[n].seq + 1
      /\ doc'[n].node = n /\ doc'[n] = Recorded(doc[n], writes, s)
      /\ clock'[n] = c
  BY <1>1, <1>2 DEF Recorded, IInv
<1>4. \A m \in Nodes \ {n} : doc'[m] = doc[m] /\ clock'[m] = clock[m]
  BY <1>1 DEF IInv
<1>5. \A d \in Documents' : d \in Documents \/ d = doc'[n]
  BY <1>1, <1>4 DEF Documents
<1>6. \A e \in Changes' : e \in Changes \/ e = entry
  BY <1>3, <1>5, InDocuments DEF Changes
<1>7. \A e \in Changes : e.hlc \in Stamps
  BY DEF Changes, IInv, Faithful, StampsTyped
<1>8. ASSUME NEW e \in Changes
      PROVE  e.id # entry.id /\ e.hlc # entry.hlc
  <2>1. PICK m \in Nodes, k \in Nat : /\ e.id = <<m, k>> /\ k <= doc[m].seq
                                      /\ e.hlc.node = m /\ Reached(clock[m], e.hlc)
    BY DEF IInv, OwnChanges
  <2>2. CASE m = n
    <3>1. k # doc[n].seq + 1
      BY <1>2, <2>1, <2>2
    <3>2. Later(s, e.hlc)
      BY <1>1, <1>7, <2>1, <2>2
    <3>3. e.hlc # s
      BY <1>1, <3>2, LaterAsymmetric
    <3> QED BY <2>1, <3>1, <3>3
  <2>3. CASE m # n
    BY <1>1, <2>1, <2>3
  <2> QED BY <2>2, <2>3
<1>9. ChangesUnique'
  BY <1>6, <1>8 DEF ChangesUnique, IInv
<1>10. OwnChanges'
  <2> SUFFICES ASSUME NEW e \in Changes'
               PROVE  \E m \in Nodes, k \in Nat : /\ e.id = <<m, k>> /\ k <= doc'[m].seq
                        /\ e.hlc.node = m /\ Reached(clock'[m], e.hlc)
    BY DEF OwnChanges
  <2>1. CASE e \in Changes
    <3>1. PICK m \in Nodes, k \in Nat : /\ e.id = <<m, k>> /\ k <= doc[m].seq
                                        /\ e.hlc.node = m /\ Reached(clock[m], e.hlc)
      BY <2>1 DEF IInv, OwnChanges
    <3>2. CASE m = n
      <4>1. k <= doc'[n].seq
        BY <1>2, <1>3, <3>1, <3>2
      <4>2. Reached(clock'[n], e.hlc)
        BY <1>1, <1>3, <1>7, <2>1, <3>1, <3>2
      <4> QED BY <3>1, <3>2, <4>1, <4>2
    <3>3. CASE m # n
      BY <1>4, <3>1, <3>3
    <3> QED BY <3>2, <3>3
  <2>2. CASE e = entry
    <3>1. e.id = <<n, doc[n].seq + 1>> /\ e.hlc = s
      BY <2>2
    <3>2. doc[n].seq + 1 \in Nat /\ doc[n].seq + 1 <= doc'[n].seq
      BY <1>2, <1>3
    <3> QED BY <1>1, <1>3, <3>1, <3>2
  <2> QED BY <1>6, <2>1, <2>2
<1>11. ClocksReached'
  <2> SUFFICES ASSUME NEW m \in Nodes, NEW e \in doc'[m].log
               PROVE  Reached(clock'[m], e.hlc)
    BY DEF ClocksReached
  <2>1. CASE m = n
    <3>1. CASE e = entry
      <4>1. e.hlc = s
        BY <3>1
      <4> QED BY <1>1, <1>3, <2>1, <4>1
    <3>2. CASE e \in doc[n].log
      BY <1>1, <1>3, <2>1, <3>2
    <3> QED BY <1>3, <2>1, <3>1, <3>2
  <2>2. CASE m # n
    BY <1>4, <2>2 DEF IInv, ClocksReached
  <2> QED BY <2>1, <2>2
<1>12. /\ clock' \in [Nodes -> Clocks]
       /\ doc' = [m \in Nodes |-> doc'[m]] /\ saved' = [m \in Nodes |-> saved'[m]]
  BY <1>1 DEF IInv
<1>13. \A m \in Nodes : doc'[m].node = m
  BY <1>3, <1>4 DEF IInv
<1>14. \A d \in Documents' : Faithful(d)
  BY <1>1, <1>3, <1>5 DEF IInv
<1> QED BY <1>9, <1>10, <1>11, <1>12, <1>13, <1>14 DEF IInv

\* The clock that receives the stamps of another document reaches all of them.
LEMMA AdvancesReaches ==
  ASSUME IInv, NEW n \in Nodes, NEW o \in Documents, NEW p \in Moments, NEW c,
         Advances(n, c, o, p)
  PROVE  /\ c \in Clocks
         /\ \A t \in Stamps : Reached(clock[n], t) => Reached(c, t)
         /\ \A f \in o.log : Reached(c, f.hlc)
<1>0. clock[n] \in Clocks /\ p \in Nat
  BY BoundsAssumption DEF IInv
<1>1. CASE o.log = {} /\ c = clock[n]
  BY <1>0, <1>1
<1>2. CASE \E e \in o.log, x \in [wall : Moments, counter : 0..MaxCounter] :
             IsLast(e, o.log) /\ Reached(x, clock[n]) /\ c = Receive(x, e.hlc, p)
  <2>1. PICK e \in o.log, x \in [wall : Moments, counter : 0..MaxCounter] :
               IsLast(e, o.log) /\ Reached(x, clock[n]) /\ c = Receive(x, e.hlc, p)
    BY <1>2
  <2>2. x \in Clocks
    <3>1. 0..MaxCounter \subseteq Nat
      OBVIOUS
    <3> QED BY <3>1, BoundsAssumption, ClocksOf
  <2>3. \A f \in o.log : f.hlc \in Stamps
    BY DEF IInv, Faithful, StampsTyped
  <2>4. /\ c \in Clocks /\ Reached(c, e.hlc)
        /\ \A t \in Stamps : Reached(x, t) => Reached(c, t)
    BY <1>0, <2>1, <2>2, <2>3, ReceiveReaches
  <2>5. \A t \in Stamps : Reached(clock[n], t) => Reached(x, t)
    BY <1>0, <2>1, <2>2, SMT DEF Reached, Clocks, Stamps
  <2>6. \A f \in o.log : Reached(c, f.hlc)
    BY <2>1, <2>3, <2>4, ReachedDown DEF IsLast
  <2> QED BY <2>4, <2>5, <2>6
<1> QED BY <1>1, <1>2 DEF Advances

\* So do merges.
LEMMA MergeIInv ==
  ASSUME IInv, NEW n \in Nodes, NEW o \in Documents, NEW p \in Moments, Merge(n, o, p)
  PROVE  IInv'
<1>1. PICK c : /\ Advances(n, c, o, p)
               /\ clock' = [clock EXCEPT ![n] = c]
               /\ doc' = [doc EXCEPT ![n] = Merged(doc[n], o)]
               /\ saved' = saved
  BY DEF Merge
<1>2. /\ c \in Clocks
      /\ \A t \in Stamps : Reached(clock[n], t) => Reached(c, t)
      /\ \A f \in o.log : Reached(c, f.hlc)
  BY <1>1, AdvancesReaches
<1>3. /\ doc'[n] = Merged(doc[n], o) /\ clock'[n] = c
      /\ \A m \in Nodes \ {n} : doc'[m] = doc[m] /\ clock'[m] = clock[m]
  BY <1>1 DEF IInv
<1>4. doc'[n].node = n /\ doc'[n].seq = doc[n].seq
  BY <1>3 DEF Merged, IInv
<1>5. Faithful(doc'[n]) /\ doc'[n].log = doc[n].log \cup o.log
  <2>1. \A a \in doc[n].log, b \in o.log : a.id = b.id => a = b
    BY InDocuments DEF IInv, ChangesUnique, Changes
  <2>2. Faithful(doc[n]) /\ Faithful(o)
    BY InDocuments DEF IInv
  <2> QED BY <1>3, <2>1, <2>2, MergedFaithful
<1>6. \A d \in Documents' : d \in Documents \/ d = doc'[n]
  BY <1>1, <1>3 DEF Documents
<1>7. Changes' \subseteq Changes
  BY <1>5, <1>6, InDocuments DEF Changes
<1>8. \A e \in Changes : e.hlc \in Stamps
  BY DEF Changes, IInv, Faithful, StampsTyped
<1>9. OwnChanges'
  <2> SUFFICES ASSUME NEW e \in Changes'
               PROVE  \E m \in Nodes, k \in Nat : /\ e.id = <<m, k>> /\ k <= doc'[m].seq
                        /\ e.hlc.node = m /\ Reached(clock'[m], e.hlc)
    BY DEF OwnChanges
  <2>1. PICK m \in Nodes, k \in Nat : /\ e.id = <<m, k>> /\ k <= doc[m].seq
                                      /\ e.hlc.node = m /\ Reached(clock[m], e.hlc)
    BY <1>7 DEF IInv, OwnChanges
  <2>2. doc'[m].seq = doc[m].seq
    BY <1>3, <1>4
  <2>3. Reached(clock'[m], e.hlc)
    BY <1>2, <1>3, <1>7, <1>8, <2>1
  <2> QED BY <2>1, <2>2, <2>3
<1>10. ClocksReached'
  <2> SUFFICES ASSUME NEW m \in Nodes, NEW e \in doc'[m].log
               PROVE  Reached(clock'[m], e.hlc)
    BY DEF ClocksReached
  <2>1. CASE m = n
    <3>1. CASE e \in doc[n].log
      <4>1. Reached(clock[n], e.hlc) /\ e.hlc \in Stamps
        BY <1>8, <3>1, InDocuments DEF IInv, ClocksReached
      <4> QED BY <1>2, <1>3, <2>1, <4>1
    <3>2. CASE e \in o.log
      BY <1>2, <1>3, <2>1, <3>2
    <3> QED BY <1>5, <2>1, <3>1, <3>2
  <2>2. CASE m # n
    BY <1>3, <2>2 DEF IInv, ClocksReached
  <2> QED BY <2>1, <2>2
<1>11. ChangesUnique'
  BY <1>7 DEF ChangesUnique, IInv
<1>12. /\ clock' \in [Nodes -> Clocks]
       /\ doc' = [m \in Nodes |-> doc'[m]] /\ saved' = [m \in Nodes |-> saved'[m]]
  BY <1>1, <1>2 DEF IInv
<1>13. \A m \in Nodes : doc'[m].node = m
  BY <1>3, <1>4 DEF IInv
<1>14. \A d \in Documents' : Faithful(d)
  BY <1>5, <1>6 DEF IInv
<1> QED BY <1>9, <1>10, <1>11, <1>12, <1>13, <1>14 DEF IInv

\* So does a snapshot.
LEMMA SaveIInv ==
  ASSUME IInv, NEW n \in Nodes, Save(n)
  PROVE  IInv'
<1>1. saved' = [saved EXCEPT ![n] = doc[n]] /\ doc' = doc /\ clock' = clock
  BY DEF Save
<1>2. Documents' \subseteq Documents
  BY <1>1 DEF Documents, IInv
<1>3. Changes' \subseteq Changes
  BY <1>2 DEF Changes
<1>4. saved' = [m \in Nodes |-> saved'[m]]
  BY <1>1 DEF IInv
<1> QED BY <1>1, <1>2, <1>3, <1>4 DEF IInv, ChangesUnique, OwnChanges, ClocksReached

\* So does every step.
LEMMA StepIInv == IInv /\ [Next]_vars => IInv'
<1> SUFFICES ASSUME IInv, [Next]_vars PROVE IInv'
  OBVIOUS
<1>1. CASE \E n \in Nodes : \E writes \in Calls(doc[n].reg), p \in Moments :
             Edit(n, writes, p)
  BY <1>1, EditIInv
<1>2. CASE \E n \in Nodes : \E m \in Nodes \ {n}, p \in Moments : Merge(n, saved[m], p)
  BY <1>2, MergeIInv, InDocuments
<1>3. CASE \E n \in Nodes : Save(n)
  BY <1>3, SaveIInv
<1>4. CASE UNCHANGED vars
  BY <1>4 DEF vars, IInv, Documents, Changes, ChangesUnique, OwnChanges, ClocksReached
<1> QED BY <1>1, <1>2, <1>3, <1>4 DEF Next

-----------------------------------------------------------------------------
(* The theorems *)

\* Every document, live or saved, holds of each register what the last change of its
\* log has written, and no two changes share an id or a stamp.
THEOREM DocumentsFaithful == Spec => []IInv
<1> QED BY InitIInv, StepIInv, PTL DEF Spec

\* Replicas and snapshots that have seen the same changes are the same document.
THEOREM Convergence == Spec => []SameChangesSameDocument
<1>1. IInv => SameChangesSameDocument
  <2> SUFFICES ASSUME IInv, NEW d \in Documents, NEW e \in Documents,
                      { c.id : c \in d.log } = { c.id : c \in e.log }
               PROVE  d.reg = e.reg
    BY DEF SameChangesSameDocument
  <2>1. d.log \subseteq Changes /\ e.log \subseteq Changes
    BY DEF Changes
  <2>2. d.log = e.log
    <3>1. \A c \in d.log : \E f \in e.log : c.id = f.id
      OBVIOUS
    <3>2. \A f \in e.log : \E c \in d.log : c.id = f.id
      OBVIOUS
    <3>3. \A a, b \in Changes : a.id = b.id => a = b
      BY DEF IInv, ChangesUnique
    <3>4. \A c \in d.log : c \in e.log
      BY <2>1, <3>1, <3>3
    <3>5. \A f \in e.log : f \in d.log
      BY <2>1, <3>2, <3>3
    <3> QED BY <3>4, <3>5
  <2>3. \A a, b \in d.log : a.hlc = b.hlc => a = b
    BY <2>1 DEF IInv, ChangesUnique
  <2>4. Faithful(d) /\ Faithful(e)
    BY DEF IInv
  <2> QED BY <2>2, <2>3, <2>4, OneLogOneDocument
<1> QED BY <1>1, DocumentsFaithful, PTL

\* An edit takes effect where it is made.
THEOREM EditsHold == Spec => EditsTakeEffect
<1>1. IInv /\ [Next]_vars =>
        [\A n \in Nodes : \A e \in doc'[n].log :
           (e \notin doc[n].log /\ doc'[n].seq # doc[n].seq)
           => \A r \in DOMAIN e.writes :
                doc'[n].reg[r] = [value |-> e.writes[r], at |-> e.hlc]]_vars
  <2> SUFFICES ASSUME IInv, Next,
                      NEW n \in Nodes, NEW e \in doc'[n].log,
                      e \notin doc[n].log, doc'[n].seq # doc[n].seq,
                      NEW r \in DOMAIN e.writes
               PROVE  doc'[n].reg[r] = [value |-> e.writes[r], at |-> e.hlc]
    OBVIOUS
  <2>1. PICK m \in Nodes :
          \/ \E writes \in Calls(doc[m].reg), p \in Moments : Edit(m, writes, p)
          \/ \E k \in Nodes \ {m}, p \in Moments : Merge(m, saved[k], p)
          \/ Save(m)
    BY DEF Next
  <2>2. CASE \E writes \in Calls(doc[m].reg), p \in Moments : Edit(m, writes, p)
    <3>1. PICK writes \in Calls(doc[m].reg), p \in Moments : Edit(m, writes, p)
      BY <2>2
    <3> DEFINE c == Tick(clock[m], p)
               s == [wall |-> c.wall, counter |-> c.counter, node |-> m]
    <3>2. /\ doc' = [doc EXCEPT ![m] = Recorded(doc[m], writes, s)]
          /\ \A q \in DOMAIN writes :
               Recorded(doc[m], writes, s).reg[q] = [value |-> writes[q], at |-> s]
      BY <3>1, EditFacts
    <3> HIDE DEF s
    <3>3. m = n
      BY <3>2 DEF IInv
    <3>4. doc'[n] = Recorded(doc[n], writes, s)
      BY <3>2, <3>3 DEF IInv
    <3>5. e = [id |-> <<doc[n].node, doc[n].seq + 1>>, hlc |-> s, writes |-> writes]
      BY <3>4 DEF Recorded
    <3>6. e.hlc = s /\ e.writes = writes
      BY <3>5
    <3> QED BY <3>2, <3>3, <3>4, <3>6
  <2>3. CASE \E k \in Nodes \ {m}, p \in Moments : Merge(m, saved[k], p)
    <3>1. PICK o : doc' = [doc EXCEPT ![m] = Merged(doc[m], o)]
      BY <2>3 DEF Merge
    <3>2. doc'[n].seq = doc[n].seq
      <4>1. CASE n = m
        <5>1. doc'[n] = Merged(doc[n], o)
          BY <3>1, <4>1 DEF IInv
        <5> QED BY <5>1 DEF Merged
      <4>2. CASE n # m
        BY <3>1, <4>2 DEF IInv
      <4> QED BY <4>1, <4>2
    <3> QED BY <3>2
  <2>4. CASE Save(m)
    BY <2>4 DEF Save
  <2> QED BY <2>1, <2>2, <2>3, <2>4
<1> QED BY <1>1, DocumentsFaithful, PTL DEF Spec, EditsTakeEffect

=============================================================================

------------------------ MODULE ProjectDocumentMachine ------------------------
(***************************************************************************)
(* The replicas of a project document: each is edited on its own, and      *)
(* merges the documents of the others as they were when they were last     *)
(* put into a snapshot.                                                    *)
(***************************************************************************)
EXTENDS ProjectDocument, FiniteSets

CONSTANTS
  Moments,      \* what a wall clock may read, in any order
  MaxCounter,   \* bound of the clocks' counters
  MaxChanges    \* bound of the changes made

ASSUME BoundsAssumption ==
  Moments \subseteq Nat /\ MaxCounter \in Nat /\ MaxChanges \in Nat

VARIABLES
  clock,   \* clock[n]: the clock of n's document
  doc,     \* doc[n]: the document of n
  saved    \* saved[n]: the last snapshot n took of it

vars == <<clock, doc, saved>>

Init ==
  /\ clock \in [Nodes -> [wall : Moments, counter : {0}]]
  /\ doc = [n \in Nodes |-> NewDocument(n)]
  /\ saved = doc

\* A method of the document of n.
Edit(n, writes, p) ==
  LET c == Tick(clock[n], p)
  IN  /\ Cardinality(UNION { doc[m].log : m \in Nodes }) < MaxChanges
      /\ c.counter <= MaxCounter
      /\ clock' = [clock EXCEPT ![n] = c]
      /\ doc' = [doc EXCEPT ![n] =
           Recorded(@, writes, [wall |-> c.wall, counter |-> c.counter, node |-> @.node])]
      /\ UNCHANGED saved

\* The clock after the stamps of the other document were received: those before the
\* last moved it on, to some clock x.
Advances(n, c, other, p) ==
  \/ other.log = {} /\ c = clock[n]
  \/ \E e \in other.log, x \in [wall : Moments, counter : 0..MaxCounter] :
       /\ IsLast(e, other.log)
       /\ Reached(x, clock[n])
       /\ c = Receive(x, e.hlc, p)

\* merge(other), where `other` is the document of a snapshot.
Merge(n, other, p) ==
  \E c \in [wall : Moments, counter : 0..MaxCounter] :
    /\ Advances(n, c, other, p)
    /\ clock' = [clock EXCEPT ![n] = c]
    /\ doc' = [doc EXCEPT ![n] = Merged(@, other)]
    /\ UNCHANGED saved

\* toSnapshot()
Save(n) ==
  /\ saved[n] # doc[n]
  /\ saved' = [saved EXCEPT ![n] = doc[n]]
  /\ UNCHANGED <<clock, doc>>

Next ==
  \E n \in Nodes :
    \/ \E writes \in Calls(doc[n].reg), p \in Moments : Edit(n, writes, p)
    \/ \E m \in Nodes \ {n}, p \in Moments : Merge(n, saved[m], p)
    \/ Save(n)

Spec == Init /\ [][Next]_vars

-----------------------------------------------------------------------------
(* What keeps the replicas together *)

Documents == { doc[n] : n \in Nodes } \cup { saved[n] : n \in Nodes }

TypeOK ==
  /\ clock \in [Nodes -> [wall : Moments, counter : 0..MaxCounter]]
  /\ \A d \in Documents :
       /\ d.node \in Nodes /\ d.seq \in 0..MaxChanges
       /\ \A r \in DOMAIN d.reg :
            r \in Registers /\ d.reg[r].value \in ValuesOf(r) /\ d.reg[r].at \in Stamps
       /\ \A i \in Tracks \cup Clips :
            <<i, "data">> \in DOMAIN d.reg <=> <<i, "deleted">> \in DOMAIN d.reg
       /\ \A e \in d.log : e.id \in Nodes \X (1..MaxChanges) /\ e.hlc \in Stamps

\* Documents that have seen the same changes are the same, in whatever order, how often
\* and along which way the changes arrived.
SameChangesSameDocument ==
  \A d, e \in Documents :
    { c.id : c \in d.log } = { c.id : c \in e.log } => d.reg = e.reg

\* An edit takes effect where it is made: no stamp the document has met is later than
\* that of its own next change, however the wall clocks differ.
EditsTakeEffect ==
  [][\A n \in Nodes : \A e \in doc'[n].log :
       (e \notin doc[n].log /\ doc'[n].seq # doc[n].seq)
       => \A r \in DOMAIN e.writes : doc'[n].reg[r] = [value |-> e.writes[r], at |-> e.hlc]]_vars

=============================================================================

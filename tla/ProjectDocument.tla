--------------------------- MODULE ProjectDocument ---------------------------
(***************************************************************************)
(* The project document of the collaboration package: metadata, tracks and *)
(* clips kept in last-writer-wins registers under hybrid logical clocks,   *)
(* and the log of the changes that wrote them.                             *)
(*                                                                         *)
(* A register is named by a pair: <<k, "value">> for a metadata key,       *)
(* <<i, "data">> and <<i, "deleted">> for a track or a clip.  A Map is the *)
(* function of its entries.  Of a clip's data the track and the place on   *)
(* the timeline are kept; the log is the set of its entries, whose order   *)
(* is that of their clocks.                                                *)
(***************************************************************************)
EXTENDS Naturals

CONSTANTS
  Nodes,      \* the node ids, ordered as the strings are
  Keys,       \* metadata keys
  Tracks,     \* ids of tracks
  Clips,      \* ids of clips
  Contents,   \* values of metadata and of tracks
  Times,      \* positions on the timeline
  Spans       \* the places, pairs of positions, that the calls ask for

ASSUME DocumentAssumption == Nodes \subseteq Nat /\ Spans \subseteq Times \X Times

Registers == (Keys \X {"value"}) \cup ((Tracks \cup Clips) \X {"data", "deleted"})
ClipData == [track : Tracks, start : Times, end : Times]
ValuesOf(r) ==
  IF r[2] = "deleted" THEN BOOLEAN ELSE IF r[1] \in Clips THEN ClipData ELSE Contents

-----------------------------------------------------------------------------
(* Hybrid logical clocks *)

Clocks == [wall : Nat, counter : Nat]
Stamps == [wall : Nat, counter : Nat, node : Nodes]

\* compareHLC(a, b) > 0
Later(a, b) ==
  \/ a.wall > b.wall
  \/ /\ a.wall = b.wall
     /\ \/ a.counter > b.counter
        \/ a.counter = b.counter /\ a.node > b.node

\* The clock has reached the stamp: the next stamp it gives is later.
Reached(c, s) ==
  \/ c.wall > s.wall
  \/ c.wall = s.wall /\ c.counter >= s.counter

\* now() when the wall clock reads p.
Tick(c, p) ==
  IF p > c.wall THEN [wall |-> p, counter |-> 0] ELSE [c EXCEPT !.counter = @ + 1]

Larger(a, b) == IF a >= b THEN a ELSE b

\* What receive() must not do: count on without the counter received.
ReceiveOwnCounter(c, r, p) ==
  IF p > c.wall /\ p > r.wall THEN [wall |-> p, counter |-> 0]
  ELSE IF r.wall > c.wall THEN [wall |-> r.wall, counter |-> 0]
  ELSE [c EXCEPT !.counter = @ + 1]

\* receive(r) when the wall clock reads p.
Receive(c, r, p) ==
  IF p > c.wall /\ p > r.wall THEN [wall |-> p, counter |-> 0]
  ELSE IF r.wall > c.wall THEN [wall |-> r.wall, counter |-> r.counter + 1]
  ELSE IF r.wall = c.wall THEN [c EXCEPT !.counter = Larger(@, r.counter) + 1]
  ELSE [c EXCEPT !.counter = @ + 1]

-----------------------------------------------------------------------------
(* Registers *)

\* writeLWW()
WriteLWW(register, value, stamp) ==
  IF Later(stamp, register.at) THEN [value |-> value, at |-> stamp] ELSE register

\* The registers after a call has written some of them.
Written(reg, writes, stamp) ==
  [r \in DOMAIN reg \cup DOMAIN writes |->
     IF r \notin DOMAIN writes THEN reg[r]
     ELSE IF r \in DOMAIN reg THEN WriteLWW(reg[r], writes[r], stamp)
     ELSE [value |-> writes[r], at |-> stamp]]

\* What merge() must not do: let the other document's registers stand.
JoinedOther(reg, other) ==
  [r \in DOMAIN reg \cup DOMAIN other |-> IF r \in DOMAIN other THEN other[r] ELSE reg[r]]

\* The registers of merge(): of metadata and of both sets.
Joined(reg, other) ==
  [r \in DOMAIN reg \cup DOMAIN other |->
     IF r \notin DOMAIN other THEN reg[r]
     ELSE IF r \in DOMAIN reg THEN WriteLWW(reg[r], other[r].value, other[r].at)
     ELSE other[r]]

-----------------------------------------------------------------------------
(* What each call writes, given the registers it finds *)

Known(reg, i) == <<i, "data">> \in DOMAIN reg
Live(reg, i) == Known(reg, i) /\ ~reg[<<i, "deleted">>].value
Nothing == [r \in {} |-> FALSE]
Placed(t, p) == [track |-> t, start |-> p[1], end |-> p[2]]

SetMetadata(k, v) == [r \in {<<k, "value">>} |-> v]

\* add() leaves an element alone that was there before, deleted or not.
Add(reg, i, d) ==
  IF Known(reg, i) THEN Nothing
  ELSE [r \in {i} \X {"data", "deleted"} |-> IF r[2] = "data" THEN d ELSE FALSE]

Delete(items) == [r \in items \X {"deleted"} |-> TRUE]
RemoveClip(reg, c) == Delete({ i \in {c} : Known(reg, i) })
RemoveTrack(reg, t) ==
  Delete({ i \in {t} : Known(reg, i) }
         \cup { c \in Clips : Live(reg, c) /\ reg[<<c, "data">>].value.track = t })

Update(reg, c, d) == IF Live(reg, c) THEN [r \in {<<c, "data">>} |-> d] ELSE Nothing
MoveClip(reg, c, t, p) == Update(reg, c, Placed(t, p))
TrimClip(reg, c, p) ==
  IF Live(reg, c) THEN Update(reg, c, Placed(reg[<<c, "data">>].value.track, p)) ELSE Nothing

\* splitClip(): the left part is the clip, cut short, the right part a new one.
SplitClip(reg, c, new, at) ==
  LET d == reg[<<c, "data">>].value
      right == Add(reg, new, [d EXCEPT !.start = at])
      left == Update(reg, c, [d EXCEPT !.end = at])
  IN  IF Live(reg, c) /\ d.start < at /\ at < d.end
      THEN [r \in DOMAIN left \cup DOMAIN right |->
              IF r \in DOMAIN left THEN left[r] ELSE right[r]]
      ELSE Nothing

\* What the methods may write, with any arguments.
Calls(reg) ==
  UNION { { SetMetadata(k, v) : k \in Keys, v \in Contents },
          { Add(reg, t, v) : t \in Tracks, v \in Contents },
          { RemoveTrack(reg, t) : t \in Tracks },
          { Add(reg, c, Placed(t, p)) : c \in Clips, t \in Tracks, p \in Spans },
          { RemoveClip(reg, c) : c \in Clips },
          { MoveClip(reg, c, t, p) : c \in Clips, t \in Tracks, p \in Spans },
          { TrimClip(reg, c, p) : c \in Clips, p \in Spans },
          { SplitClip(reg, c, new, at) : c \in Clips, new \in Clips, at \in Times } }

-----------------------------------------------------------------------------
(* Documents *)

NewDocument(n) == [node |-> n, reg |-> Nothing, log |-> {}, seq |-> 0]

\* recordChange() after the registers were written.  `writes` stands for the operation.
Recorded(d, writes, stamp) ==
  [node |-> d.node,
   reg |-> Written(d.reg, writes, stamp),
   log |-> d.log \cup {[id |-> <<d.node, d.seq + 1>>, hlc |-> stamp, writes |-> writes]},
   seq |-> d.seq + 1]

\* The entries of the other log that merge() takes over.
Missing(d, other) == { e \in other.log : \A own \in d.log : own.id # e.id }

\* merge(other), but for the clock.
Merged(d, other) ==
  [node |-> d.node,
   reg |-> Joined(d.reg, other.reg),
   log |-> d.log \cup Missing(d, other),
   seq |-> d.seq]

\* The last entry of a log, which is in the order of the clocks.
IsLast(e, log) == e \in log /\ \A f \in log : ~Later(f.hlc, e.hlc)

=============================================================================

---------------------------- MODULE TimelineMachine ----------------------------
(***************************************************************************)
(* The timeline with its undo history: commands that go through the edit   *)
(* engine, undo and redo, and the edits of the store that go past it.      *)
(*                                                                         *)
(* A drag is one step: its previews are taken back before its command is   *)
(* executed.  Where the pointer lets go, where the playhead stands and     *)
(* what is selected are inputs.                                            *)
(***************************************************************************)
EXTENDS Timeline

CONSTANTS
  Initial,      \* the timeline that is opened
  Positions,    \* where clips are dragged to and the playhead stands
  Lengths,      \* lengths of source material
  MaxHistory,   \* commands kept for undo
  MaxTracks,    \* bound of the tracks
  MaxEdits,     \* bound of the commands executed and of the edits past the history
  Horizon       \* bound of the ends of clips that undo and redo move

ASSUME BoundsAssumption ==
  /\ MaxHistory \in Nat \ {0}
  /\ Positions \subseteq Nat /\ Lengths \subseteq Nat \ {0}

\* The tracks of a timeline have ids of their own and stand in their order.
InOrder(tl) ==
  \A i, j \in DOMAIN tl : i < j => tl[i].id # tl[j].id /\ tl[i].order <= tl[j].order

ASSUME InitialAssumption == Initial \in Seq(Track) /\ InOrder(Initial)

VARIABLES
  tracks,     \* the store's tracks
  undoStack,  \* the edit engine's stacks, the next command last
  redoStack,
  made,       \* the last clip id given out
  edits,      \* commands executed and edits past the history, counted
  lived       \* the contents the history leads through, {} where they are not known

vars == <<tracks, undoStack, redoStack, made, edits, lived>>

\* What a timeline holds, whatever the order of the clips in the arrays.
Content(tl) == [i \in DOMAIN tl |-> [tl[i] EXCEPT !.clips = Range(@)]]

Init ==
  /\ tracks = Initial
  /\ undoStack = <<>> /\ redoStack = <<>>
  /\ made = Max({0} \cup ClipIds(Initial))
  /\ edits = 0
  /\ lived = <<{Content(Initial)}>>

-----------------------------------------------------------------------------
(* Commands *)

\* execute() of a command, for the first time and again.
Executed(tl, c) ==
  CASE c.type = "move" -> MoveClip(tl, c.clip, c.track, c.at)
    [] c.type = "trim" -> TrimClip(tl, c.clip, c.side, c.at)
    [] c.type = "segment" -> c.after
    [] c.type = "add" -> AddTrack(tl, c.new)
    [] c.type = "remove" -> RemoveTrack(tl, c.saved.id)

\* What undo() must not do: put a removed track back behind the others.
RevertedLast(tl, c) ==
  CASE c.type = "move" -> MoveClip(tl, c.clip, c.prevTrack, c.prev)
    [] c.type = "trim" -> TrimClip(tl, c.clip, c.side, c.prev)
    [] c.type = "segment" -> c.before
    [] c.type = "add" -> RemoveTrack(tl, c.new.id)
    [] c.type = "remove" -> Append(tl, c.saved)
\* undo() of a command.
Reverted(tl, c) ==
  CASE c.type = "move" -> MoveClip(tl, c.clip, c.prevTrack, c.prev)
    [] c.type = "trim" -> TrimClip(tl, c.clip, c.side, c.prev)
    [] c.type = "segment" -> c.before
    [] c.type = "add" -> RemoveTrack(tl, c.new.id)
    [] c.type = "remove" -> InsertTrack(tl, c.saved, c.index)

LastOf(s, n) == SubSeq(s, Most(1, Len(s) - n + 1), Len(s))
MadeBy(tl) == Max({made} \cup ClipIds(tl))

\* execute() of the edit engine, when the previews of the drag have left the timeline
\* `base` and the command makes `after` of it.
Perform(base, c, after) ==
  LET n == Len(undoStack) + 1
      before == IF Content(base) = Content(tracks) THEN SubSeq(lived, 1, n - 1)
                ELSE [i \in 1..(n - 1) |-> {}]
  IN  /\ edits' = edits + 1
      /\ tracks' = after
      /\ undoStack' = LastOf(Append(undoStack, c), MaxHistory)
      /\ redoStack' = <<>>
      /\ made' = MadeBy(after)
      /\ lived' = LastOf(before \o <<{Content(base)}, {Content(after)}>>, MaxHistory + 1)

DragClip(id, track, at) ==
  LET c == ClipOf(tracks, id)
      home == HomeOf(tracks, id)
      base == MoveClip(tracks, id, home, c.start)
      command == [type |-> "move", clip |-> id, track |-> track, at |-> at,
                  prevTrack |-> home, prev |-> c.start]
  IN  /\ <<track, at>> # <<home, c.start>>
      /\ Perform(base, command, Executed(base, command))

DragEdge(id, side, at) ==
  LET c == ClipOf(tracks, id)
      prev == IF side = "left" THEN c.start ELSE c.end
      base == TrimClip(tracks, id, side, prev)
      command == [type |-> "trim", clip |-> id, side |-> side, at |-> at, prev |-> prev]
  IN  at # prev /\ Perform(base, command, Executed(base, command))

\* A drag with the smart tool, by one clip of the selection.
DragSegment(id, ids, mode, track, at) ==
  LET home == HomeOf(tracks, id)
      base == MoveClip(tracks, id, home, ClipOf(tracks, id).start)
      after == IF mode = "overwrite" THEN OverwriteSegmentTo(base, ids, track, at, made)
               ELSE SpliceSegmentTo(base, ids, track, at, made)
      command == [type |-> "segment", ids |-> ids, mode |-> mode, track |-> track, at |-> at,
                  before |-> base, after |-> after]
  IN  /\ id \in ids /\ <<track, at>> # <<home, ClipOf(tracks, id).start>>
      /\ CanMoveSegment(base, ids, track)
      /\ Perform(base, command, after)

ClickAddTrack ==
  LET new == NewTrack(1 + Max({0} \cup TrackIds(tracks)), Len(tracks))
      command == [type |-> "add", new |-> new]
  IN  Len(tracks) < MaxTracks /\ Perform(tracks, command, Executed(tracks, command))

ClickRemoveTrack(id) ==
  LET i == IndexOf(tracks, id)
      command == [type |-> "remove", saved |-> tracks[i], index |-> i]
  IN  Len(tracks) > 1 /\ Perform(tracks, command, Executed(tracks, command))

\* Beyond an edit that went past it, nothing is known of where the history leads.
Led(n) == lived' = IF lived[n] = {} THEN [i \in DOMAIN lived |-> {}] ELSE lived

\* Undo and redo across an edit that went past the history can lengthen a clip each time.
WithinHorizon(tl) ==
  \A i \in DOMAIN tl : \A c \in Range(tl[i].clips) : -Horizon <= c.start /\ c.end <= Horizon

Undo ==
  /\ undoStack # <<>>
  /\ tracks' = Reverted(tracks, Last(undoStack))
  /\ WithinHorizon(tracks')
  /\ undoStack' = Front(undoStack)
  /\ redoStack' = Append(redoStack, Last(undoStack))
  /\ Led(Len(undoStack))
  /\ UNCHANGED <<made, edits>>

Redo ==
  /\ redoStack # <<>>
  /\ tracks' = Executed(tracks, Last(redoStack))
  /\ WithinHorizon(tracks')
  /\ undoStack' = Append(undoStack, Last(redoStack))
  /\ redoStack' = Front(redoStack)
  /\ Led(Len(undoStack) + 2)
  /\ UNCHANGED <<made, edits>>

Command ==
  /\ edits < MaxEdits
  /\ \/ \E id \in ClipIds(tracks), t \in TrackIds(tracks), at \in Positions :
          \/ DragClip(id, t, at)
          \/ \E ids \in SUBSET ClipIds(tracks), mode \in {"overwrite", "splice"} :
               DragSegment(id, ids, mode, t, at)
     \/ \E id \in ClipIds(tracks), side \in {"left", "right"}, at \in Positions :
          DragEdge(id, side, at)
     \/ ClickAddTrack
     \/ \E id \in TrackIds(tracks) : ClickRemoveTrack(id)

-----------------------------------------------------------------------------
(* Edits that go past the history *)

Edit(after) ==
  /\ after # tracks
  /\ edits' = edits + 1
  /\ tracks' = after
  /\ made' = MadeBy(after)
  /\ lived' = [i \in DOMAIN lived |-> {}]
  /\ UNCHANGED <<undoStack, redoStack>>

Direct ==
  /\ edits < MaxEdits
  /\ \/ \E ids \in SUBSET ClipIds(tracks) :
          Edit(RemoveClips(tracks, ids)) \/ Edit(ExtractSelection(tracks, ids))
     \/ \E id \in ClipIds(tracks) :
          \/ Edit(DuplicateClip(tracks, id, made))
          \/ Edit(RippleDelete(tracks, id))
          \/ \E at \in Positions : Edit(SplitClip(tracks, id, at, made))
     \/ \E at \in Positions :
          \/ Edit(RazorAt(tracks, at, made))
          \/ \E len \in Lengths :
               \/ \E t \in AppendTargets(tracks) : Edit(AppendAsset(tracks, t, at, len, made))
               \/ \E targets \in Patched(tracks) :
                    \/ Edit(OverwriteEdit(tracks, targets, at, len, made))
                    \/ Edit(InsertEdit(tracks, targets, at, len, made))
     \/ \E id \in TrackIds(tracks) : Edit(ToggleLock(tracks, id))

Next == Command \/ Undo \/ Redo \/ Direct

Spec == Init /\ [][Next]_vars

-----------------------------------------------------------------------------
(* Properties *)

AllClips == FlattenSeq([i \in DOMAIN tracks |-> tracks[i].clips])
TypeOK ==
  /\ \A i \in DOMAIN AllClips :
       /\ AllClips[i].start <= AllClips[i].end
       /\ AllClips[i].id \in 1..made
       /\ \A j \in DOMAIN AllClips : AllClips[i].id = AllClips[j].id => i = j
  /\ \A i, j \in DOMAIN tracks : i < j =>
       tracks[i].id # tracks[j].id /\ tracks[i].order <= tracks[j].order
  /\ Len(undoStack) <= MaxHistory
  /\ Len(lived) = Len(undoStack) + 1 + Len(redoStack)

\* "Undo the command, reverting its changes to the store.": as long as no edit goes past
\* the history, undo and redo lead exactly through the timelines there were.
HistoryExact == lived[Len(undoStack) + 1] \subseteq {Content(tracks)}

ClipsOf(tl, track) == tl[IndexOf(tl, track)].clips
Apart(clips) ==
  \A c, d \in Range(clips) : c = d \/ c.end <= d.start \/ d.end <= c.start

\* A segment that is dragged onto other material replaces what it covers and nothing else:
\* beside it, the track shows what it showed without the segment.
SegmentLands ==
  \A c \in Range(undoStack) :
    (c.type = "segment" /\ c.mode = "overwrite" /\ Apart(Moving(c.before, c.ids)))
    => LET is == ClipsOf(c.after, c.track)
           rest == ClipsOf(RemoveClips(c.before, c.ids), c.track)
           landed == Landed(c.before, c.ids, c.at)
       IN  \A x \in 0..Latest(landed \o rest) :
             Shows(is, x) = IF Shows(landed, x) # {} THEN Shows(landed, x)
                            ELSE Shows(rest, x)

\* An insert edit at a cut moves what follows by its length, on its targets and on the
\* sync-locked tracks alike, and leaves in place what precedes: they stay in sync.
InsertShifts ==
  \A targets \in Patched(tracks), at \in Positions, len \in Lengths :
    LET after == InsertEdit(tracks, targets, at, len, made)
    IN  \A t \in (targets \cup SyncLocked) \cap TrackIds(tracks) :
          LET was == ClipsOf(tracks, t)
              is == ClipsOf(after, t)
          IN  (\A c \in Range(was) : ~Spans(c, at, at))
              => /\ \A x \in 0..(at - 1) : Shows(is, x) = Shows(was, x)
                 /\ \A x \in at..Latest(<<NewClip(0, "asset", at, len)>> \o was) :
                      Shows(is, x + len) = Shows(was, x)
                 /\ \A x \in at..(at + len - 1) :
                      Shows(is, x) = IF t \in targets THEN {<<"asset", x - at>>} ELSE {}

=============================================================================

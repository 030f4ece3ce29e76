------------------------------- MODULE Timeline -------------------------------
(***************************************************************************)
(* The tracks of the editor's timeline and what its edits make of them:    *)
(* those of the store, and the segment moves of the edit operations        *)
(* engine.                                                                 *)
(*                                                                         *)
(* A timeline is the array of its tracks, a track holds the array of its   *)
(* clips.  Times are whole multiples of MinLength; a clip without time     *)
(* remapping shows its source from `trim` on.  Ids of clips and of tracks  *)
(* are numbers, given out one after the other.                             *)
(***************************************************************************)
EXTENDS Integers, FiniteSets, SequencesExt

CONSTANTS
  MinLength,    \* 0.1 s, the least length trimClip() leaves
  Sources,      \* what clips show
  SyncLocked    \* ids of the sync-locked tracks of the track patching engine

ASSUME ClipsAssumption == MinLength \in Nat \ {0} /\ "asset" \in Sources

-----------------------------------------------------------------------------
(* Clips and tracks *)

Clip == { c \in [id : Int, source : Sources, start : Int, end : Int, trim : Int] :
            c.start <= c.end }
Track == [id : Int, order : Int, locked : BOOLEAN, clips : Seq(Clip)]

ClipIds(tl) == { c.id : c \in UNION { Range(tl[i].clips) : i \in DOMAIN tl } }
ClipOf(tl, id) == CHOOSE c \in UNION { Range(tl[i].clips) : i \in DOMAIN tl } : c.id = id
IndexOf(tl, track) == CHOOSE i \in DOMAIN tl : tl[i].id = track
TrackIds(tl) == { tl[i].id : i \in DOMAIN tl }
HomeOf(tl, id) == CHOOSE t \in TrackIds(tl) : \E c \in Range(tl[IndexOf(tl, t)].clips) : c.id = id

OnTracks(tl, tracks, Edited(_)) ==
  [i \in DOMAIN tl |->
     IF tl[i].id \in tracks THEN [tl[i] EXCEPT !.clips = Edited(@)] ELSE tl[i]]

\* The clips with an id in `ids`, and those without, in their order.
With(clips, ids) ==
  FlattenSeq([i \in DOMAIN clips |-> IF clips[i].id \in ids THEN <<clips[i]>> ELSE <<>>])
Without(clips, ids) ==
  FlattenSeq([i \in DOMAIN clips |-> IF clips[i].id \in ids THEN <<>> ELSE <<clips[i]>>])

\* Array.sort() by a key is stable: the elements with a smaller key come before element i,
\* and so do those with the same key that came before it.
PlaceOf(keys, i) ==
  Cardinality({ j \in DOMAIN keys : keys[j] < keys[i] \/ (keys[j] = keys[i] /\ j <= i) })
SortedBy(s, keys) ==
  [p \in DOMAIN s |-> s[CHOOSE i \in DOMAIN s : PlaceOf(keys, i) = p]]
Sorted(clips) == SortedBy(clips, [i \in DOMAIN clips |-> clips[i].start])
Shifted(c, d) == [c EXCEPT !.start = @ + d, !.end = @ + d]
Cut(c, end) == [c EXCEPT !.end = end]
\* What is left of a clip from `start` on, shown where it was shown.
Rest(c, start) == [c EXCEPT !.start = start, !.trim = @ + start - c.start]
Spans(c, from, to) == c.start < from /\ c.end > to

\* The number of a clip among those of a set, by which new ids are given out.
Rank(id, ids) == Cardinality({ i \in ids : i <= id })

\* What a track shows at a time: the source and the position in it.
Shows(clips, t) ==
  { <<c.source, c.trim + t - c.start>> : c \in { d \in Range(clips) : d.start <= t /\ t < d.end } }

-----------------------------------------------------------------------------
(* Edits of the store *)

\* removeClip(), deleteSelectedClips(), liftSelection()
RemoveClips(tl, ids) ==
  OnTracks(tl, TrackIds(tl), LAMBDA clips : Without(clips, ids))

MoveClip(tl, id, track, at) ==
  IF id \notin ClipIds(tl) THEN tl
  ELSE LET c == ClipOf(tl, id)
       IN  OnTracks(RemoveClips(tl, {id}), {track},
                    LAMBDA clips : Append(clips, Shifted(c, at - c.start)))

Least(a, b) == IF a <= b THEN a ELSE b
Most(a, b) == IF a >= b THEN a ELSE b

TrimClip(tl, id, side, at) ==
  LET Trimmed(c) == IF c.id # id THEN c
                    ELSE IF side = "left" THEN [c EXCEPT !.start = Least(at, c.end - MinLength)]
                    ELSE [c EXCEPT !.end = Most(at, c.start + MinLength)]
  IN  OnTracks(tl, TrackIds(tl), LAMBDA clips : [i \in DOMAIN clips |-> Trimmed(clips[i])])

\* splitClip() and razorAtPlayhead() cut the same way: the second piece keeps trimStart.
CutAt(clips, ids, at, made) ==
  LET Pieces(c) == IF c.id \in ids /\ Spans(c, at, at)
                   THEN <<Cut(c, at), [c EXCEPT !.id = made + Rank(c.id, ids), !.start = at]>>
                   ELSE <<c>>
  IN  FlattenSeq([i \in DOMAIN clips |-> Pieces(clips[i])])

SplitClip(tl, id, at, made) ==
  OnTracks(tl, TrackIds(tl), LAMBDA clips : CutAt(clips, {id}, at, made))
Unlocked(tl) == { t \in TrackIds(tl) : ~tl[IndexOf(tl, t)].locked }
RazorAt(tl, at, made) ==
  OnTracks(tl, Unlocked(tl), LAMBDA clips : CutAt(clips, ClipIds(tl), at, made))

DuplicateClip(tl, id, made) ==
  LET c == ClipOf(tl, id)
  IN  OnTracks(tl, {HomeOf(tl, id)},
        LAMBDA clips : Append(clips, [Shifted(c, c.end - c.start) EXCEPT !.id = made + 1]))

NewClip(id, source, at, len) ==
  [id |-> id, source |-> source, start |-> at, end |-> at + len, trim |-> 0]

\* appendAssetToTimeline(), which takes the first track when all are locked.
AppendTargets(tl) == IF Unlocked(tl) = {} THEN {tl[1].id} ELSE Unlocked(tl)
AppendAsset(tl, track, playhead, len, made) ==
  OnTracks(tl, {track}, LAMBDA clips :
    LET at == Max({playhead} \cup { c.end : c \in Range(clips) })
    IN  Append(clips, NewClip(made + 1, "asset", at, len)))

Earliest(clips) == Min({ c.start : c \in Range(clips) })
Latest(clips) == Max({ c.end : c \in Range(clips) })
LengthOf(clips) ==
  LET sum[k \in 0..Len(clips)] ==
        IF k = 0 THEN 0 ELSE sum[k - 1] + clips[k].end - clips[k].start
  IN  sum[Len(clips)]

ExtractSelection(tl, ids) ==
  LET Extracted(clips) ==
        LET removed == With(clips, ids)
            length == LengthOf(removed)
            first == Earliest(removed)
            Closed(c) == IF c.start <= first THEN c
                         ELSE [c EXCEPT !.start = Most(first, @ - length),
                                        !.end = Most(first, @ - length)]
            kept == Without(clips, ids)
        IN  IF removed = <<>> THEN clips ELSE [i \in DOMAIN kept |-> Closed(kept[i])]
  IN  OnTracks(tl, TrackIds(tl), Extracted)

\* rippleDelete() moves the clips that follow in the array.
RippleDelete(tl, id) ==
  LET Closed(clips) ==
        LET n == CHOOSE i \in DOMAIN clips : clips[i].id = id
            c == clips[n]
            kept == RemoveAt(clips, n)
        IN  [i \in DOMAIN kept |-> IF i >= n /\ kept[i].start >= c.start
                                   THEN Shifted(kept[i], c.start - c.end) ELSE kept[i]]
  IN  OnTracks(tl, {HomeOf(tl, id)}, Closed)

-----------------------------------------------------------------------------
(* Source to record edits of the store *)

\* The sets of tracks that enabled patches, or the first choice without them, may name.
Patched(tl) == SUBSET Unlocked(tl) \ {{}}

\* What an overwrite leaves of a clip: of one that spans the range, the head alone.  Its
\* tail is pushed to the array that filter() is about to replace.
Overwritten(c, from, to) ==
  IF c.end <= from \/ c.start >= to THEN <<c>>
  ELSE IF c.start >= from /\ c.end <= to THEN <<>>
  ELSE IF c.start < from THEN <<Cut(c, from)>>
  ELSE <<Rest(c, to)>>

OverwriteEdit(tl, targets, at, len, made) ==
  [i \in DOMAIN tl |->
     IF tl[i].id \notin targets THEN tl[i]
     ELSE LET clips == tl[i].clips
              left == FlattenSeq([j \in DOMAIN clips |-> Overwritten(clips[j], at, at + len)])
              new == NewClip(made + Rank(tl[i].id, targets), "asset", at, len)
          IN  [tl[i] EXCEPT !.clips = Sorted(Append(left, new))]]

\* What pushing must not do: leave a clip that starts at the edit.
PushedAfter(c, at, len) == IF c.start > at THEN Shifted(c, len) ELSE c
Pushed(c, at, len) == IF c.start >= at THEN Shifted(c, len) ELSE c

\* insertEdit() on a target.  The tail of a clip across the playhead is pushed to the
\* array while the loop runs over it, and moved a second time.
Inserted(clips, at, len, new, made) ==
  LET across == { c \in Range(clips) : Spans(c, at, at) }
      Left(c) == IF c \in across THEN Cut(c, at) ELSE Pushed(c, at, len)
      ids == { c.id : c \in across }
      TailOf(c) == [Shifted(Rest(c, at), 2 * len) EXCEPT !.id = made + Rank(c.id, ids)]
      tails == [i \in DOMAIN clips |-> IF clips[i] \in across THEN <<TailOf(clips[i])>> ELSE <<>>]
  IN  Sorted([i \in DOMAIN clips |-> Left(clips[i])] \o FlattenSeq(tails) \o <<new>>)

InsertEdit(tl, targets, at, len, made) ==
  LET base == made + Cardinality(targets)
      New(t) == NewClip(made + Rank(t, targets), "asset", at, len)
      Before(i) == Cardinality(UNION { { c.id : c \in Range(tl[j].clips) } : j \in 1..(i - 1) })
  IN  [i \in DOMAIN tl |->
         IF tl[i].id \in targets
         THEN [tl[i] EXCEPT !.clips = Inserted(@, at, len, New(tl[i].id), base + Before(i))]
         ELSE IF tl[i].id \in SyncLocked
         THEN [tl[i] EXCEPT !.clips = [j \in DOMAIN @ |-> Pushed(@[j], at, len)]]
         ELSE tl[i]]

-----------------------------------------------------------------------------
(* Segment moves of the edit operations engine *)

\* Mutant of Cleared: the second piece shows the clip from its start again.
ClearedRestarted(c, from, to, id) ==
  IF Spans(c, from, to) THEN <<Cut(c, from), [c EXCEPT !.start = to, !.id = id]>>
  ELSE Overwritten(c, from, to)
Cleared(c, from, to, id) ==
  IF Spans(c, from, to) THEN <<Cut(c, from), [Rest(c, to) EXCEPT !.id = id]>>
  ELSE Overwritten(c, from, to)

\* clearRegion()
ClearRegion(clips, from, to, made) ==
  LET ids == { c.id : c \in Range(clips) }
  IN  FlattenSeq([i \in DOMAIN clips |->
                    Cleared(clips[i], from, to, made + Rank(clips[i].id, ids))])

\* The clips that are moved, in the order of the tracks, and how far.
Moving(tl, ids) == With(FlattenSeq([i \in DOMAIN tl |-> tl[i].clips]), ids)
Landed(tl, ids, at) ==
  LET moving == Moving(tl, ids)
  IN  [i \in DOMAIN moving |-> Shifted(moving[i], at - Earliest(moving))]

\* Segment moves fail, and change nothing, on a locked track and without clips.
CanMoveSegment(tl, ids, track) == track \in Unlocked(tl) /\ ids \cap ClipIds(tl) # {}

\* The last id given out, when those of `clips` are not counted in `made` yet.
LastId(clips, made) == Max({made} \cup { c.id : c \in Range(clips) })
Place(clips, c, made) ==
  LET id == LastId(clips, made) + 1
  IN  Append(ClearRegion(clips, c.start, c.end, id), [c EXCEPT !.id = id])
\* One after the other, each on what those before it have left.
Placed(clips, landed, made) ==
  LET left[k \in 0..Len(landed)] ==
        IF k = 0 THEN clips ELSE Place(left[k - 1], landed[k], made)
  IN  left[Len(landed)]

OverwriteSegmentTo(tl, ids, track, at, made) ==
  OnTracks(RemoveClips(tl, ids), {track}, LAMBDA clips :
    Sorted(Placed(clips, Landed(tl, ids, at), made)))

\* A clip across the place of a splice is not divided.
SpliceSegmentTo(tl, ids, track, at, made) ==
  LET moving == Moving(tl, ids)
      landed == Landed(tl, ids, at)
      span == Latest(moving) - Earliest(moving)
  IN  OnTracks(RemoveClips(tl, ids), {track}, LAMBDA clips :
        Sorted([i \in DOMAIN clips |-> Pushed(clips[i], at, span)]
               \o [i \in DOMAIN landed |-> [landed[i] EXCEPT !.id = made + i]]))

-----------------------------------------------------------------------------
(* Tracks *)

NewTrack(id, order) == [id |-> id, order |-> order, locked |-> FALSE, clips |-> <<>>]
AddTrack(tl, track) ==
  LET grown == Append(tl, track)
  IN  SortedBy(grown, [i \in DOMAIN grown |-> grown[i].order])
\* No two tracks have the same id, so that filter() leaves out one of them.
RemoveTrack(tl, id) == IF id \in TrackIds(tl) THEN RemoveAt(tl, IndexOf(tl, id)) ELSE tl
\* insertTrack(), with JavaScript's index i - 1
InsertTrack(tl, track, i) == InsertAt(tl, i, track)
ToggleLock(tl, id) ==
  [i \in DOMAIN tl |-> IF tl[i].id = id THEN [tl[i] EXCEPT !.locked = ~@] ELSE tl[i]]

=============================================================================

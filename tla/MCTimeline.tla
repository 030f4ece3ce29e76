------------------------------ MODULE MCTimeline ------------------------------
(***************************************************************************)
(* TimelineMachine on a small instance.                                    *)
(***************************************************************************)
EXTENDS TimelineMachine

MCInitial ==
  << [id |-> 1, order |-> 0, locked |-> FALSE,
      clips |-> << [id |-> 1, source |-> "a", start |-> 0, end |-> 3, trim |-> 0] >>],
     [id |-> 2, order |-> 1, locked |-> FALSE,
      clips |-> << [id |-> 2, source |-> "b", start |-> 1, end |-> 2, trim |-> 1] >>] >>

=============================================================================

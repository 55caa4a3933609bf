---------------------------- MODULE MCEventLoop ----------------------------
(***************************************************************************)
(* EventLoop for TLC: the safety runs may exchange the rooms, which are    *)
(* model values, and take no notice of what no action and none of their    *)
(* properties reads any more: the loop of a governor that is down, the     *)
(* batch between two syncs, which of several causes a row was lost or a    *)
(* message passed over for.                                                *)
(***************************************************************************)
EXTENDS EventLoop, TLC

Symmetric == Permutations(Rooms)

View ==
  <<timeline, rows, mode, ctxDone, faults, handled,
    {e \in Messages : RowLost(e)}, {e \in Messages : Missed(e)},
    IF mode = "down" THEN <<>> ELSE <<since, delay, fails, top>>,
    IF mode = "handle" \/ (mode = "batch" /\ Pending(at))
    THEN <<next, at>>
    ELSE IF mode = "batch" THEN <<next>> ELSE <<>> >>
=============================================================================

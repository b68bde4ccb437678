----------------------------- MODULE ReplayCursor -----------------------------
(****************************************************************************)
(* The cursor of the post-engagement review: a place in the event log, and  *)
(* how the server resolves an aar_request to one.                           *)
(*                                                                          *)
(* Source: common/include/icss/view/replay_cursor.hpp,                      *)
(* common/src/transport_socket_live.cpp (resolve_replay_cursor)             *)
(****************************************************************************)
EXTENDS Integers

Cursor == [index : Nat, total : Nat]

NoCursor == [index |-> 0, total |-> 0]

\* The controls parse_aar_request lets through.
AarControl == {"absolute", "step_forward", "step_backward"}

MakeReplayCursor(total, requested) ==
    IF total = 0 THEN NoCursor
    ELSE [index |-> IF requested >= total THEN total - 1 ELSE requested, total |-> total]

StepForward(cursor) ==
    IF cursor.index + 1 < cursor.total THEN [cursor EXCEPT !.index = @ + 1] ELSE cursor

StepBackward(cursor) ==
    IF cursor.index > 0 THEN [cursor EXCEPT !.index = @ - 1] ELSE cursor

JumpTo(cursor, requested) == MakeReplayCursor(cursor.total, requested)

\* The cursor is kept while the log has the size it was made for.
SeedCursor(cursor, total, requested) ==
    IF cursor.total = total /\ total # 0 THEN cursor ELSE MakeReplayCursor(total, requested)

ResolveReplayCursor(cursor, total, control, requested) ==
    LET seed == SeedCursor(cursor, total, requested)
    IN  CASE control = "absolute"      -> JumpTo(seed, requested)
          [] control = "step_forward"  -> StepForward(seed)
          [] control = "step_backward" -> StepBackward(seed)
================================================================================

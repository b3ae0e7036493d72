------------------------------- MODULE MCBuddy -------------------------------
(* Memory maps for the buddy allocator. *)
EXTENDS Buddy

\* Two regions with a hole between them.  The 9 frames that are tracked end in
\* the second one, in the middle of a block: the buddy of the last is outside.
HoledRegions == <<<<3, 5>>, <<7, 13>>>>

\* One region reported by the firmware in two adjacent pieces.
AdjacentRegions == <<<<0, 3>>, <<3, 8>>>>
=============================================================================

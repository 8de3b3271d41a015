------------------------- MODULE MCPullRequestSync -------------------------
(* Small instances of PullRequestSync for TLC; see the cfg files that use it. *)
EXTENDS PullRequestSync

CONSTANTS p1, p2
=============================================================================

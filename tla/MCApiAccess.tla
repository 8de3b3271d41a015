---------------------------- MODULE MCApiAccess ----------------------------
(* Small sets for TLC; see ApiAccess.cfg. *)
EXTENDS ApiAccess, TLC

CONSTANTS i1, i2

\* Readable; the installation hidden from the user; the repository moved to
\* another account; no permission on it.
SomeSituations ==
  LET Situation(visible, home, flags) == [visible |-> visible, home |-> home, flags |-> flags]
  IN  { Situation({i1, i2}, i1, {"pull"}), Situation({i2}, i1, {"pull"}),
        Situation({i1, i2}, i2, {"pull"}), Situation({i1}, i1, {}) }

Interchangeable ==
  Permutations(Requests) \union Permutations(OAuthStates) \union Permutations(Sessions)
=============================================================================

------------------------- MODULE MCSqliteRepositories -------------------------
(* One worker and one job, each with up to two tags, rewritten without end. *)
EXTENDS SqliteRepositories, TLC

Alike == Permutations(Tags) \cup Permutations(Values) \cup Permutations(Times)
===============================================================================

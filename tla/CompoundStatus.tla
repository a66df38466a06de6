--------------------------- MODULE CompoundStatus ---------------------------
(***************************************************************************)
(* The status pool of ops_sunbeam: every part of a charm has a status, and *)
(* the unit shows the most severe one.                                     *)
(***************************************************************************)
EXTENDS Integers

StatusNames == {"blocked", "waiting", "maintenance", "active", "unknown"}

\* STATUS_PRIORITIES: smaller is more severe.
Rank(s) ==
    CASE s = "blocked"     -> 1
      [] s = "waiting"     -> 2
      [] s = "maintenance" -> 3
      [] s = "active"      -> 4
      [] s = "unknown"     -> 5

\* compute_status of a pool that holds the statuses in S; "unknown" stands
\* for None, on which the unit keeps the status it has.
ComputeStatus(S) == CHOOSE s \in S : \A t \in S : Rank(s) <= Rank(t)
=============================================================================

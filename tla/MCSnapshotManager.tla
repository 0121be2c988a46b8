------------------------- MODULE MCSnapshotManager -------------------------
(* The snapshot manager for one or two tenants, in surroundings that are each *)
(* hard in one way.                                                           *)
EXTENDS SnapshotManager, TLC

CONSTANTS acme, globex

TwoTenants == {acme, globex}
Symmetry == Permutations(Tenants)

Mode(ts, n, time, sw) == [tenants |-> ts, changes |-> n, until |-> time, switches |-> sw]

\* Queries that fail and tenants that come and go; consumers of the stream; two
\* tenants that wait for each other's loads.
Each == {Mode({t}, 1, 7, {"faults", "suspensions"}) : t \in Tenants}
            \cup {Mode({t}, 2, 6, {"streams"}) : t \in Tenants}
            \cup {Mode(Tenants, 1, 7, {})}

\* A tenant nobody changes, and queries that answer.
Calm == {Mode({t}, 0, 5, {}) : t \in Tenants}

=============================================================================

--------------------------- MODULE MCReplication ---------------------------
(* An instance of Replication for TLC: one master with one slave. *)
EXTENDS Replication, TLC

CONSTANTS mst, srv, t1

Pair        == {mst, srv}
Master1     == {mst}
MasterSlave == {<<srv, mst>>}
OneTable    == {t1}
AllOps      == {"CREATE_TABLE", "DROP_TABLE", "INSERT"}
=============================================================================

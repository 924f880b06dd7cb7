--------------------------- MODULE MCDistributedTx ---------------------------
(* An instance of DistributedTx for TLC: two threads that call the coordinator *)
(* of a transaction over two shards.                                           *)
EXTENDS DistributedTx

CONSTANTS s1, s2

TwoShards == <<s1, s2>>
=============================================================================

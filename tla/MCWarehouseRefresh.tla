------------------------- MODULE MCWarehouseRefresh -------------------------
(* Instances of WarehouseRefresh: three tables, of which the metrics read    *)
(* two against the loaders' order, as they do with the economics tables.     *)
EXTENDS WarehouseRefresh

CONSTANTS t1, t2, t3, l1, l2, g1, m1

ThreeTables == <<t1, t2, t3>>
AgainstOrder == <<t3, t1>>

=============================================================================

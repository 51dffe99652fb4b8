--------------------------- MODULE MCStorageFormat ---------------------------
(* Model-checking instance: two instances, the first with two NVMe        *)
(* devices and the second SCM-only, so that resp.Crets is both filled and *)
(* empty; one or two clients issuing up to two calls each.                *)
EXTENDS StorageFormat

CONSTANTS d1, d2, c1, c2

MCDevicesOf == [i \in 1..2 |-> IF i = 1 THEN {d1, d2} ELSE {}]

MCSerialClients == {c1}
MCConcurrentClients == {c1, c2}

=============================================================================

--------------------------- MODULE MCStoragePrepare ---------------------------
(* StoragePrepare with the constants of MCStorageFormat. *)
EXTENDS MCStorageFormat, StoragePrepare
=============================================================================

---------------------------- MODULE StoragePoolMC ----------------------------
(***************************************************************************)
(* A small instance of StoragePool: two uploads whose lock ids coincide    *)
(* crosswise, a removal, a download and a cleanup for fewer connections    *)
(* than handlers.                                                          *)
(***************************************************************************)
EXTENDS StoragePool

OneLead == [f \in {"f1"} |-> "u1"]
Apart == [u \in {"u1", "u2"} |-> u]
Known == [u \in {"u1", "u2"} |-> IF u = "u1" THEN "b1" ELSE "b2"]
CrosswiseLocks == [x \in {"u1", "u2", "b1", "b2"} |-> IF x \in {"u1", "b2"} THEN 1 ELSE 2]
=============================================================================

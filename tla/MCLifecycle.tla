------------------------------- MODULE MCLifecycle ------------------------------
(* Lifecycle with three calls of two tenants.  w is larger than a batch may   *)
(* be.                                                                        *)
EXTENDS Lifecycle

MCRows == {"u", "v", "w"}
MCSubjectOf == [e \in MCRows |-> IF e = "v" THEN "t2" ELSE "t1"]
MCSizeOf == [e \in MCRows |-> IF e = "w" THEN 4 ELSE 1]
================================================================================

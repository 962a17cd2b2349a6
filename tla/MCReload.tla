-------------------------------- MODULE MCReload --------------------------------
(* CatalogueReload on small buckets.  a and b are catalogues the deployment   *)
(* can govern, c declares supervision it cannot apply, d is past the byte     *)
(* ceiling.                                                                   *)
EXTENDS CatalogueReload, TLC

CONSTANTS r1, r2

MCETags == {"a1", "b1", "c1", "d1"}
MCBodyOf == ("a1" :> "a") @@ ("b1" :> "b") @@ ("c1" :> "c") @@ ("d1" :> "d")
MCBodies == {"a", "b", "c", "d"}
MCVerdict == ("a" :> "ok") @@ ("b" :> "ok") @@ ("c" :> "check")
             @@ ("d" :> "too_large")

SmallETags == {"a1", "b1", "c1"}
SmallBodies == {"a", "b", "c"}
SmallBodyOf == [e \in SmallETags |-> MCBodyOf[e]]
SmallVerdict == [x \in SmallBodies |-> MCVerdict[x]]

================================================================================

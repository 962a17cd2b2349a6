-------------------------------- MODULE MCGrants --------------------------------
(* GrantReplay with two replicas.  "base" gates a tool for 2 ticks, "tight"   *)
(* for 1, "loose" for 3 and "long" for 5; "plain" gates nothing.  The two ids  *)
(* differ in a character a key does not admit.                                *)
EXTENDS GrantReplay, TLC

CONSTANTS p, q

MCCatalogues == {"base", "tight", "loose", "long", "plain"}
MCLongestAge == ("base" :> 2) @@ ("tight" :> 1) @@ ("loose" :> 3)
                @@ ("long" :> 5) @@ ("plain" :> 0)

MCGrants1 == {<<"a">>}
MCGrants2 == {<<"a">>, <<"a", ":">>}
MCPlain == {"a", "3", "."}
MCHexOf == [c \in {":"} |-> <<"3", "a">>]

Symmetry == Permutations({p, q})
================================================================================

------------------------------- MODULE MCInvoke --------------------------------
(* InvokeChain with two calls, three tools and one approval.               *)
EXTENDS InvokeChain, TLC

CONSTANTS pay, look, note

MCAudit == (pay :> "fail_closed" @@ look :> "none" @@ note :> "open"
            @@ NoTool :> "none")

MCGrantFor == [g \in Grants |-> pay]

Symmetry == Permutations(Calls)
=============================================================================

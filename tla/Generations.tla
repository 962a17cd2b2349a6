------------------------------ MODULE Generations ------------------------------
(***************************************************************************)
(* What the reload machinery promises its callers, with the bucket, the    *)
(* poller, the chain cache and the locks left out.                         *)
(*                                                                         *)
(* A process serves a growing history of catalogue generations.  Only a    *)
(* catalogue the deployment can govern ever joins it, and one call lives   *)
(* its whole life on the generation that was current when it arrived,      *)
(* however many generations are adopted meanwhile.                         *)
(***************************************************************************)
EXTENDS Naturals, Sequences

CONSTANTS Requests,    \* concurrent calls
          Governable   \* catalogues the deployment can load, admit and mount

VARIABLES served,      \* the bodies served so far; the last one is current
          call         \* the generation a call is on; 0 when there is none

Init ==
    /\ served \in {<<b>> : b \in Governable}
    /\ call = [r \in Requests |-> 0]

Adopt(b) ==
    /\ b # served[Len(served)]
    /\ served' = Append(served, b)
    /\ UNCHANGED call

Begin(r) ==
    /\ call[r] = 0
    /\ call' = [call EXCEPT ![r] = Len(served)]
    /\ UNCHANGED served

End(r) ==
    /\ call[r] # 0
    /\ call' = [call EXCEPT ![r] = 0]
    /\ UNCHANGED served

Next ==
    \/ \E b \in Governable : Adopt(b)
    \/ \E r \in Requests : Begin(r) \/ End(r)

Spec == Init /\ [][Next]_<<served, call>>
================================================================================

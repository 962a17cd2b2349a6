----------------------------- MODULE MCReconciler ------------------------------
(* Reconciler on a small plane: service 1 has two instances of package p,   *)
(* one of them built from another contract; service 2 has one that carries  *)
(* package q and a package no catalogue declares, and one that carries p.   *)
EXTENDS Reconciler, TLC

CONSTANTS a1, a2, b1, b2, p, q, x, dp, dq, other

MCNameOf == (a1 :> 1 @@ a2 :> 1 @@ b1 :> 2 @@ b2 :> 2)
MCServes == (a1 :> {p} @@ a2 :> {p} @@ b1 :> {q, x} @@ b2 :> {p})
MCIdentity == (a1 :> dp @@ a2 :> other @@ b1 :> NoDigest @@ b2 :> dp)

\* The generation at boot, and one that follows a2's contract and drops q.
MCBoot == (p :> dp @@ q :> dq @@ x :> Undeclared)
MCCatalogues == {MCBoot, (p :> other @@ q :> Undeclared @@ x :> Undeclared)}
=============================================================================

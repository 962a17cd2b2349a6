-------------------------------- MODULE Authority -------------------------------
(***************************************************************************)
(* What a caller may reach: the fold of a delegation chain into one        *)
(* principal (internal/authn, Fold), the visibility rule of step 2, and    *)
(* the preview of a lesser principal (internal/toolplane, Narrow).         *)
(*                                                                         *)
(* A hop of a chain is what one identity's claims assert:                  *)
(*   [clearance, compartments, verbs, sets]                                *)
(* with clearance 0 for a hop without a usable garm claim, names the build *)
(* may not declare, and sets = {} for claims that name no tool set.  The   *)
(* nil and the empty slice of Principal.ToolSets are told apart by         *)
(* scope.scoped.                                                           *)
(***************************************************************************)
EXTENDS Naturals, Sequences

CONSTANTS
    Declared,       \* the compartments the request's registry declares
    Verbs,          \* the verbs this build knows
    MaxDepth        \* maxDelegationDepth

ASSUME AuthorityAssumption == MaxDepth \in Nat \ {0}

Unscoped == [scoped |-> FALSE, sets |-> {}]
ScopedTo(S) == [scoped |-> TRUE, sets |-> S]

--------------------------------------------------------------------------------
(* Fold.                                                                    *)

\* Nil on either side read as the empty set.
intersectPlain(have, add) == ScopedTo(have.sets \cap add)

\* A side that names no set imposes no constraint; two scopes that share
\* nothing leave a scope of nothing, which is not the absence of one.
intersectSets(have, add) ==
    IF add = {} THEN have
    ELSE IF have.scoped THEN ScopedTo(have.sets \cap add) ELSE ScopedTo(add)

\* The outermost level: what its claims assert, undeclared names dropped.
Level(h) ==
    [clearance |-> h.clearance,
     compartments |-> h.compartments \cap Declared,
     verbs |-> h.verbs \cap Verbs,
     scope |-> intersectSets(Unscoped, h.sets)]

\* One more level: the lower clearance, and what both hold.
Meet(p, h) ==
    [clearance |-> IF h.clearance < p.clearance THEN h.clearance ELSE p.clearance,
     compartments |-> p.compartments \cap h.compartments \cap Declared,
     verbs |-> p.verbs \cap h.verbs \cap Verbs,
     scope |-> intersectSets(p.scope, h.sets)]

\* parseClaims: every level states a clearance this build knows.
Parses(chain) == \A i \in DOMAIN chain : chain[i].clearance > 0

TooDeep(chain) == Len(chain) > MaxDepth

--------------------------------------------------------------------------------
(* Step 2.                                                                  *)

inScope(scope, sets) == scope.scoped => scope.sets \cap sets # {}

\* A tool is [verb, clearance, compartments, sets, ...]; mounting it checked
\* that its compartments are declared.
Visible(p, t) ==
    /\ t.verb \in p.verbs
    /\ p.clearance >= t.clearance
    /\ t.compartments \subseteq p.compartments
    /\ inScope(p.scope, t.sets)

--------------------------------------------------------------------------------
(* Narrow.  An empty dimension of a request (clearance 0) is not narrowed.  *)

\* Clearance and compartments and verbs the caller does not hold are refused.
CanNarrow(p, want) ==
    /\ want.clearance <= p.clearance
    /\ want.compartments \subseteq Declared
    /\ want.compartments \subseteq p.compartments
    /\ want.verbs \subseteq p.verbs

\* A scope asked for takes the place of the one held.
NarrowReplacesScope(p, want) ==
    [clearance |-> IF want.clearance = 0 THEN p.clearance ELSE want.clearance,
     compartments |-> IF want.compartments = {} THEN p.compartments
                      ELSE want.compartments,
     verbs |-> IF want.verbs = {} THEN p.verbs ELSE want.verbs,
     scope |-> IF want.sets = {} THEN p.scope ELSE ScopedTo(want.sets)]

Narrow(p, want) ==
    [clearance |-> IF want.clearance = 0 THEN p.clearance ELSE want.clearance,
     compartments |-> IF want.compartments = {} THEN p.compartments
                      ELSE want.compartments,
     verbs |-> IF want.verbs = {} THEN p.verbs ELSE want.verbs,
     scope |-> intersectSets(p.scope, want.sets)]
================================================================================

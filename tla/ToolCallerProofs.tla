----------------------------- MODULE ToolCallerProofs ----------------------------
(***************************************************************************)
(* Proofs about ToolCaller, for every set of issuers, tokens, chains,      *)
(* tools and field policies.                                               *)
(***************************************************************************)
EXTENDS ToolCaller, TLAPS

Types ==
    /\ at \in [Requesters -> Authenticated \cup {"idle", "selecting", "selected", "refused"}]
    /\ DOMAIN token = Requesters
    /\ \A r \in Requesters : at[r] # "idle" => token[r] \in Tokens[r]
    /\ DOMAIN issuer = Requesters
    /\ \A r \in Requesters : at[r] = "selected" => issuer[r] \in Issuers
    /\ DOMAIN level = Requesters
    /\ DOMAIN principal = Requesters
    /\ DOMAIN got = Requesters

\* What the fold of the first n hops of a chain holds: in every dimension
\* what all of them assert, and a scope when one of them names one.
FoldOf(p, chain, n) ==
    /\ n \in 1..Len(chain)
    /\ p.clearance \in Nat
    /\ \A c \in Nat : c <= p.clearance <=> \A i \in 1..n : c <= chain[i].clearance
    /\ \A c \in Declared :
            c \in p.compartments <=> \A i \in 1..n : c \in chain[i].compartments
    /\ \A v \in Verbs : v \in p.verbs <=> \A i \in 1..n : v \in chain[i].verbs
    /\ p.scope.scoped <=> \E i \in 1..n : chain[i].sets # {}
    /\ p.scope.scoped => \A t \in Tools : \A s \in Decl[t].sets :
            s \in p.scope.sets <=>
                \A i \in 1..n : chain[i].sets # {} => s \in chain[i].sets

FoldInv ==
    \A r \in Requesters : at[r] \in Authenticated =>
        FoldOf(principal[r], token[r].chain, level[r])

\* The invariant of identity: what was admitted, and the fold as far as it has
\* run.
IInv == Types /\ GenuineAdmitted /\ FoldInv

USE DEF Authenticated, Goto, serving

--------------------------------------------------------------------------------
(* The fold.                                                                *)

\* The outermost level holds what its own claims assert (Fold's first-level
\* shortcut), provided they state a clearance.
LEMMA LevelIsFold ==
    ASSUME NEW r \in Requesters, NEW k \in Tokens[r]
    PROVE  FoldOf(Level(k.chain[1]), k.chain, 1)
PROOF
<1> DEFINE chain == k.chain
           h == chain[1]
<1>1. Len(chain) \in Nat \ {0} /\ 1 \in 1..Len(chain) /\ h.clearance \in Nat
    BY CallerAssumption
<1>2. \A i \in 1..1 : i = 1
    OBVIOUS
<1>3. h.sets = {} => Level(h).scope = Unscoped
    BY DEF Level, intersectSets
<1>4. h.sets # {} => Level(h).scope = ScopedTo(h.sets)
    BY DEF Level, intersectSets, Unscoped
<1>5. Level(h).scope.scoped <=> h.sets # {}
    BY <1>3, <1>4 DEF Unscoped, ScopedTo
<1>6. h.sets # {} => Level(h).scope.sets = h.sets
    BY <1>4 DEF ScopedTo
<1>7. /\ Level(h).clearance = h.clearance
      /\ Level(h).compartments = h.compartments \cap Declared
      /\ Level(h).verbs = h.verbs \cap Verbs
    BY DEF Level
<1> QED
    BY <1>1, <1>2, <1>5, <1>6, <1>7 DEF FoldOf

\* One more level holds what the fold so far and its own claims both assert:
\* the lower clearance, the intersections, and intersectSets' scope.
LEMMA MeetIsFold ==
    ASSUME NEW r \in Requesters, NEW k \in Tokens[r], NEW p, NEW n \in Nat,
           FoldOf(p, k.chain, n), n < Len(k.chain)
    PROVE  FoldOf(Meet(p, k.chain[n + 1]), k.chain, n + 1)
PROOF
<1> DEFINE chain == k.chain
           h == chain[n + 1]
           q == Meet(p, h)
<1>1. /\ n \in 1..Len(chain) /\ n + 1 \in 1..Len(chain)
      /\ p.clearance \in Nat /\ h.clearance \in Nat
      /\ \A i \in 1..n + 1 : i \in 1..n \/ i = n + 1
      /\ \A i \in 1..n : i \in 1..n + 1
      /\ n + 1 \in 1..n + 1
      /\ \A i \in 1..n + 1 : chain[i].clearance \in Nat
    BY CallerAssumption DEF FoldOf
<1>2. /\ q.clearance = IF h.clearance < p.clearance THEN h.clearance ELSE p.clearance
      /\ q.compartments = p.compartments \cap h.compartments \cap Declared
      /\ q.verbs = p.verbs \cap h.verbs \cap Verbs
      /\ q.scope = intersectSets(p.scope, h.sets)
    BY DEF Meet
<1>3. \A c \in Nat : c <= q.clearance <=> c <= p.clearance /\ c <= h.clearance
    BY <1>1, <1>2
<1>4. \A c \in Nat : c <= q.clearance <=> \A i \in 1..n + 1 : c <= chain[i].clearance
    BY <1>1, <1>3 DEF FoldOf
<1>5. \A c \in Declared :
            c \in q.compartments <=> \A i \in 1..n + 1 : c \in chain[i].compartments
    BY <1>1, <1>2 DEF FoldOf
<1>6. \A v \in Verbs : v \in q.verbs <=> \A i \in 1..n + 1 : v \in chain[i].verbs
    BY <1>1, <1>2 DEF FoldOf
<1>7. /\ q.scope.scoped <=> \E i \in 1..n + 1 : chain[i].sets # {}
      /\ q.scope.scoped => \A t \in Tools : \A s \in Decl[t].sets :
            s \in q.scope.sets <=>
                \A i \in 1..n + 1 : chain[i].sets # {} => s \in chain[i].sets
  <2>1. CASE h.sets = {}
    <3>1. q.scope = p.scope
        BY <1>2, <2>1 DEF intersectSets
    <3> QED
        BY <1>1, <2>1, <3>1 DEF FoldOf
  <2>2. CASE h.sets # {} /\ ~p.scope.scoped
    <3>1. q.scope.scoped /\ q.scope.sets = h.sets
        BY <1>2, <2>2 DEF intersectSets, ScopedTo
    <3>2. \A i \in 1..n : chain[i].sets = {}
        BY <2>2 DEF FoldOf
    <3> QED
        BY <1>1, <2>2, <3>1, <3>2
  <2>3. CASE h.sets # {} /\ p.scope.scoped
    <3>1. q.scope.scoped /\ q.scope.sets = p.scope.sets \cap h.sets
        BY <1>2, <2>3 DEF intersectSets, ScopedTo
    <3> QED
        BY <1>1, <2>3, <3>1 DEF FoldOf
  <2> QED
    BY <2>1, <2>2, <2>3
<1>8. q.clearance \in Nat
    BY <1>1, <1>2
<1> QED
    BY <1>1, <1>4, <1>5, <1>6, <1>7, <1>8 DEF FoldOf

\* What a fold holds is what every hop grants: the visibility rule of step 2,
\* read on the folded principal, against the same rule read on each hop.
LEMMA FoldShowsTheMeet ==
    ASSUME NEW p, NEW r \in Requesters, NEW k \in Tokens[r], NEW n \in Nat,
           FoldOf(p, k.chain, n), NEW t \in Tools
    PROVE  Visible(p, Decl[t]) <=> ChainGrants(k.chain, n, Decl[t])
PROOF
<1> DEFINE chain == k.chain
           d == Decl[t]
<1>1. /\ d.verb \in Verbs /\ d.clearance \in Nat /\ d.compartments \subseteq Declared
      /\ p.clearance \in Nat
      /\ \A i \in 1..n : chain[i].clearance \in Nat
    BY CallerAssumption DEF FoldOf
<1>2. d.verb \in p.verbs <=> \A i \in 1..n : d.verb \in chain[i].verbs
    BY <1>1 DEF FoldOf
<1>3. p.clearance >= d.clearance <=> \A i \in 1..n : d.clearance <= chain[i].clearance
    BY <1>1 DEF FoldOf
<1>4. d.compartments \subseteq p.compartments
            <=> \A i \in 1..n : d.compartments \subseteq chain[i].compartments
    BY <1>1 DEF FoldOf
<1>5. inScope(p.scope, d.sets)
            <=> ((\E i \in 1..n : chain[i].sets # {}) =>
                    \E s \in d.sets : \A i \in 1..n : chain[i].sets # {} => s \in chain[i].sets)
  <2>1. CASE ~p.scope.scoped
    BY <2>1 DEF inScope, FoldOf
  <2>2. CASE p.scope.scoped
    <3>1. \A s \in d.sets : s \in p.scope.sets <=>
                \A i \in 1..n : chain[i].sets # {} => s \in chain[i].sets
        BY <2>2 DEF FoldOf
    <3>2. \E i \in 1..n : chain[i].sets # {}
        BY <2>2 DEF FoldOf
    <3>3. inScope(p.scope, d.sets) <=> \E s \in d.sets : s \in p.scope.sets
        BY <2>2 DEF inScope
    <3> QED
        BY <3>1, <3>2, <3>3
  <2> QED
    BY <2>1, <2>2
<1>6. (\A i \in 1..n : HopGrants(chain[i], d)) <=>
        /\ \A i \in 1..n : d.verb \in chain[i].verbs
        /\ \A i \in 1..n : d.clearance <= chain[i].clearance
        /\ \A i \in 1..n : d.compartments \subseteq chain[i].compartments
    BY DEF HopGrants
<1> QED
    BY <1>2, <1>3, <1>4, <1>5, <1>6 DEF Visible, ChainGrants

--------------------------------------------------------------------------------
(* Induction.                                                               *)

\* No request has presented anything: the induction starts.
LEMMA InitIInv == Init => IInv
PROOF
<1> SUFFICES ASSUME Init PROVE IInv
    OBVIOUS
<1>1. \A r \in Requesters : at[r] = "idle"
    BY DEF Init
<1>2. Types
    BY <1>1 DEF Init, Types
<1> QED
    BY <1>1, <1>2 DEF IInv, GenuineAdmitted, FoldInv

\* What a step may do to a request's standing: nothing but move it within the
\* places it has, to one that asks no more of its token and its fold.
Steady(r) ==
    /\ UNCHANGED <<token, issuer, level, principal>>
    /\ DOMAIN got' = Requesters
    /\ \E s \in Authenticated \cup {"refused"} : at' = [at EXCEPT ![r] = s]
    /\ at[r] \in Authenticated \/ at'[r] = "refused"
    /\ at[r] # "idle"

\* A step that leaves a request's token, level and principal alone, and at
\* most refuses it, keeps what verification established about everyone.
LEMMA SteadyKeeps ==
    ASSUME NEW r \in Requesters, IInv, Steady(r)
    PROVE  IInv'
PROOF
<1>1. PICK s \in Authenticated \cup {"refused"} : at' = [at EXCEPT ![r] = s]
    BY DEF Steady
<1>2. \A q \in Requesters : at'[q] = IF q = r THEN s ELSE at[q]
    BY <1>1 DEF IInv, Types
<1>3. \A q \in Requesters : at'[q] \in Authenticated => at[q] \in Authenticated
    BY <1>2 DEF Steady
<1>4. Types'
    BY <1>1, <1>2 DEF IInv, Types, Steady
<1>5. GenuineAdmitted'
    BY <1>3 DEF IInv, GenuineAdmitted, Steady
<1>6. FoldInv'
    BY <1>3 DEF IInv, FoldInv, Steady
<1> QED
    BY <1>4, <1>5, <1>6 DEF IInv

\* Every step of Verify, Fold and the serving of a request keeps the
\* invariant; only Admit and FoldLevel touch what it says.
LEMMA StepIInv == IInv /\ [Next]_vars => IInv'
PROOF
<1> SUFFICES ASSUME IInv, [Next]_vars PROVE IInv'
    OBVIOUS
<1>1. CASE UNCHANGED vars
    BY <1>1 DEF vars, IInv, Types, GenuineAdmitted, FoldInv
<1>2. ASSUME NEW r \in Requesters, NEW k \in Tokens[r], Present(r, k)
      PROVE  IInv'
  <2>1. /\ at' = [at EXCEPT ![r] = "selecting"]
        /\ token' = [token EXCEPT ![r] = k]
        /\ UNCHANGED <<issuer, level, principal, got>>
      BY <1>2 DEF Present
  <2>2. \A q \in Requesters : /\ at'[q] = IF q = r THEN "selecting" ELSE at[q]
                              /\ token'[q] = IF q = r THEN k ELSE token[q]
      BY <2>1 DEF IInv, Types
  <2>3. Types'
      BY <2>1, <2>2 DEF IInv, Types
  <2>4. GenuineAdmitted'
      BY <2>1, <2>2 DEF IInv, GenuineAdmitted
  <2>5. FoldInv'
      BY <2>1, <2>2 DEF IInv, FoldInv
  <2> QED
      BY <2>3, <2>4, <2>5 DEF IInv
<1>3. ASSUME NEW r \in Requesters, Select(r)
      PROVE  IInv'
  <2>1. /\ at[r] = "selecting"
        /\ UNCHANGED <<token, level, principal, got>>
        /\ DOMAIN issuer' = Requesters
        /\ \A q \in Requesters \ {r} : issuer'[q] = issuer[q]
      BY <1>3 DEF Select, IInv, Types
  <2>2. \/ at' = [at EXCEPT ![r] = "refused"]
        \/ at' = [at EXCEPT ![r] = "selected"] /\ issuer'[r] \in Issuers
      BY <1>3 DEF Select, IInv, Types
  <2>3. \A q \in Requesters : at'[q] \in Authenticated => q # r /\ at[q] \in Authenticated
      BY <2>2 DEF IInv, Types
  <2>4. Types'
      BY <2>1, <2>2 DEF IInv, Types
  <2>5. GenuineAdmitted'
      BY <2>1, <2>3 DEF IInv, GenuineAdmitted
  <2>6. FoldInv'
      BY <2>1, <2>3 DEF IInv, FoldInv
  <2> QED
      BY <2>4, <2>5, <2>6 DEF IInv
<1>4. ASSUME NEW r \in Requesters, Admit(r)
      PROVE  IInv'
  <2>1. /\ at' = [at EXCEPT ![r] = "folding"]
        /\ at[r] = "selected"
        /\ level' = [level EXCEPT ![r] = 1]
        /\ principal' = [principal EXCEPT ![r] = Level(token[r].chain[1])]
        /\ UNCHANGED <<token, issuer, got>>
      BY <1>4 DEF Admit
  <2>2. /\ token[r] \in Tokens[r]
        /\ issuer[r] \in Issuers
      BY <2>1 DEF IInv, Types
  <2>3. \A q \in Requesters :
            /\ at'[q] = IF q = r THEN "folding" ELSE at[q]
            /\ level'[q] = IF q = r THEN 1 ELSE level[q]
            /\ principal'[q] = IF q = r THEN Level(token[r].chain[1]) ELSE principal[q]
      BY <2>1 DEF IInv, Types
  <2>4. Types'
      BY <2>1, <2>2, <2>3 DEF IInv, Types
  <2>5. /\ token[r].iss \in Issuers
        /\ KeyOf[token[r].iss][token[r].kid] = token[r].key
        /\ token[r].key # NoKey
        /\ token[r].aud = Audience
      BY <1>4, <2>2 DEF Admit, SameIssuer, Signed, checkRegistered
  <2>6. Len(token[r].chain) <= MaxDepth
      BY <1>4, <2>2, CallerAssumption, AuthorityAssumption DEF Admit, TooDeep
  <2>7. GenuineAdmitted'
      BY <2>1, <2>3, <2>5, <2>6 DEF IInv, GenuineAdmitted
  <2>8. FoldOf(Level(token[r].chain[1]), token[r].chain, 1)
      BY <2>2, LevelIsFold
  <2>9. FoldInv'
      BY <2>1, <2>3, <2>8 DEF IInv, FoldInv
  <2> QED
      BY <2>4, <2>7, <2>9 DEF IInv
<1>5. ASSUME NEW r \in Requesters, FoldLevel(r)
      PROVE  IInv'
  <2> DEFINE q0 == Meet(principal[r], token[r].chain[level[r] + 1])
  <2>1. /\ at[r] = "folding"
        /\ level[r] < Len(token[r].chain)
        /\ level' = [level EXCEPT ![r] = level[r] + 1]
        /\ principal' = [principal EXCEPT ![r] = q0]
        /\ UNCHANGED <<at, token, issuer, got>>
      BY <1>5 DEF FoldLevel
  <2>2. /\ token[r] \in Tokens[r]
        /\ FoldOf(principal[r], token[r].chain, level[r])
      BY <2>1 DEF IInv, Types, FoldInv
  <2>3. level[r] \in Nat
      BY <2>2 DEF FoldOf
  <2>4. FoldOf(q0, token[r].chain, level[r] + 1)
      BY <2>1, <2>2, <2>3, MeetIsFold
  <2>5. \A q \in Requesters :
            /\ level'[q] = IF q = r THEN level[r] + 1 ELSE level[q]
            /\ principal'[q] = IF q = r THEN q0 ELSE principal[q]
      BY <2>1 DEF IInv, Types
  <2> HIDE DEF q0
  <2>6. Types'
      BY <2>1 DEF IInv, Types
  <2>7. GenuineAdmitted'
      BY <2>1 DEF IInv, GenuineAdmitted
  <2>8. FoldInv'
      BY <2>1, <2>4, <2>5 DEF IInv, FoldInv
  <2> QED
      BY <2>6, <2>7, <2>8 DEF IInv
<1>6. ASSUME NEW r \in Requesters,
             \/ Refuse(r) \/ Folded(r) \/ CacheHit(r) \/ CacheMiss(r) \/ CachePublish(r)
             \/ \E want \in Asked : StartList(r, want)
             \/ Listed(r) \/ Violations(r)
             \/ \E t \in Tools : \E req \in Requests(Decl[t].input) : Call(r, t, req)
      PROVE  IInv'
  <2>1. CASE Refuse(r)
    <3>1. Steady(r)
        BY <2>1 DEF Refuse, Steady, IInv, Types
    <3> QED
        BY <3>1, SteadyKeeps
  <2>2. CASE Folded(r) \/ CacheMiss(r)
    <3>1. Steady(r)
        BY <2>2 DEF Folded, CacheMiss, Steady, IInv, Types
    <3> QED
        BY <3>1, SteadyKeeps
  <2>3. CASE CacheHit(r) \/ CachePublish(r)
    <3>1. Steady(r)
        BY <2>3 DEF CacheHit, CachePublish, Take, Steady, IInv, Types
    <3> QED
        BY <3>1, SteadyKeeps
  <2>4. CASE (\E want \in Asked : StartList(r, want)) \/ Listed(r)
    <3>1. Steady(r)
        BY <2>4 DEF StartList, Listed, Steady, IInv, Types
    <3> QED
        BY <3>1, SteadyKeeps
  <2>5. CASE Violations(r)
    <3>1. Steady(r)
        BY <2>5 DEF Violations, Answered, Steady, IInv, Types
    <3> QED
        BY <3>1, SteadyKeeps
  <2>6. CASE \E t \in Tools : \E req \in Requests(Decl[t].input) : Call(r, t, req)
    <3>1. PICK t \in Tools : \E req \in Requests(Decl[t].input) : Call(r, t, req)
        BY <2>6
    <3>2. PICK req \in Requests(Decl[t].input) : Call(r, t, req)
        BY <3>1
    <3>3. /\ at[r] = "ready"
          /\ UNCHANGED <<token, issuer, level, principal, got>>
          /\ at' = [at EXCEPT ![r] = "done"] \/ at' = [at EXCEPT ![r] = "looking"]
        BY <3>2 DEF Call, Answered
    <3>4. Steady(r)
        BY <3>3 DEF Steady, IInv, Types
    <3> QED
        BY <3>4, SteadyKeeps
  <2> QED
    BY <1>6, <2>1, <2>2, <2>3, <2>4, <2>5, <2>6
<1> QED
    BY <1>1, <1>2, <1>3, <1>4, <1>5, <1>6 DEF Next

\* At every moment of every request: types, that whoever is served was
\* verified by its own issuer's key (Verify), and that the principal is the
\* fold of the hops read so far (Fold).
THEOREM InductiveInvariant == Spec => []IInv
PROOF
<1> QED
    BY InitIInv, StepIInv, PTL DEF Spec

\* Nobody is served on the word of an issuer whose key did not sign: the
\* order of Verify, whatever the unverified payload selects.
THEOREM OnlyGenuineAdmitted == Spec => []GenuineAdmitted
PROOF
<1>1. IInv => GenuineAdmitted
    BY DEF IInv
<1> QED
    BY <1>1, InductiveInvariant, PTL

\* A chain of any length grants exactly what all of its hops grant, at every
\* level of Fold.
THEOREM DelegationIsMeet == Spec => []FoldIsMeet
PROOF
<1>1. IInv => FoldIsMeet
  <2> SUFFICES ASSUME IInv,
                      NEW r \in Requesters, at[r] \in Authenticated,
                      NEW t \in Tools
               PROVE  Visible(principal[r], Decl[t])
                            <=> ChainGrants(token[r].chain, level[r], Decl[t])
      BY DEF FoldIsMeet
  <2>1. /\ token[r] \in Tokens[r]
        /\ FoldOf(principal[r], token[r].chain, level[r])
      BY DEF IInv, Types, FoldInv
  <2>2. level[r] \in Nat
      BY <2>1 DEF FoldOf
  <2> QED
      BY <2>1, <2>2, FoldShowsTheMeet
<1> QED
    BY <1>1, InductiveInvariant, PTL

--------------------------------------------------------------------------------
(* Previews.                                                                *)

\* A narrowed scope lets through no tool the scope held does not.
LEMMA ScopeNarrows ==
    ASSUME NEW have, NEW add, NEW sets, inScope(intersectSets(have, add), sets)
    PROVE  inScope(have, sets)
PROOF
<1>1. CASE add = {}
    BY <1>1 DEF intersectSets
<1>2. CASE add # {} /\ have.scoped
    BY <1>2 DEF intersectSets, inScope, ScopedTo
<1>3. CASE add # {} /\ ~have.scoped
    BY <1>3 DEF inScope
<1> QED
    BY <1>1, <1>2, <1>3

\* What Narrow grants is never wider than what it was given.
LEMMA NarrowIsLesser ==
    ASSUME NEW p, p.clearance \in Nat, NEW w, w.clearance \in Nat, CanNarrow(p, w)
    PROVE  LET q == Narrow(p, w) IN
           /\ q.clearance \in Nat /\ q.clearance <= p.clearance
           /\ q.compartments \subseteq p.compartments
           /\ q.verbs \subseteq p.verbs
           /\ q.scope = intersectSets(p.scope, w.sets)
BY DEF CanNarrow, Narrow

\* Previewing a lesser principal (Core.Narrow) answers nothing about a tool or
\* a field its owner could not see.
THEOREM PreviewsNarrow == Spec => []PreviewOnlyNarrows
PROOF
<1>1. IInv => PreviewOnlyNarrows
  <2> SUFFICES ASSUME IInv,
                      NEW r \in Requesters, at[r] = "ready",
                      NEW w \in Wants, CanNarrow(principal[r], w)
               PROVE  /\ \A t \in Tools : Visible(Narrow(principal[r], w), Decl[t])
                                            => Visible(principal[r], Decl[t])
                      /\ \A m \in Messages : \A dim \in {"read", "write"} :
                            project(m, Narrow(principal[r], w), dim)
                                \subseteq project(m, principal[r], dim)
      BY DEF PreviewOnlyNarrows
  <2> DEFINE p == principal[r]
             q == Narrow(p, w)
  <2>1. /\ p.clearance \in Nat /\ w.clearance \in Nat
      BY CallerAssumption DEF IInv, FoldInv, FoldOf
  <2>2. /\ q.clearance \in Nat /\ q.clearance <= p.clearance
        /\ q.compartments \subseteq p.compartments
        /\ q.verbs \subseteq p.verbs
        /\ q.scope = intersectSets(p.scope, w.sets)
      BY <2>1, NarrowIsLesser
  <2> HIDE DEF q
  <2>3. ASSUME NEW t \in Tools, Visible(q, Decl[t])
        PROVE  Visible(p, Decl[t])
    <3>1. Decl[t].clearance \in Nat
        BY CallerAssumption
    <3>2. inScope(p.scope, Decl[t].sets)
        BY <2>2, <2>3, ScopeNarrows DEF Visible
    <3> QED
        BY <2>1, <2>2, <2>3, <3>1, <3>2 DEF Visible
  <2>4. ASSUME NEW m \in Messages, NEW dim \in {"read", "write"}, NEW f \in project(m, q, dim)
        PROVE  f \in project(m, p, dim)
    <3>1. \A g \in Ruled : Policy[g].read \in Nat /\ Policy[g].write \in Nat
        BY FieldAssumption
    <3>2. \A g \in Ruled : Clears(q, g, dim) => Clears(p, g, dim)
        BY <2>1, <2>2, <3>1 DEF Clears
    <3> QED
        BY <2>4, <3>2 DEF project
  <2> QED
      BY <2>3, <2>4 DEF q
<1> QED
    BY <1>1, InductiveInvariant, PTL

--------------------------------------------------------------------------------
(* Fields.                                                                  *)

\* Step 3 and the listing draw one line: a request is let through exactly when
\* every field it sets, in any element, is in its sender's input projection.
LEMMA ShownIsWritable ==
    ASSUME NEW m \in Messages, NEW shape, NEW req \in Requests(m)
    PROVE  checkInputWrites(shape, m, req) <=> FieldsSet(req) \subseteq project(m, shape, "write")
PROOF
<1>1. /\ \A e \in Elements : \A f \in req[e] :
            f \in Fields /\ MessageOf[f] = m /\ PathOf[f] \subseteq req[e]
      /\ \A f \in Fields : f \in PathOf[f] /\ PathOf[f] \subseteq Fields
      /\ Ruled \subseteq Fields
    BY FieldAssumption DEF Requests
<1>2. \A f : f \in FieldsSet(req) <=> fieldIsSet(req, f)
    BY DEF FieldsSet, fieldIsSet
<1>3. ASSUME checkInputWrites(shape, m, req), NEW f \in FieldsSet(req)
      PROVE  f \in project(m, shape, "write")
  <2>1. PICK e \in Elements : f \in req[e]
      BY <1>3 DEF FieldsSet
  <2>2. \A g \in PathOf[f] \cap Ruled : fieldIsSet(req, g) /\ MessageOf[g] = m
      BY <1>1, <2>1 DEF fieldIsSet
  <2> QED
      BY <1>1, <1>3, <2>1, <2>2 DEF checkInputWrites, project
<1>4. ASSUME FieldsSet(req) \subseteq project(m, shape, "write"),
             NEW f \in Ruled, fieldIsSet(req, f)
      PROVE  Clears(shape, f, "write")
  <2>1. f \in project(m, shape, "write") /\ f \in PathOf[f]
      BY <1>1, <1>2, <1>4
  <2> QED
      BY <2>1, <1>4 DEF project
<1> QED
    BY <1>3, <1>4 DEF checkInputWrites

--------------------------------------------------------------------------------
(* The schema cache.                                                        *)

\* Every object kept is in the heap as its key's projection, and whatever a
\* request holds for a key is what the cache keeps for it.
ShareInv ==
    /\ DOMAIN got = Requesters
    /\ \A key \in DOMAIN cache : <<key, cache[key]>> \in DOMAIN heap
    /\ \A r \in Requesters : \A g \in got[r] :
            g[1] \in DOMAIN cache /\ g = <<g[1], cache[g[1]]>>
    /\ SharedUntouched

\* The cache, the heap and what requests hold stay consistent, whichever of
\* several builders of one key publishes first (schemaCache.get).
LEMMA SharedAlways == Spec => []ShareInv
PROOF
<1>1. Init => ShareInv
  <2> SUFFICES ASSUME Init PROVE ShareInv
      OBVIOUS
  <2>1. DOMAIN cache = {} /\ DOMAIN heap = {}
      BY DEF Init
  <2> QED
      BY <2>1 DEF Init, ShareInv, SharedUntouched
<1>2. ShareInv /\ [Next]_vars => ShareInv'
  <2> SUFFICES ASSUME ShareInv, [Next]_vars PROVE ShareInv'
      OBVIOUS
  <2>1. CASE UNCHANGED <<got, cache, heap>>
      BY <2>1 DEF ShareInv, SharedUntouched
  <2>2. ASSUME NEW r \in Requesters, CacheHit(r)
        PROVE  ShareInv'
    <3> DEFINE key == Wanted(r)
    <3>1. /\ key \in DOMAIN cache
          /\ got' = [got EXCEPT ![r] = @ \cup {<<key, cache[key]>>}]
          /\ UNCHANGED <<cache, heap>>
        BY <2>2 DEF CacheHit, Take
    <3> HIDE DEF key
    <3> QED
        BY <3>1 DEF ShareInv, SharedUntouched
  <2>3. ASSUME NEW r \in Requesters, CachePublish(r)
        PROVE  ShareInv'
    <3> DEFINE x == NextOf(todo[r])
               key == Wanted(r)
               by == Keep(r, key)
               built == project(MessageAt(x), Shape(principal[r]), x[2])
    <3>1. /\ cache' = With(cache, key, by)
          /\ heap' = IF by = r THEN With(heap, <<key, r>>, built) ELSE heap
          /\ got' = [got EXCEPT ![r] = @ \cup {<<key, by>>}]
        BY <2>3 DEF CachePublish, Take
    <3>2. key = <<MessageAt(x), Shape(principal[r]), x[2]>>
        BY DEF Wanted, schemaKey
    <3>3. built = project(key[1], key[2], key[3])
        BY <3>2
    <3>4. by = IF key \in DOMAIN cache THEN cache[key] ELSE r
        BY DEF Keep
    <3> HIDE DEF x, key, by, built
    <3>5. /\ DOMAIN cache' = DOMAIN cache \cup {key}
          /\ cache'[key] = by
          /\ \A k \in DOMAIN cache : cache'[k] = cache[k]
        BY <3>1, <3>4 DEF With
    <3>6. /\ DOMAIN heap \subseteq DOMAIN heap'
          /\ DOMAIN heap' \subseteq DOMAIN heap \cup {<<key, r>>}
          /\ by = r => heap'[<<key, r>>] = built /\ <<key, r>> \in DOMAIN heap'
          /\ by # r => heap' = heap
          /\ \A o \in DOMAIN heap : o # <<key, r>> => heap'[o] = heap[o]
        BY <3>1 DEF With
    <3>7. SharedUntouched'
      <4> SUFFICES ASSUME NEW o \in DOMAIN heap'
                   PROVE  heap'[o] = project(o[1][1], o[1][2], o[1][3])
          BY DEF SharedUntouched
      <4>1. CASE by = r /\ o = <<key, r>>
          BY <4>1, <3>3, <3>6
      <4>2. CASE by = r /\ o # <<key, r>>
          BY <4>2, <3>6 DEF ShareInv, SharedUntouched
      <4>3. CASE by # r
          BY <4>3, <3>6 DEF ShareInv, SharedUntouched
      <4> QED
          BY <4>1, <4>2, <4>3
    <3>8. \A k \in DOMAIN cache' : <<k, cache'[k]>> \in DOMAIN heap'
        BY <3>4, <3>5, <3>6 DEF ShareInv
    <3>9. \A q \in Requesters : \A g \in got'[q] :
                g[1] \in DOMAIN cache' /\ g = <<g[1], cache'[g[1]]>>
      <4> SUFFICES ASSUME NEW q \in Requesters, NEW g \in got'[q]
                   PROVE  g[1] \in DOMAIN cache' /\ g = <<g[1], cache'[g[1]]>>
          OBVIOUS
      <4>1. g \in got[q] \/ g = <<key, by>>
          BY <3>1 DEF ShareInv
      <4> QED
          BY <4>1, <3>5 DEF ShareInv
    <3>10. DOMAIN got' = Requesters
        BY <3>1 DEF ShareInv
    <3> QED
        BY <3>7, <3>8, <3>9, <3>10 DEF ShareInv
  <2>4. ASSUME NEW r \in Requesters, Listed(r)
        PROVE  ShareInv'
    <3>1. UNCHANGED <<got, cache, heap>>
        BY <2>4 DEF Listed, withDraft
    <3> QED
        BY <3>1, <2>1
  <2>5. ASSUME NEW r \in Requesters,
               \/ \E k \in Tokens[r] : Present(r, k)
               \/ Select(r) \/ Admit(r) \/ Refuse(r) \/ FoldLevel(r) \/ Folded(r)
               \/ CacheMiss(r)
               \/ \E want \in Asked : StartList(r, want)
               \/ \E t \in Tools : \E req \in Requests(Decl[t].input) : Call(r, t, req)
               \/ Violations(r)
        PROVE  UNCHANGED <<got, cache, heap>>
      BY <2>5 DEF Present, Select, Admit, Refuse, FoldLevel, Folded, CacheMiss,
                  StartList, Call, Violations
  <2>6. CASE UNCHANGED vars
      BY <2>6, <2>1 DEF vars
  <2> QED
      BY <2>1, <2>2, <2>3, <2>4, <2>5, <2>6 DEF Next
<1> QED
    BY <1>1, <1>2, PTL DEF Spec

\* schemaCache.get returns one object per key, however many callers missed it
\* together.
THEOREM SchemasShared == Spec => []OneSchemaPerKey
PROOF
<1>1. ShareInv => OneSchemaPerKey
    BY DEF ShareInv, OneSchemaPerKey
<1> QED
    BY <1>1, SharedAlways, PTL

\* The list tools/list renders is one the whole cache shares (projectTool): no
\* request writes into it.
THEOREM SharedNeverWritten == Spec => []SharedUntouched
PROOF
<1>1. ShareInv => SharedUntouched
    BY DEF ShareInv
<1> QED
    BY <1>1, SharedAlways, PTL

--------------------------------------------------------------------------------
(* Listings and calls.                                                      *)

\* A lookup still to come, or one whose object is held.
Covered(r, t) ==
    \A d \in {"write", "read"} :
        \/ <<t, d>> \in todo[r]
        \/ \E g \in got[r] : g[1] = schemaKey(MessageAt(<<t, d>>), Shape(principal[r]), d)

\* What is being answered.
AskInv(r) ==
    LET a == ask[r] IN
    /\ a.kind \in {"list", "call"}
    /\ a.kind = "list" => /\ a.tools = Catalog(principal[r], a.want)
                          /\ \A t \in a.tools : Covered(r, t)
    /\ a.kind = "call" => /\ a.tool \in Tools /\ Visible(principal[r], Decl[a.tool])
                          /\ Covered(r, a.tool)
                          /\ a.set \subseteq project(Decl[a.tool].input, principal[r], "write")

\* What was answered to a principal, and to what.
AnswerOf(a, p, asked) ==
    /\ a.kind \in {"listed", "not_found", "denied", "valid", "invalid"}
    /\ a.kind = "listed" =>
            /\ DOMAIN a.view = Catalog(p, a.want)
            /\ \A t \in DOMAIN a.view :
                    a.view[t] = project(Decl[t].input, p, "write") \cup {Draft}
    /\ a.kind # "listed" =>
            /\ a.tool \in Tools
            /\ a.kind = "not_found" <=> ~Visible(p, Decl[a.tool])
    /\ a.kind = "denied" =>
            /\ a.set \subseteq Fields
            /\ ~(a.set \subseteq project(Decl[a.tool].input, p, "write"))
    /\ a.kind \in {"valid", "invalid"} =>
            a.set \subseteq project(Decl[a.tool].input, p, "write")
    /\ a.kind = "invalid" =>
            a.said = {v \in asked.broken : admitted(project(Decl[a.tool].input, p, "write"), v)}

\* A tools/list answer, while it is built and once it is given.
AnswerInv ==
    /\ DOMAIN ask = Requesters /\ DOMAIN todo = Requesters /\ DOMAIN answer = Requesters
    /\ \A r \in Requesters :
        /\ at[r] \in {"looking", "building"} => AskInv(r)
        /\ at[r] = "done" => AnswerOf(answer[r], principal[r], ask[r])
        /\ answer[r] # None => at[r] = "done"

\* Of a principal, the projection reads the shape.
LEMMA ShapeSuffices ==
    ASSUME NEW m, NEW p, NEW dim
    PROVE  project(m, Shape(p), dim) = project(m, p, dim)
BY DEF project, Clears, Shape

\* A request that has looked up a tool's input holds its own projection.
LEMMA ViewIsProjection ==
    ASSUME ShareInv, NEW r \in Requesters, NEW t, Covered(r, t), todo[r] = {}
    PROVE  View(r, <<t, "write">>) = project(Decl[t].input, principal[r], "write")
PROOF
<1> DEFINE x == <<t, "write">>
           key == schemaKey(MessageAt(x), Shape(principal[r]), x[2])
<1>1. MessageAt(x) = Decl[t].input /\ x[2] = "write"
    BY DEF MessageAt
<1>2. key = <<Decl[t].input, Shape(principal[r]), "write">>
    BY <1>1 DEF schemaKey
<1>3. \E g \in got[r] : g[1] = key
    BY <1>1 DEF Covered
<1> DEFINE ref == CHOOSE g \in got[r] : g[1] = key
<1>4. ref \in got[r] /\ ref[1] = key
    BY <1>3
<1>5. View(r, x) = heap[ref]
    BY DEF View
<1> HIDE DEF ref, key, x
<1>6. ref \in DOMAIN heap
    BY <1>4 DEF ShareInv
<1>7. heap[ref] = project(Decl[t].input, Shape(principal[r]), "write")
    BY <1>2, <1>4, <1>6 DEF ShareInv, SharedUntouched
<1> QED
    BY <1>5, <1>7, ShapeSuffices DEF x

\* A step of one request leaves what the others ask and answered.
Others(r) ==
    \A q \in Requesters \ {r} :
        /\ at'[q] = at[q] /\ principal'[q] = principal[q]
        /\ ask'[q] = ask[q] /\ todo'[q] = todo[q] /\ got'[q] = got[q]
        /\ answer'[q] = answer[q]

\* A step of one request leaves the others' answers as they were.
LEMMA OthersKeep ==
    ASSUME NEW r \in Requesters, AnswerInv, Others(r),
           DOMAIN ask' = Requesters, DOMAIN todo' = Requesters, DOMAIN answer' = Requesters,
           at'[r] \in {"looking", "building"} => AskInv(r)',
           at'[r] = "done" => AnswerOf(answer'[r], principal'[r], ask'[r]),
           answer'[r] # None => at'[r] = "done"
    PROVE  AnswerInv'
PROOF
<1>1. ASSUME NEW q \in Requesters, q # r
      PROVE  /\ at'[q] \in {"looking", "building"} => AskInv(q)'
             /\ at'[q] = "done" => AnswerOf(answer'[q], principal'[q], ask'[q])
             /\ answer'[q] # None => at'[q] = "done"
  <2>1. /\ at'[q] = at[q] /\ principal'[q] = principal[q]
        /\ ask'[q] = ask[q] /\ todo'[q] = todo[q] /\ got'[q] = got[q]
        /\ answer'[q] = answer[q]
      BY <1>1 DEF Others
  <2>2. AskInv(q)' <=> AskInv(q)
      BY <2>1 DEF AskInv, Covered
  <2> QED
      BY <2>1, <2>2 DEF AnswerInv
<1> QED
    BY <1>1 DEF AnswerInv

\* Before there is an answer, a step that stays out of serving changes none.
LEMMA VerifyKeepsAnswers ==
    ASSUME NEW r \in Requesters, Types, AnswerInv,
           UNCHANGED serving,
           NEW s \in {"selecting", "selected", "refused", "folding", "ready"},
           at' = [at EXCEPT ![r] = s],
           at[r] # "done",
           \A q \in Requesters \ {r} : principal'[q] = principal[q]
    PROVE  AnswerInv'
PROOF
<1>1. at'[r] = s /\ \A q \in Requesters \ {r} : at'[q] = at[q]
    BY DEF Types
<1>2. Others(r)
    BY <1>1 DEF Others
<1>3. answer'[r] = None
    BY DEF AnswerInv
<1> QED
    BY <1>1, <1>2, <1>3, OthersKeep DEF AnswerInv

\* A finished lookup is one schema less to do and one more held.
LEMMA TakeCovers ==
    ASSUME NEW r \in Requesters, Types, AnswerInv,
           at[r] \in {"looking", "building"},
           NEW by, Take(r, Wanted(r), by),
           UNCHANGED <<principal, ask, answer>>
    PROVE  AnswerInv'
PROOF
<1> DEFINE x == NextOf(todo[r])
           key == Wanted(r)
<1>1. /\ got' = [got EXCEPT ![r] = got[r] \cup {<<key, by>>}]
      /\ todo' = [todo EXCEPT ![r] = todo[r] \ {x}]
      /\ at' = [at EXCEPT ![r] = "looking"]
    BY DEF Take
<1>2. key = schemaKey(MessageAt(x), Shape(principal[r]), x[2])
    BY DEF Wanted
<1> HIDE DEF x, key
<1>3. /\ got'[r] = got[r] \cup {<<key, by>>}
      /\ todo'[r] = todo[r] \ {x}
      /\ at'[r] = "looking"
      /\ DOMAIN todo' = Requesters
    BY <1>1 DEF Types, AnswerInv
<1>4. Others(r)
    BY <1>1 DEF Others, Types, AnswerInv
<1>5. ASSUME NEW t, Covered(r, t)
      PROVE  Covered(r, t)'
  <2> SUFFICES ASSUME NEW d \in {"write", "read"}
               PROVE  \/ <<t, d>> \in todo'[r]
                      \/ \E g \in got'[r] :
                            g[1] = schemaKey(MessageAt(<<t, d>>), Shape(principal[r]), d)
      BY DEF Covered, MessageAt, schemaKey, Shape
  <2>1. CASE <<t, d>> = x
    <3>1. <<key, by>> \in got'[r]
        BY <1>3
    <3>2. key = schemaKey(MessageAt(<<t, d>>), Shape(principal[r]), d)
        BY <1>2, <2>1
    <3> QED
        BY <3>1, <3>2
  <2>2. CASE <<t, d>> # x
        BY <2>2, <1>3, <1>5 DEF Covered
  <2> QED
      BY <2>1, <2>2
<1>6. AskInv(r)'
    BY <1>5 DEF AskInv, AnswerInv
<1>7. answer'[r] = None
    BY DEF AnswerInv
<1> QED
    BY <1>3, <1>4, <1>6, <1>7, OthersKeep DEF AnswerInv

\* The answers of steps 2 and 3 and of validation are right when they are
\* given.
LEMMA CallAnswers ==
    ASSUME NEW r \in Requesters, Types, AnswerInv,
           NEW t \in Tools, NEW req \in Requests(Decl[t].input), Call(r, t, req)
    PROVE  AnswerInv'
PROOF
<1> DEFINE p == principal[r]
           in == Decl[t].input
<1>1. /\ at[r] = "ready"
      /\ UNCHANGED <<principal, got>>
      /\ answer[r] = None
      /\ in \in Messages
    BY CallerAssumption DEF Call, AnswerInv
<1>2. checkInputWrites(p, in, req) <=> FieldsSet(req) \subseteq project(in, p, "write")
    BY <1>1, ShownIsWritable
<1>3. FieldsSet(req) \subseteq Fields
    BY DEF FieldsSet, Requests
<1>4. ASSUME NEW a, Answered(r, a), AnswerOf(a, p, ask[r]), UNCHANGED <<ask, todo>>
      PROVE  AnswerInv'
  <2>1. at'[r] = "done" /\ answer'[r] = a /\ DOMAIN answer' = Requesters
      BY <1>4 DEF Answered, Types, AnswerInv
  <2>2. Others(r)
      BY <1>1, <1>4 DEF Answered, Others, Types, AnswerInv
  <2> QED
      BY <1>1, <1>4, <2>1, <2>2, OthersKeep DEF AnswerInv
<1>5. CASE ~Visible(p, Decl[t]) /\ Answered(r, [kind |-> "not_found", tool |-> t])
                               /\ UNCHANGED <<ask, todo>>
  <2>1. AnswerOf([kind |-> "not_found", tool |-> t], p, ask[r])
      BY <1>5 DEF AnswerOf
  <2> QED
      BY <1>4, <1>5, <2>1
<1>6. CASE /\ Visible(p, Decl[t]) /\ ~checkInputWrites(p, in, req)
           /\ Answered(r, [kind |-> "denied", tool |-> t, set |-> FieldsSet(req)])
           /\ UNCHANGED <<ask, todo>>
  <2>1. AnswerOf([kind |-> "denied", tool |-> t, set |-> FieldsSet(req)], p, ask[r])
      BY <1>2, <1>3, <1>6 DEF AnswerOf
  <2> QED
      BY <1>4, <1>6, <2>1
<1>7. CASE /\ Visible(p, Decl[t]) /\ checkInputWrites(p, in, req)
           /\ Answered(r, [kind |-> "valid", tool |-> t, set |-> FieldsSet(req)])
           /\ UNCHANGED <<ask, todo>>
  <2>1. AnswerOf([kind |-> "valid", tool |-> t, set |-> FieldsSet(req)], p, ask[r])
      BY <1>2, <1>7 DEF AnswerOf
  <2> QED
      BY <1>4, <1>7, <2>1
<1>8. ASSUME Visible(p, Decl[t]), checkInputWrites(p, in, req), NEW broken,
             ask' = [ask EXCEPT ![r] = [kind |-> "call", tool |-> t, set |-> FieldsSet(req),
                                        broken |-> broken]],
             todo' = [todo EXCEPT ![r] = Lookups({t})],
             at' = [at EXCEPT ![r] = "looking"], UNCHANGED answer
      PROVE  AnswerInv'
  <2>1. /\ at'[r] = "looking"
        /\ ask'[r] = [kind |-> "call", tool |-> t, set |-> FieldsSet(req), broken |-> broken]
        /\ todo'[r] = Lookups({t})
        /\ DOMAIN ask' = Requesters /\ DOMAIN todo' = Requesters
      BY <1>8 DEF Types, AnswerInv
  <2>2. Covered(r, t)'
      BY <2>1 DEF Covered, Lookups
  <2>3. AskInv(r)'
      BY <1>1, <1>2, <1>8, <2>1, <2>2 DEF AskInv
  <2>4. Others(r)
      BY <1>1, <1>8 DEF Others, Types, AnswerInv
  <2> QED
      BY <1>1, <1>8, <2>1, <2>3, <2>4, OthersKeep DEF AnswerInv
<1> QED
    BY <1>5, <1>6, <1>7, <1>8 DEF Call, Goto

\* A listing says what the projections of its tools say, with the draft key.
LEMMA ListAnswers ==
    ASSUME NEW r \in Requesters, Types, ShareInv, AnswerInv, Listed(r)
    PROVE  AnswerInv'
PROOF
<1> DEFINE tools == ask[r].tools
           a == [kind |-> "listed", want |-> ask[r].want,
                 view |-> [t \in tools |-> View(r, <<t, "write">>) \cup {Draft}]]
<1>1. /\ at[r] = "looking" /\ todo[r] = {} /\ ask[r].kind = "list"
      /\ answer' = [answer EXCEPT ![r] = a]
      /\ at' = [at EXCEPT ![r] = "done"]
      /\ UNCHANGED <<principal, ask, todo, got>>
    BY DEF Listed
<1>2. /\ tools = Catalog(principal[r], ask[r].want)
      /\ \A t \in tools : Covered(r, t)
    BY <1>1 DEF AnswerInv, AskInv
<1>3. \A t \in tools : View(r, <<t, "write">>) = project(Decl[t].input, principal[r], "write")
    BY <1>1, <1>2, ViewIsProjection
<1>4. AnswerOf(a, principal[r], ask[r])
    BY <1>2, <1>3 DEF AnswerOf
<1> HIDE DEF a
<1>5. at'[r] = "done" /\ answer'[r] = a /\ DOMAIN answer' = Requesters
    BY <1>1 DEF Types, AnswerInv
<1>6. Others(r)
    BY <1>1 DEF Others, Types, AnswerInv
<1> QED
    BY <1>1, <1>4, <1>5, <1>6, OthersKeep DEF AnswerInv

\* What is said of a broken rule was admitted by the caller's own projection.
LEMMA ViolationAnswers ==
    ASSUME NEW r \in Requesters, Types, ShareInv, AnswerInv, Violations(r)
    PROVE  AnswerInv'
PROOF
<1> DEFINE t == ask[r].tool
           a == [kind |-> "invalid", tool |-> t, set |-> ask[r].set,
                 said |-> {v \in ask[r].broken : admitted(View(r, <<t, "write">>), v)}]
<1>1. /\ at[r] = "looking" /\ todo[r] = {} /\ ask[r].kind = "call"
      /\ answer' = [answer EXCEPT ![r] = a]
      /\ at' = [at EXCEPT ![r] = "done"]
      /\ UNCHANGED <<principal, ask, todo, got>>
    BY DEF Violations, Answered
<1>2. /\ t \in Tools /\ Visible(principal[r], Decl[t]) /\ Covered(r, t)
      /\ ask[r].set \subseteq project(Decl[t].input, principal[r], "write")
    BY <1>1 DEF AnswerInv, AskInv
<1>3. View(r, <<t, "write">>) = project(Decl[t].input, principal[r], "write")
    BY <1>1, <1>2, ViewIsProjection
<1>4. AnswerOf(a, principal[r], ask[r])
    BY <1>2, <1>3 DEF AnswerOf
<1> HIDE DEF a
<1>5. at'[r] = "done" /\ answer'[r] = a /\ DOMAIN answer' = Requesters
    BY <1>1 DEF Types, AnswerInv
<1>6. Others(r)
    BY <1>1 DEF Others, Types, AnswerInv
<1> QED
    BY <1>1, <1>4, <1>5, <1>6, OthersKeep DEF AnswerInv

\* Every step keeps AnswerInv, one case per action.
LEMMA StepAnswers == IInv /\ ShareInv /\ AnswerInv /\ [Next]_vars => AnswerInv'
PROOF
<1> SUFFICES ASSUME IInv, ShareInv, AnswerInv, [Next]_vars PROVE AnswerInv'
    OBVIOUS
<1>1. Types
    BY DEF IInv
<1>2. CASE UNCHANGED vars
    BY <1>2 DEF vars, AnswerInv, AskInv, Covered
<1>3. ASSUME NEW r \in Requesters, NEW k \in Tokens[r], Present(r, k)
      PROVE  AnswerInv'
  <2>1. /\ UNCHANGED <<principal, serving>>
        /\ at' = [at EXCEPT ![r] = "selecting"] /\ at[r] # "done"
      BY <1>3 DEF Present
  <2> QED
      BY <1>1, <2>1, VerifyKeepsAnswers
<1>4. ASSUME NEW r \in Requesters, Select(r) \/ Refuse(r) \/ Folded(r)
      PROVE  AnswerInv'
  <2>1. /\ UNCHANGED <<principal, serving>> /\ at[r] # "done"
        /\ \/ at' = [at EXCEPT ![r] = "selected"]
           \/ at' = [at EXCEPT ![r] = "refused"]
           \/ at' = [at EXCEPT ![r] = "ready"]
      BY <1>4 DEF Select, Refuse, Folded
  <2> QED
      BY <1>1, <2>1, VerifyKeepsAnswers
<1>5. ASSUME NEW r \in Requesters, Admit(r) \/ FoldLevel(r)
      PROVE  AnswerInv'
  <2>1. /\ UNCHANGED serving /\ at[r] # "done"
        /\ at' = [at EXCEPT ![r] = "folding"]
        /\ \A q \in Requesters \ {r} : principal'[q] = principal[q]
      BY <1>1, <1>5 DEF Admit, FoldLevel, Types
  <2> QED
      BY <1>1, <2>1, VerifyKeepsAnswers
<1>6. ASSUME NEW r \in Requesters, CacheMiss(r)
      PROVE  AnswerInv'
  <2>1. /\ UNCHANGED <<principal, serving>>
        /\ at[r] = "looking" /\ at' = [at EXCEPT ![r] = "building"]
      BY <1>6 DEF CacheMiss
  <2>2. at'[r] = "building" /\ Others(r)
      BY <1>1, <2>1 DEF Types, Others
  <2>3. AskInv(r)'
      BY <2>1 DEF AnswerInv, AskInv, Covered
  <2>4. answer'[r] = None
      BY <2>1 DEF AnswerInv
  <2> QED
      BY <2>1, <2>2, <2>3, <2>4, OthersKeep DEF AnswerInv
<1>7. ASSUME NEW r \in Requesters, CacheHit(r)
      PROVE  AnswerInv'
  <2>1. /\ at[r] = "looking" /\ Take(r, Wanted(r), cache[Wanted(r)])
        /\ UNCHANGED <<principal, ask, answer>>
      BY <1>7 DEF CacheHit
  <2> QED
      BY <1>1, <2>1, TakeCovers
<1>8. ASSUME NEW r \in Requesters, CachePublish(r)
      PROVE  AnswerInv'
  <2>1. /\ at[r] = "building" /\ Take(r, Wanted(r), Keep(r, Wanted(r)))
        /\ UNCHANGED <<principal, ask, answer>>
      BY <1>8 DEF CachePublish
  <2> QED
      BY <1>1, <2>1, TakeCovers
<1>9. ASSUME NEW r \in Requesters, NEW want \in Asked, StartList(r, want)
      PROVE  AnswerInv'
  <2> DEFINE listed == Catalog(principal[r], want)
  <2>1. /\ at[r] = "ready"
        /\ ask' = [ask EXCEPT ![r] = [kind |-> "list", want |-> want, tools |-> listed]]
        /\ todo' = [todo EXCEPT ![r] = Lookups(listed)]
        /\ at' = [at EXCEPT ![r] = "looking"]
        /\ UNCHANGED <<principal, got, answer>>
      BY <1>9 DEF StartList
  <2>2. /\ at'[r] = "looking"
        /\ ask'[r] = [kind |-> "list", want |-> want, tools |-> listed]
        /\ todo'[r] = Lookups(listed)
        /\ DOMAIN ask' = Requesters /\ DOMAIN todo' = Requesters
      BY <1>1, <2>1 DEF Types, AnswerInv
  <2>3. \A t \in listed : Covered(r, t)'
      BY <2>2 DEF Covered, Lookups
  <2>4. AskInv(r)'
      BY <2>1, <2>2, <2>3 DEF AskInv
  <2>5. Others(r)
      BY <1>1, <2>1 DEF Others, Types, AnswerInv
  <2>6. answer'[r] = None
      BY <2>1 DEF AnswerInv
  <2> QED
      BY <2>1, <2>2, <2>4, <2>5, <2>6, OthersKeep DEF AnswerInv
<1>10. ASSUME NEW r \in Requesters,
              \/ Listed(r) \/ Violations(r)
              \/ \E t \in Tools : \E req \in Requests(Decl[t].input) : Call(r, t, req)
       PROVE  AnswerInv'
  <2>1. CASE Listed(r)
      BY <1>1, <2>1, ListAnswers
  <2>2. CASE Violations(r)
      BY <1>1, <2>2, ViolationAnswers
  <2>3. CASE \E t \in Tools : \E req \in Requests(Decl[t].input) : Call(r, t, req)
      BY <1>1, <2>3, CallAnswers
  <2> QED
      BY <1>10, <2>1, <2>2, <2>3
<1> QED
    BY <1>2, <1>3, <1>4, <1>5, <1>6, <1>7, <1>8, <1>9, <1>10 DEF Next

\* Every answer given says what its principal's authority decides.
LEMMA AnswersAlways == Spec => []AnswerInv
PROOF
<1>1. Init => AnswerInv
    BY DEF Init, AnswerInv
<1> QED
    BY <1>1, StepAnswers, InductiveInvariant, SharedAlways, PTL DEF Spec

\* The catalogue a caller is listed and the calls another of the same
\* authority makes are decided by one rule, tool by tool and field by field.
THEOREM ListingsAgreeWithCalls == Spec => []ListingMatchesCalls
PROOF
<1>1. AnswerInv => ListingMatchesCalls
  <2> SUFFICES ASSUME AnswerInv,
                      NEW r \in Requesters, NEW q \in Requesters,
                      at[r] = "done", answer[r].kind = "listed",
                      at[q] = "done", answer[q].kind # "listed",
                      principal[r] = principal[q],
                      AudienceAdmits(Decl[answer[q].tool].audience, answer[r].want)
               PROVE  LET t == answer[q].tool
                          shown == t \in DOMAIN answer[r].view
                      IN  /\ shown <=> answer[q].kind # "not_found"
                          /\ answer[q].kind \in {"valid", "invalid"}
                                => answer[q].set \subseteq answer[r].view[t]
                          /\ answer[q].kind = "denied"
                                => ~(answer[q].set \subseteq answer[r].view[t])
      BY DEF ListingMatchesCalls
  <2> DEFINE p == principal[r]
             t == answer[q].tool
             mine == project(Decl[t].input, p, "write")
  <2>1. AnswerOf(answer[r], p, ask[r]) /\ AnswerOf(answer[q], p, ask[q])
      BY DEF AnswerInv
  <2>2. t \in DOMAIN answer[r].view <=> Visible(p, Decl[t])
      BY <2>1 DEF AnswerOf, Catalog
  <2>3. t \in DOMAIN answer[r].view <=> answer[q].kind # "not_found"
      BY <2>1, <2>2 DEF AnswerOf
  <2>4. answer[q].kind # "not_found" => answer[r].view[t] = mine \cup {Draft}
      BY <2>1, <2>3 DEF AnswerOf
  <2>5. answer[q].kind \in {"valid", "invalid"} => answer[q].set \subseteq mine
      BY <2>1 DEF AnswerOf
  <2>6. answer[q].kind = "denied" => /\ answer[q].set \subseteq Fields
                                     /\ ~(answer[q].set \subseteq mine)
      BY <2>1 DEF AnswerOf
  <2>7. Draft \notin Fields
      BY CallerAssumption
  <2> HIDE DEF mine, t
  <2>8. answer[q].kind \in {"valid", "invalid"} => answer[q].set \subseteq answer[r].view[t]
      BY <2>4, <2>5
  <2>9. answer[q].kind = "denied" => ~(answer[q].set \subseteq answer[r].view[t])
      BY <2>4, <2>6, <2>7
  <2> QED
      BY <2>3, <2>8, <2>9 DEF t
<1> QED
    BY <1>1, AnswersAlways, PTL

\* What a listing by the same authority shows of a tool is its own projection,
\* to one who asks for an audience that would be offered it.
LEMMA ShownIsProjected ==
    ASSUME AnswerInv, NEW r \in Requesters, NEW t \in Tools,
           at[r] = "done", answer[r].kind = "listed", Visible(principal[r], Decl[t]),
           AudienceAdmits(Decl[t].audience, answer[r].want)
    PROVE  answer[r].view[t] = project(Decl[t].input, principal[r], "write") \cup {Draft}
PROOF
<1>1. AnswerOf(answer[r], principal[r], ask[r])
    BY DEF AnswerInv
<1>2. t \in DOMAIN answer[r].view
    BY <1>1 DEF AnswerOf, Catalog
<1> QED
    BY <1>1, <1>2 DEF AnswerOf

\* admittedViolations tells a refused caller what the listing of another of the
\* same authority bears out: nothing on a field it withheld, no CEL rule
\* selecting one, and every other rule broken on a field step 3 let through.
THEOREM ViolationsAgreeWithListings == Spec => []ViolationsMatchListing
PROOF
<1>1. AnswerInv => ViolationsMatchListing
  <2> SUFFICES ASSUME AnswerInv,
                      NEW r \in Requesters, NEW q \in Requesters,
                      at[r] = "done", answer[r].kind = "listed",
                      at[q] = "done", answer[q].kind = "invalid",
                      principal[r] = principal[q],
                      AudienceAdmits(Decl[answer[q].tool].audience, answer[r].want)
               PROVE  LET shown == answer[r].view[answer[q].tool] \cup {NoField}
                      IN  /\ \A v \in answer[q].said :
                              /\ v.field \in shown
                              /\ isCEL(v) => /\ celRuleFor(v) /\ celFieldRefs(v)
                                             /\ v.refs \subseteq shown
                          /\ \A v \in ask[q].broken :
                              ~isCEL(v) /\ v.field \in answer[q].set => v \in answer[q].said
      BY DEF ViolationsMatchListing
  <2> DEFINE t == answer[q].tool
             mine == project(Decl[t].input, principal[q], "write")
             shown == answer[r].view[t] \cup {NoField}
  <2>1. AnswerOf(answer[q], principal[q], ask[q])
      BY DEF AnswerInv
  <2>2. /\ t \in Tools /\ Visible(principal[q], Decl[t])
        /\ answer[q].set \subseteq mine
        /\ answer[q].said = {v \in ask[q].broken : admitted(mine, v)}
      BY <2>1 DEF AnswerOf
  <2>3. answer[r].view[t] = mine \cup {Draft}
      BY <2>2, ShownIsProjected
  <2> HIDE DEF mine, t
  <2>4. ASSUME NEW v \in answer[q].said
        PROVE  /\ v.field \in shown
               /\ isCEL(v) => celRuleFor(v) /\ celFieldRefs(v) /\ v.refs \subseteq shown
    <3>1. admitted(mine, v)
        BY <2>2
    <3> QED
        BY <2>3, <3>1 DEF admitted, admittedPath
  <2>5. ASSUME NEW v \in ask[q].broken, ~isCEL(v), v.field \in answer[q].set
        PROVE  v \in answer[q].said
    <3>1. admitted(mine, v)
        BY <2>2, <2>5 DEF admitted, admittedPath
    <3> QED
        BY <2>2, <3>1
  <2> QED
      BY <2>4, <2>5 DEF t
<1> QED
    BY <1>1, AnswersAlways, PTL
================================================================================

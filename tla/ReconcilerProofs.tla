---------------------------- MODULE ReconcilerProofs ----------------------------
(***************************************************************************)
(* What a sweep may conclude, for any plane, catalogues and losses.        *)
(***************************************************************************)
EXTENDS Reconciler, FiniteSetTheorems, TLAPS

Sweeps ==
    [at : {"rest", "info"}, cat : Catalogues, full : BOOLEAN,
     counted : SUBSET Instances, asking : SUBSET Names,
     heard : SUBSET Instances, partial : SUBSET Names]

Types ==
    /\ up \subseteq Instances
    /\ current \in Catalogues
    /\ sweep \in Sweeps

\* A service asked and not partial was heard from as often as it was counted.
RoundInv ==
    \A n \in Names \ (sweep.asking \cup sweep.partial) :
        Cardinality(sweep.counted \cap Of(n)) <= Cardinality(sweep.heard \cap Of(n))

\* The invariant of a sweep.
IInv == Types /\ RoundInv

--------------------------------------------------------------------------------
\* A finite set of naturals that is not empty has a largest element.
LEMMA LargestNat ==
    ASSUME NEW T \in SUBSET Nat, IsFiniteSet(T), T # {}
    PROVE  Max(T) \in T /\ \A y \in T : Max(T) >= y
PROOF
<1> DEFINE Above(x) == {y \in T : y > x}
           Ups == {Above(x) : x \in T}
           R == StrictSubsetOrdering(T)
<1>1. IsWellFoundedOn(R, FiniteSubsetsOf(T))
    BY FS_StrictSubsetOrderingWellFounded
<1>2. Ups \subseteq FiniteSubsetsOf(T) /\ Ups # {}
  <2>1. ASSUME NEW x \in T PROVE Above(x) \in FiniteSubsetsOf(T)
    <3>1. Above(x) \subseteq T
        OBVIOUS
    <3> HIDE DEF Above
    <3> QED
        BY <3>1, FS_Subset DEF FiniteSubsetsOf
  <2> HIDE DEF Above
  <2> QED
      BY <2>1
<1>3. \E u \in Ups : \A w \in Ups : ~(<<w, u>> \in R)
  <2> HIDE DEF R, Ups
  <2> QED
      BY <1>1, <1>2, WFMin
<1>4. PICK x \in T : \A z \in T : ~(<<Above(z), Above(x)>> \in R)
    BY <1>3
<1>5. ASSUME NEW y \in T, y > x PROVE FALSE
  <2>0. x \in Nat /\ y \in Nat /\ \A z \in T : z \in Nat
      OBVIOUS
  <2>1. Above(y) \subseteq Above(x) /\ y \in Above(x) /\ y \notin Above(y)
    <3>1. \A z \in T : z > y => z > x
        BY <1>5, <2>0
    <3>2. ~(y > y)
        BY <2>0
    <3> QED
        BY <1>5, <3>1, <3>2
  <2>2. <<Above(y), Above(x)>> \in R
    <3>1. Above(y) \subseteq T /\ Above(x) \subseteq T
        OBVIOUS
    <3> HIDE DEF Above
    <3> QED
        BY <2>1, <3>1 DEF StrictSubsetOrdering
  <2> QED
      BY <1>4, <2>2
<1>6. \A y \in T : x >= y
    BY <1>5
<1> HIDE DEF Above
<1> QED
    BY <1>6 DEF Max

USE ConstantsAssumption

\* The instances of a name, and of some of the plane, are finitely many.
LEMMA Counts ==
    ASSUME NEW A \in SUBSET Instances
    PROVE  IsFiniteSet(A) /\ Cardinality(A) \in Nat
BY FS_Subset, FS_CardinalityType

\* Nothing is asked yet.
LEMMA InitHolds == Init => IInv
PROOF
<1> SUFFICES ASSUME Init PROVE IInv
    OBVIOUS
<1>1. Types
    BY DEF Init, Types, Sweeps, Resting
<1>2. RoundInv
  <2>1. sweep.counted = {} /\ sweep.heard = {}
      BY DEF Init, Resting
  <2> QED
      BY <2>1, FS_EmptySet DEF RoundInv
<1> QED
    BY <1>1, <1>2 DEF IInv

\* Between sweeps the round is empty.
LEMMA RestHolds ==
    ASSUME IInv, sweep' = Resting, UNCHANGED <<up, current>>
    PROVE  IInv'
PROOF
<1>1. Types'
    BY DEF IInv, Types, Sweeps, Resting
<1>2. RoundInv'
  <2>1. sweep'.counted = {} /\ sweep'.heard = {}
      BY DEF Resting
  <2> QED
      BY <2>1, FS_EmptySet DEF RoundInv, Of
<1> QED
    BY <1>1, <1>2 DEF IInv

\* PING: every name that was counted is to be asked.
LEMMA PingStep ==
    ASSUME IInv, NEW heard \in SUBSET up, NEW full \in BOOLEAN, Ping(heard, full)
    PROVE  IInv'
PROOF
<1>1. /\ heard \subseteq Instances /\ UNCHANGED <<up, current>>
      /\ sweep' = [at |-> "info", cat |-> current, full |-> full, counted |-> heard,
                   asking |-> {NameOf[i] : i \in heard}, heard |-> {}, partial |-> {}]
    BY DEF IInv, Types, Ping, plane
<1>2. Types'
    BY <1>1 DEF IInv, Types, Sweeps, Names
<1>3. RoundInv'
  <2> SUFFICES ASSUME NEW n \in Names, n \notin sweep'.asking
               PROVE  Cardinality(sweep'.counted \cap Of(n))
                        <= Cardinality(sweep'.heard \cap Of(n))
      BY DEF RoundInv, Of
  <2>1. /\ sweep'.counted = heard /\ sweep'.heard = {}
        /\ n \notin {NameOf[i] : i \in heard}
      BY <1>1
  <2>2. sweep'.counted \cap Of(n) = {} /\ sweep'.heard \cap Of(n) = {}
      BY <2>1 DEF Of
  <2>3. Cardinality({}) = 0
      BY FS_EmptySet
  <2>4. /\ Cardinality(sweep'.counted \cap Of(n)) = 0
        /\ Cardinality(sweep'.heard \cap Of(n)) = 0
      BY <2>2, <2>3, Zenon
  <2> QED
      BY <2>4
<1> QED
    BY <1>2, <1>3 DEF IInv

\* INFO: a name is done when as many answered as were counted, or partial.
LEMMA InfoStep ==
    ASSUME IInv, NEW n \in sweep.asking, NEW clean \in BOOLEAN,
           NEW heard \in SUBSET (up \cap Of(n)), Info(n, heard, clean)
    PROVE  IInv'
PROOF
<1>1. /\ sweep \in Sweeps /\ heard \in SUBSET Instances /\ heard \subseteq Of(n)
      /\ n \in Names /\ UNCHANGED <<up, current>>
      /\ sweep' = [sweep EXCEPT
                      !.asking = sweep.asking \ {n},
                      !.heard = sweep.heard \cup heard,
                      !.partial = IF Short(n, heard, clean)
                                     THEN sweep.partial \cup {n} ELSE sweep.partial]
    BY DEF IInv, Types, Sweeps, Info, plane
<1>2. /\ sweep'.counted = sweep.counted
      /\ sweep'.asking = sweep.asking \ {n}
      /\ sweep'.heard = sweep.heard \cup heard
      /\ sweep'.partial = IF Short(n, heard, clean)
                             THEN sweep.partial \cup {n} ELSE sweep.partial
    BY <1>1 DEF Sweeps
<1>3. Types'
    BY <1>1 DEF IInv, Types, Sweeps
<1>4. RoundInv'
  <2> SUFFICES ASSUME NEW m \in Names, m \notin sweep'.asking, m \notin sweep'.partial
               PROVE  Cardinality(sweep.counted \cap Of(m))
                        <= Cardinality(sweep'.heard \cap Of(m))
      BY <1>2 DEF RoundInv, Of
  <2>1. CASE m = n
    <3>1. ~Short(n, heard, clean)
        BY <1>2, <2>1
    <3>2. Cardinality(sweep.counted \cap Of(n)) <= Cardinality(heard)
      <4>1. /\ Cardinality(heard) \in Nat
            /\ Cardinality(sweep.counted \cap Of(n)) \in Nat
          BY <1>1, Counts DEF Sweeps
      <4> QED
          BY <3>1, <4>1 DEF Short
    <3>3. heard \subseteq sweep'.heard \cap Of(n) /\ sweep'.heard \cap Of(n) \in SUBSET Instances
        BY <1>1, <1>2 DEF Sweeps
    <3>4. Cardinality(heard) <= Cardinality(sweep'.heard \cap Of(n))
        BY <3>3, Counts, FS_Subset
    <3>5. /\ Cardinality(sweep.counted \cap Of(n)) \in Nat
          /\ Cardinality(heard) \in Nat
          /\ Cardinality(sweep'.heard \cap Of(n)) \in Nat
        BY <1>1, <3>3, Counts DEF Sweeps
    <3> QED
        BY <2>1, <3>2, <3>4, <3>5
  <2>2. CASE m # n
    <3>1. m \notin sweep.asking /\ m \notin sweep.partial
        BY <1>2, <2>2
    <3>2. sweep'.heard \cap Of(m) = sweep.heard \cap Of(m)
        BY <1>1, <1>2, <2>2 DEF Of
    <3> QED
        BY <3>1, <3>2 DEF IInv, RoundInv
  <2> QED
      BY <2>1, <2>2
<1> QED
    BY <1>3, <1>4 DEF IInv

\* A round knows which names it heard in full, whatever starts, stops, is
\* reloaded or is lost meanwhile.
THEOREM RoundInvariant == Spec => []IInv
PROOF
<1>1. IInv /\ [Next]_vars => IInv'
  <2> SUFFICES ASSUME IInv, [Next]_vars PROVE IInv'
      OBVIOUS
  <2>1. ASSUME UNCHANGED sweep, up' \subseteq Instances, current' \in Catalogues PROVE IInv'
      BY <2>1 DEF IInv, Types, RoundInv, Of
  <2>2. ASSUME NEW i \in Instances, Start(i) \/ Stop(i) PROVE IInv'
    <3>1. UNCHANGED <<sweep, current>> /\ up' \subseteq Instances
        BY <2>2 DEF Start, Stop, IInv, Types
    <3> QED
        BY <2>1, <3>1 DEF IInv, Types
  <2>3. ASSUME NEW c \in Catalogues, Reload(c) PROVE IInv'
      BY <2>1, <2>3 DEF Reload, IInv, Types
  <2>4. CASE Discover
    <3>1. CASE Apply
        BY <3>1, RestHolds DEF Apply, plane
    <3> QED
        BY <2>4, <3>1, PingStep, InfoStep DEF Discover
  <2>5. CASE ServicesFails
      BY <2>5, RestHolds DEF ServicesFails, plane
  <2>6. CASE UNCHANGED vars
      BY <2>1, <2>6 DEF vars, IInv, Types
  <2> QED
      BY <2>2, <2>3, <2>4, <2>5, <2>6 DEF Next
<1> QED
    BY <1>1, InitHolds, PTL DEF Spec

--------------------------------------------------------------------------------
(* What a sweep lifts.                                                      *)

\* Only the conclusion of a sweep changes the verdicts.
LEMMA OnlyApplyLifts == [Next]_vars => Apply \/ Lifted = {}
PROOF
<1> SUFFICES ASSUME [Next]_vars, ~Apply PROVE quarantined' = quarantined
    BY DEF Lifted
<1> QED
    BY DEF Next, Discover, Start, Stop, Reload, Ping, Info, ServicesFails, vars, verdicts

\* What is lifted was heard in full, and nothing heard contradicts it.
LEMMA LiftedIsClean ==
    ASSUME Apply, NEW p \in Lifted
    PROVE  Complete(pkgService(p)) /\ p \notin Bad
BY DEF Apply, Lifted

\* A failed or short round and a reload lift nothing, and a contradiction that
\* was heard stands (Reconciler.sweep).
THEOREM EvidenceLifts == Spec => LiftedOnlyOnEvidence
PROOF
<1>1. [Next]_vars =>
        (Lifted # {} => sweep.full /\ Lifted \cap Mismatched(sweep.cat, sweep.heard) = {})
  <2> SUFFICES ASSUME Apply, NEW p \in Lifted
               PROVE  sweep.full /\ p \notin Mismatched(sweep.cat, sweep.heard)
      BY OnlyApplyLifts
  <2> QED
      BY LiftedIsClean DEF Complete, Bad, Mismatched, Carries
<1> QED
    BY <1>1, PTL DEF Spec, LiftedOnlyOnEvidence

\* pkgService is a service that was heard carrying the package, if one was.
LEMMA ServiceCarries ==
    ASSUME IInv, NEW p \in Seen
    PROVE  \E i \in sweep.heard : NameOf[i] = pkgService(p) /\ Carries(i, p)
PROOF
<1> DEFINE S == {NameOf[i] : i \in {j \in sweep.heard : Carries(j, p)}}
           T == {0} \cup S
<1>1. sweep.heard \subseteq Instances
    BY DEF IInv, Types, Sweeps
<1>2. T \in SUBSET Nat
    BY <1>1
<1>3. IsFiniteSet(T)
  <2>1. IsFiniteSet({j \in sweep.heard : Carries(j, p)})
      BY <1>1, Counts
  <2>2. IsFiniteSet(S)
    <3> DEFINE H == {j \in sweep.heard : Carries(j, p)}
               f == [j \in H |-> NameOf[j]]
    <3>1. f \in Surjection(H, S)
        BY DEF Surjection
    <3> HIDE DEF f
    <3> QED
        BY <2>1, <3>1, FS_Surjection
  <2> HIDE DEF S
  <2>3. T = S \cup {0}
      OBVIOUS
  <2> QED
      BY <2>2, <2>3, FS_AddElement
<1>4. PICK i \in sweep.heard : Carries(i, p)
    BY DEF Seen
<1>5. NameOf[i] \in T /\ NameOf[i] > 0
    BY <1>1, <1>4
<1>6. Max(T) \in T /\ \A y \in T : Max(T) >= y
  <2> HIDE DEF T
  <2> QED
      BY <1>2, <1>3, <1>5, LargestNat
<1>7. Max(T) \in S
  <2>1. Max(T) # 0
    <3>1. Max(T) \in Nat /\ NameOf[i] \in Nat /\ Max(T) >= NameOf[i] /\ NameOf[i] > 0
      <4> HIDE DEF T
      <4> QED
          BY <1>2, <1>5, <1>6
    <3> HIDE DEF T
    <3> QED
        BY <3>1
  <2>2. \A x \in T : x # 0 => x \in S
      OBVIOUS
  <2> HIDE DEF T
  <2> QED
      BY <1>6, <2>1, <2>2
<1> QED
    BY <1>7 DEF pkgService

\* What was counted of the service a package is lifted for does not contradict
\* the catalogue: a short INFO round cannot pass for a clean one.
THEOREM CountsHold == Spec => CountedMismatchStands
PROOF
<1>1. IInv /\ [Next]_vars =>
        \A p \in Lifted \cap Seen :
          sweep.heard \subseteq sweep.counted =>
              \E n \in Names :
                  /\ \E i \in sweep.heard \cap Of(n) : Carries(i, p)
                  /\ p \notin Mismatched(sweep.cat, sweep.counted \cap Of(n))
  <2> SUFFICES ASSUME IInv, Apply, NEW p \in Lifted, p \in Seen,
                      sweep.heard \subseteq sweep.counted
               PROVE  \E n \in Names :
                         /\ \E i \in sweep.heard \cap Of(n) : Carries(i, p)
                         /\ p \notin Mismatched(sweep.cat, sweep.counted \cap Of(n))
      BY OnlyApplyLifts
  <2>1. PICK i \in sweep.heard : NameOf[i] = pkgService(p) /\ Carries(i, p)
      BY ServiceCarries
  <2>2. PICK n : n = NameOf[i]
      OBVIOUS
  <2>3. sweep.heard \subseteq Instances /\ sweep.counted \subseteq Instances
      BY DEF IInv, Types, Sweeps
  <2>4. i \in sweep.heard \cap Of(n) /\ n \in Names
      BY <2>2, <2>3 DEF Of, Names
  <2>5. n \notin sweep.partial /\ sweep.asking = {} /\ p \notin Bad
      BY <2>1, <2>2, LiftedIsClean DEF Complete, Apply
  <2>6. Cardinality(sweep.counted \cap Of(n)) <= Cardinality(sweep.heard \cap Of(n))
      BY <2>4, <2>5 DEF IInv, RoundInv
  <2>7. sweep.heard \cap Of(n) = sweep.counted \cap Of(n)
    <3>1. /\ sweep.heard \cap Of(n) \subseteq sweep.counted \cap Of(n)
          /\ IsFiniteSet(sweep.counted \cap Of(n))
          /\ Cardinality(sweep.counted \cap Of(n)) \in Nat
          /\ Cardinality(sweep.heard \cap Of(n)) \in Nat
        BY <2>3, Counts
    <3> QED
        BY <2>6, <3>1, FS_Subset
  <2>8. p \notin Mismatched(sweep.cat, sweep.counted \cap Of(n))
      BY <2>5, <2>7 DEF Mismatched, Bad, Carries
  <2> QED
      BY <2>1, <2>4, <2>8
<1> QED
    BY <1>1, RoundInvariant, PTL DEF Spec, CountedMismatchStands
================================================================================

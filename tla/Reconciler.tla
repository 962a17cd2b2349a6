------------------------------- MODULE Reconciler ------------------------------
(***************************************************************************)
(* Contract reconciliation (internal/serve, Reconciler) over one discovery *)
(* call (internal/transport/nats, Transport.Services).                     *)
(*                                                                         *)
(* A sweep reads the current catalogue, counts the plane's instances with  *)
(* PING, asks each counted service for its endpoints and contract digest   *)
(* with INFO, concurrently, and replaces the verdicts.  Instances start    *)
(* and stop and the catalogue is reloaded between any two of those steps.  *)
(* A reply can be lost with the round knowing (a slow consumer, the        *)
(* ceiling) or without (the stall interval passed: the iterator just       *)
(* ends).                                                                  *)
(*                                                                         *)
(* Service names are positive numbers in their sorted order; 0 is "".  A   *)
(* verdict is membership in quarantined; why it was reached is left out.   *)
(***************************************************************************)
EXTENDS Naturals, FiniteSets, FiniteSetsExt

CONSTANTS
    Instances,      \* micro service instances that may run
    NameOf,         \* the service name an instance registers
    Serves,         \* the proto packages whose subjects it listens on
    Identity,       \* the descriptor digest it advertises
    NoDigest,       \* "": no digest advertised, or none recorded
    Undeclared,     \* a package the catalogue has no tool in
    Catalogues,     \* generations: package -> digest, NoDigest or Undeclared
    Boot,           \* the generation the process starts with
    Packages,       \* proto packages
    MaxChanges,     \* bound: starts, stops and reloads
    MaxLosses       \* bound: discovery rounds that lose something

Names == {NameOf[i] : i \in Instances}

ASSUME ConstantsAssumption ==
    /\ IsFiniteSet(Instances)
    /\ NameOf \in [Instances -> Nat \ {0}]
    /\ Serves \in [Instances -> SUBSET Packages]
    /\ Boot \in Catalogues
    /\ \A c \in Catalogues : DOMAIN c = Packages
    /\ MaxChanges \in Nat /\ MaxLosses \in Nat

VARIABLES
    up,             \* the instances running
    current,        \* catalogue.Store: the generation serving
    quarantined,    \* Reconciler.quarantined
    seen,           \* Reconciler.seen
    sweep,          \* the sweep in progress
    changes, losses

vars == <<up, current, quarantined, seen, sweep, changes, losses>>

Of(n) == {i \in Instances : NameOf[i] = n}

\* Between sweeps nothing of a round is held.
Resting ==
    [at |-> "rest", cat |-> Boot, full |-> FALSE, counted |-> {}, asking |-> {},
     heard |-> {}, partial |-> {}]

Init ==
    /\ up \in SUBSET Instances
    /\ current = Boot
    /\ quarantined = {} /\ seen = {}
    /\ sweep = Resting
    /\ changes = 0 /\ losses = 0

plane == <<up, current, changes>>
verdicts == <<quarantined, seen>>

-----------------------------------------------------------------------------
(* The plane and the catalogue.                                            *)

Change == changes < MaxChanges /\ changes' = changes + 1

Start(i) ==
    /\ Change /\ i \notin up
    /\ up' = up \cup {i}
    /\ UNCHANGED <<current, verdicts, sweep, losses>>

Stop(i) ==
    /\ Change /\ i \in up
    /\ up' = up \ {i}
    /\ UNCHANGED <<current, verdicts, sweep, losses>>

\* Store.Reload: the reconciler is not told.
Reload(c) ==
    /\ Change /\ c # current
    /\ current' = c
    /\ UNCHANGED <<up, verdicts, sweep, losses>>

-----------------------------------------------------------------------------
(* Transport.Services.                                                     *)

Lossy(lost) ==
    /\ lost => losses < MaxLosses
    /\ losses' = IF lost THEN losses + 1 ELSE losses

\* sweep begins: one read of the catalogue, then PING.  The instances heard,
\* and whether the enumeration says it was full.
Ping(heard, full) ==
    /\ sweep.at = "rest"
    /\ heard \subseteq up
    /\ Lossy(heard # up \/ ~full)
    /\ sweep' = [at |-> "info",
                 cat |-> current, full |-> full, counted |-> heard,
                 asking |-> {NameOf[i] : i \in heard},
                 heard |-> {}, partial |-> {}]
    /\ UNCHANGED <<plane, verdicts>>

\* The round's own word, without the count.
ShortByRoundAlone(n, heard, clean) == ~clean

\* info: heard in part when the round says so or when fewer instances
\* answered than PING counted.
Short(n, heard, clean) ==
    ~clean \/ Cardinality(heard) < Cardinality(sweep.counted \cap Of(n))

\* info(name), one goroutine of Services.
Info(n, heard, clean) ==
    /\ sweep.at = "info" /\ n \in sweep.asking
    /\ heard \subseteq up \cap Of(n)
    /\ Lossy(heard # up \cap Of(n) \/ ~clean)
    /\ sweep' = [sweep EXCEPT
                    !.asking = @ \ {n},
                    !.heard = @ \cup heard,
                    !.partial = IF Short(n, heard, clean) THEN @ \cup {n} ELSE @]
    /\ UNCHANGED <<plane, verdicts>>

\* A round that failed and forgot what it knew.
ServicesFailsOpen ==
    /\ Lossy(TRUE)
    /\ quarantined' = {}
    /\ sweep' = Resting
    /\ UNCHANGED <<plane, seen>>

\* The round could not be run, or its caller's deadline passed: the previous
\* verdicts stand.
ServicesFails ==
    /\ Lossy(TRUE)
    /\ sweep' = Resting
    /\ UNCHANGED <<plane, verdicts>>

-----------------------------------------------------------------------------
(* Reconciler.sweep, once the round is in.                                 *)

\* pkgOf: a subject this catalogue declares.
Carries(i, p) == p \in Serves[i] /\ sweep.cat[p] # Undeclared

\* No digest recorded, none advertised, or another one: all three are bad.
Matches(c, i, p) == c[p] # NoDigest /\ Identity[i] = c[p]

Bad ==
    {p \in Packages :
        \E i \in sweep.heard : Carries(i, p) /\ ~Matches(sweep.cat, i, p)}

Seen == {p \in Packages : \E i \in sweep.heard : Carries(i, p)}

\* pkgService: the last service, in name order, heard carrying the package.
pkgService(p) == Max({0} \cup {NameOf[i] : i \in {j \in sweep.heard : Carries(j, p)}})

\* Round.Complete
Complete(n) == sweep.full /\ n \notin sweep.partial

\* Verdicts are added and never taken away.
ApplyKeeps ==
    /\ sweep.at = "info" /\ sweep.asking = {}
    /\ quarantined' = Bad \cup quarantined
    /\ seen' = IF sweep.full THEN Seen ELSE Seen \cup seen
    /\ sweep' = Resting
    /\ UNCHANGED <<plane, losses>>

Apply ==
    /\ sweep.at = "info" /\ sweep.asking = {}
    /\ quarantined' =
          Bad \cup {p \in quarantined : ~Complete(pkgService(p))}
    /\ seen' = IF sweep.full THEN Seen ELSE Seen \cup seen
    /\ sweep' = Resting
    /\ UNCHANGED <<plane, losses>>

Discover ==
    \/ \E heard \in SUBSET up, full \in BOOLEAN : Ping(heard, full)
    \/ \E n \in sweep.asking, clean \in BOOLEAN :
          \E heard \in SUBSET (up \cap Of(n)) : Info(n, heard, clean)
    \/ Apply

Next ==
    \/ \E i \in Instances : Start(i) \/ Stop(i)
    \/ \E c \in Catalogues : Reload(c)
    \/ Discover
    \/ ServicesFails

Spec == Init /\ [][Next]_vars

\* Run sweeps on a ticker and every round ends by its ceiling, so a sweep is
\* always eventually begun, asked and applied.
FairSpec == Spec /\ WF_vars(Discover)

-----------------------------------------------------------------------------
(* Properties.                                                             *)

\* What runs and contradicts a catalogue.
Mismatched(c, running) ==
    {p \in Packages :
        c[p] # Undeclared /\ \E i \in running : p \in Serves[i] /\ ~Matches(c, i, p)}

Lifted == quarantined \ quarantined'

\* A package leaves quarantine only in a sweep whose enumeration was full and
\* in which no instance that answered contradicts the catalogue: a failed or a
\* short round, and a reload on its own, lift nothing.
LiftedOnlyOnEvidence ==
    [][Lifted # {} =>
          sweep.full /\ Lifted \cap Mismatched(sweep.cat, sweep.heard) = {}]_vars

\* The count is what makes completeness checkable: when those who answered are
\* among those PING counted, a package that an answer carried is lifted only if
\* some service heard carrying it has no counted instance that contradicts the
\* catalogue.  One service carrying the package, as the code expects, makes
\* that every counted instance; of several, the code holds the last alone.
CountedMismatchStands ==
    [][\A p \in Lifted \cap Seen :
          sweep.heard \subseteq sweep.counted =>
              \E n \in Names :
                  /\ \E i \in sweep.heard \cap Of(n) : Carries(i, p)
                  /\ p \notin Mismatched(sweep.cat, sweep.counted \cap Of(n))]_vars

\* Once the plane and the catalogue stop changing and rounds stop losing
\* replies, the verdicts become exactly the contradictions that run.
VerdictsConverge == <>[](quarantined = Mismatched(current, up))

\* "A plane that could [be enumerated] clears only the packages whose service
\* was heard in full" (reconcile.go): a package is not lifted by a round in
\* which the service carrying it was counted, runs and did not answer.
SilentServiceStands ==
    [][\A n \in Names :
          sweep.counted \cap Of(n) # {} /\ sweep.heard \cap Of(n) = {}
          => Lifted \cap
                Mismatched(sweep.cat, sweep.counted \cap Of(n) \cap up) = {}]_vars
=============================================================================

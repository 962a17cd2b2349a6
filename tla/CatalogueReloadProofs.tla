------------------------ MODULE CatalogueReloadProofs ------------------------
(***************************************************************************)
(* Proofs about CatalogueReload, for every set of requests, every bucket   *)
(* history and every answer the deployment gives about an artifact; and    *)
(* about CatalogueStore, which the poller swaps its catalogues in.         *)
(***************************************************************************)
EXTENDS CatalogueReload, CatalogueStore, FiniteSetTheorems, TLAPS

\* What Once holds at each of its steps.  The judged bytes are the bytes that
\* are swapped, so "swap" remembers the verdict; from there until Set the
\* current generation is the one just swapped in and it has a predecessor.
PollInv ==
    /\ poll.pc # "idle" => poll.seen \in ETags
    /\ poll.pc \notin {"idle", "get"} => poll.body \in Bodies
    /\ poll.pc = "swap" => /\ Verdict[poll.body] = "ok"
                           /\ poll.body # gens[Current]
    /\ poll.pc \in {"prepare", "build", "set"} => /\ poll.body = gens[Current]
                                                  /\ Current > 1
    /\ poll.pc \notin {"idle", "get"} /\ poll.seen \notin torn
          => BodyOf[poll.seen] = poll.body

\* A call's catalogue, chain and registry are the same generation as soon as
\* each is there.
CallInv ==
    \A r \in Requests :
        /\ req[r].pc # "idle" => req[r].cat \in 1..Current
        /\ req[r].pc \in {"fold", "invoke"} => req[r].core = req[r].cat
        /\ req[r].pc = "invoke" => req[r].reg = req[r].cat

\* The inductive invariant.
IInv ==
    /\ TypeOK
    /\ PollInv
    /\ CallInv
    /\ OneBuilder
    /\ OnlyGovernedServed
    /\ PlaneAndTaxonomyAgree
    /\ ETagNamesServing

--------------------------------------------------------------------------------
USE DEF Current, procVars, vars, Idle, NoCall, NoRefusal, PollPCs, CallPCs

\* Appending a generation keeps the ones before it and makes it current.
LEMMA AppendGeneration ==
    ASSUME NEW s \in Seq(Bodies), NEW b \in Bodies
    PROVE  /\ Append(s, b) \in Seq(Bodies)
           /\ Len(Append(s, b)) = Len(s) + 1
           /\ Append(s, b)[Len(s) + 1] = b
           /\ \A g \in 1..Len(s) : Append(s, b)[g] = s[g]
OBVIOUS

\* Boot establishes the invariant.
LEMMA InitIInv == Init => IInv
<1> SUFFICES ASSUME Init PROVE IInv
  OBVIOUS
<1> USE ConstantsAssumption DEF Init, Governable
<1>1. PICK b \in Bodies : gens = <<b>> /\ Verdict[b] = "ok"
  OBVIOUS
<1>2. gens \in Seq(Bodies) /\ Len(gens) = 1 /\ gens[1] = b
  BY <1>1
<1>3. TypeOK
  <2>1. req \in [Requests -> [pc : CallPCs, cat : 0..1, core : 0..1, reg : 0..1]]
    OBVIOUS
  <2>2. poll \in [pc : PollPCs, seen : ETags \cup {NoETag},
                 body : Bodies \cup {NoBody}]
    OBVIOUS
  <2>3. last \in [etag : ETags \cup {NoETag}, body : Bodies \cup {NoBody}]
    OBVIOUS
  <2>4. Len(gens) >= 1 /\ puts \in 0..MaxPuts /\ bucket \in ETags
    BY <1>2
  <2> QED
    BY <1>2, <2>1, <2>2, <2>3, <2>4 DEF TypeOK
<1>4. PollInv /\ CallInv /\ OneBuilder
  BY <1>2 DEF PollInv, CallInv, OneBuilder
<1>5. OnlyGovernedServed /\ PlaneAndTaxonomyAgree /\ ETagNamesServing
  BY <1>1, <1>2 DEF OnlyGovernedServed, PlaneAndTaxonomyAgree, ETagNamesServing
<1> QED
  BY <1>3, <1>4, <1>5 DEF IInv

--------------------------------------------------------------------------------
(* The steps that leave the calls alone.                                    *)

\* A write to the bucket preserves the invariant: nothing remembered is undone.
LEMMA PutIInv == ASSUME IInv, NEW e \in ETags, Put(e) PROVE IInv'
BY ConstantsAssumption DEF IInv, Put, TypeOK, PollInv, CallInv, OneBuilder,
   OnlyGovernedServed, PlaneAndTaxonomyAgree, ETagNamesServing

\* Once's HEAD, and what it decides on the ETag alone, preserve the invariant.
LEMMA PollStartIInv == ASSUME IInv, PollStart PROVE IInv'
<1> USE ConstantsAssumption DEF IInv, TypeOK, PollInv, CallInv, OneBuilder,
   OnlyGovernedServed, PlaneAndTaxonomyAgree, ETagNamesServing
<1>1. CASE PollUnchanged BY <1>1 DEF PollUnchanged
<1>2. CASE PollReconsider BY <1>2 DEF PollReconsider
<1>3. CASE PollChanged BY <1>3 DEF PollChanged
<1> QED BY <1>1, <1>2, <1>3 DEF PollStart

\* Once's GET preserves the invariant, also when it returns another object's
\* bytes: the ETag is then in torn.
LEMMA GetIInv == ASSUME IInv, Get \/ GetTooLarge \/ GetFails PROVE IInv'
<1> USE ConstantsAssumption DEF IInv, TypeOK, PollInv, CallInv, OneBuilder,
   OnlyGovernedServed, PlaneAndTaxonomyAgree, ETagNamesServing, Torn
<1>1. CASE Get BY <1>1 DEF Get
<1>2. CASE GetTooLarge BY <1>2 DEF GetTooLarge
<1>3. CASE GetFails BY <1>3 DEF GetFails
<1> QED BY <1>1, <1>2, <1>3

\* The digest comparison and the pre-flight preserve the invariant: only a
\* governable body reaches the swap.
LEMMA JudgeIInv ==
    ASSUME IInv, JudgeSame \/ JudgeRefuse \/ JudgeAccept PROVE IInv'
<1> USE ConstantsAssumption DEF IInv, TypeOK, PollInv, CallInv, OneBuilder,
   OnlyGovernedServed, PlaneAndTaxonomyAgree, ETagNamesServing
<1>1. CASE JudgeSame BY <1>1 DEF JudgeSame
<1>2. CASE JudgeRefuse BY <1>2 DEF JudgeRefuse
<1>3. CASE JudgeAccept BY <1>3 DEF JudgeAccept
<1> QED BY <1>1, <1>2, <1>3

\* Publishing the new generation's chain and then its taxonomy preserves the
\* invariant.
LEMMA PrepareIInv ==
    ASSUME IInv, PrepareHit \/ PrepareBuild \/ PreparePublish \/ SetTaxonomy
    PROVE  IInv'
<1> USE ConstantsAssumption DEF IInv
<1>1. CASE PrepareHit
  BY <1>1 DEF PrepareHit, PlaneHit, TypeOK, PollInv, CallInv, OneBuilder,
     OnlyGovernedServed, PlaneAndTaxonomyAgree, ETagNamesServing
<1>2. CASE PrepareBuild
  <2> USE <1>2 DEF PrepareBuild, StartBuild
  <2>1. TypeOK'
    BY DEF TypeOK
  <2>2. PollInv' /\ PlaneAndTaxonomyAgree'
    BY DEF TypeOK, PollInv, PlaneAndTaxonomyAgree
  <2>3. CallInv' /\ OnlyGovernedServed' /\ ETagNamesServing'
    BY DEF TypeOK, CallInv, OnlyGovernedServed, ETagNamesServing
  <2>4. OneBuilder'
    BY DEF TypeOK, OneBuilder
  <2> QED
    BY <2>1, <2>2, <2>3, <2>4
<1>3. CASE PreparePublish
  <2> USE <1>3 DEF PreparePublish, FinishBuild
  <2>1. TypeOK'
    <3>1. plane' \in 1..Current
      BY DEF TypeOK
    <3>2. poll' \in [pc : PollPCs, seen : ETags \cup {NoETag},
                    body : Bodies \cup {NoBody}]
      BY DEF TypeOK
    <3> QED
      BY <3>1, <3>2 DEF TypeOK
  <2>2. PollInv' /\ PlaneAndTaxonomyAgree'
    BY DEF TypeOK, PollInv, PlaneAndTaxonomyAgree
  <2>3. CallInv' /\ OnlyGovernedServed' /\ ETagNamesServing'
    BY DEF TypeOK, CallInv, OnlyGovernedServed, ETagNamesServing
  <2>4. OneBuilder'
    BY DEF TypeOK, OneBuilder
  <2> QED
    BY <2>1, <2>2, <2>3, <2>4
<1>4. CASE SetTaxonomy
  BY <1>4 DEF SetTaxonomy, TypeOK, PollInv, CallInv, OneBuilder,
     OnlyGovernedServed, PlaneAndTaxonomyAgree, ETagNamesServing
<1> QED BY <1>1, <1>2, <1>3, <1>4

--------------------------------------------------------------------------------
(* The step that makes a generation current.                                *)

\* Store.Reload preserves the invariant: the generation appended is the one judged.
LEMMA SwapIInv == ASSUME IInv, Swap PROVE IInv'
<1> USE ConstantsAssumption DEF IInv, Swap
<1>1. /\ poll.body \in Bodies
      /\ Verdict[poll.body] = "ok"
      /\ gens \in Seq(Bodies)
  BY DEF PollInv, TypeOK
<1>2. /\ gens' \in Seq(Bodies)
      /\ Len(gens') = Len(gens) + 1
      /\ gens'[Len(gens) + 1] = poll.body
      /\ \A g \in 1..Len(gens) : gens'[g] = gens[g]
  BY <1>1, AppendGeneration
<1> HIDE DEF Swap
<1>3. /\ poll.pc = "swap"
      /\ poll' = [poll EXCEPT !.pc = "prepare"]
      /\ UNCHANGED <<bucket, puts, plane, taxonomy, buildMu, etag, last, req, torn>>
  BY DEF Swap
<1>4. Len(gens) \in Nat /\ Len(gens) >= 1
  BY DEF TypeOK
<1>5. TypeOK'
  <2>1. plane' \in 1..Current' /\ taxonomy' \in 1..Current'
    BY <1>2, <1>3, <1>4 DEF TypeOK
  <2>2. ASSUME NEW r \in Requests
        PROVE  req[r] \in [pc : CallPCs, cat : 0..Current', core : 0..Current',
                           reg : 0..Current']
    BY <1>2, <1>4 DEF TypeOK
  <2>3. req' \in [Requests -> [pc : CallPCs, cat : 0..Current', core : 0..Current',
                              reg : 0..Current']]
    BY <1>3, <2>2 DEF TypeOK
  <2>4. poll' \in [pc : PollPCs, seen : ETags \cup {NoETag},
                  body : Bodies \cup {NoBody}]
    BY <1>3 DEF TypeOK
  <2> QED
    BY <1>2, <1>3, <1>4, <2>1, <2>3, <2>4 DEF TypeOK
<1>6. PollInv' /\ PlaneAndTaxonomyAgree'
  BY <1>2, <1>3, <1>4 DEF PollInv, PlaneAndTaxonomyAgree, TypeOK
<1>7. CallInv'
  BY <1>2, <1>3, <1>4 DEF CallInv, TypeOK
<1>8. OneBuilder' /\ ETagNamesServing'
  BY <1>2, <1>3, <1>4 DEF OneBuilder, ETagNamesServing, TypeOK
<1>9. OnlyGovernedServed'
  BY <1>1, <1>2, <1>4 DEF OnlyGovernedServed
<1> QED
  BY <1>5, <1>6, <1>7, <1>8, <1>9

--------------------------------------------------------------------------------
(* The steps of one request.                                                *)

\* Every step of a call preserves the invariant: it pins one generation and its
\* build holds the lock alone.
LEMMA ServeIInv == ASSUME IInv, NEW r \in Requests, Serve(r) PROVE IInv'
<1> USE ConstantsAssumption DEF IInv
<1> DEFINE CallType == [pc : CallPCs, cat : 0..Current, core : 0..Current,
                        reg : 0..Current]
<1>1. CASE Arrive(r)
  <2> USE <1>1 DEF Arrive
  <2>1. TypeOK'
    <3>1. req[r] \in CallType
      BY DEF TypeOK
    <3>2. req'[r] \in CallType
      BY <3>1 DEF TypeOK
    <3> QED
      BY <3>2 DEF TypeOK
  <2>3. CallInv'
    BY DEF TypeOK, CallInv
  <2>2. OneBuilder'
    BY DEF TypeOK, OneBuilder
  <2> QED
    BY <2>1, <2>2, <2>3 DEF PollInv, OnlyGovernedServed, PlaneAndTaxonomyAgree,
       ETagNamesServing
<1>2. CASE TakePlane(r)
  <2> USE <1>2 DEF TakePlane, PlaneHit
  <2>1. TypeOK'
    <3>1. req[r] \in CallType
      BY DEF TypeOK
    <3>2. req'[r] \in CallType
      BY <3>1 DEF TypeOK
    <3> QED
      BY <3>2 DEF TypeOK
  <2>3. CallInv'
    BY DEF TypeOK, CallInv
  <2>2. OneBuilder'
    BY DEF TypeOK, OneBuilder
  <2> QED
    BY <2>1, <2>2, <2>3 DEF PollInv, OnlyGovernedServed, PlaneAndTaxonomyAgree,
       ETagNamesServing
<1>3. CASE BuildPlane(r)
  <2> USE <1>3 DEF BuildPlane, StartBuild
  <2>1. TypeOK'
    <3>1. req[r] \in CallType
      BY DEF TypeOK
    <3>2. req'[r] \in CallType
      BY <3>1 DEF TypeOK
    <3> QED
      BY <3>2 DEF TypeOK
  <2>3. CallInv'
    BY DEF TypeOK, CallInv
  <2>2. OneBuilder'
    BY DEF TypeOK, OneBuilder
  <2> QED
    BY <2>1, <2>2, <2>3 DEF PollInv, OnlyGovernedServed, PlaneAndTaxonomyAgree,
       ETagNamesServing
<1>4. CASE PublishPlane(r)
  <2> USE <1>4 DEF PublishPlane, FinishBuild
  <2>1. TypeOK'
    <3>1. req[r] \in CallType
      BY DEF TypeOK
    <3>2. req'[r] \in CallType
      BY <3>1 DEF TypeOK
    <3> QED
      BY <3>2 DEF TypeOK
  <2>3. CallInv'
    BY DEF TypeOK, CallInv
  <2>2. OneBuilder'
    BY DEF TypeOK, OneBuilder
  <2>4. PlaneAndTaxonomyAgree'
    BY DEF PlaneAndTaxonomyAgree, TypeOK, CallInv
  <2> QED
    BY <2>1, <2>2, <2>3, <2>4 DEF PollInv, OnlyGovernedServed, ETagNamesServing
<1>5. CASE Fold(r)
  <2> USE <1>5 DEF Fold, PinnedRegistry
  <2>1. TypeOK'
    <3>1. req[r] \in CallType
      BY DEF TypeOK
    <3>2. req'[r] \in CallType
      BY <3>1 DEF TypeOK
    <3> QED
      BY <3>2 DEF TypeOK
  <2>3. CallInv'
    BY DEF TypeOK, CallInv
  <2>2. OneBuilder'
    BY DEF TypeOK, OneBuilder
  <2> QED
    BY <2>1, <2>2, <2>3 DEF PollInv, OnlyGovernedServed, PlaneAndTaxonomyAgree,
       ETagNamesServing
<1>6. CASE Answer(r)
  <2> USE <1>6 DEF Answer
  <2>1. TypeOK'
    <3>1. req[r] \in CallType
      BY DEF TypeOK
    <3>2. req'[r] \in CallType
      BY <3>1 DEF TypeOK
    <3> QED
      BY <3>2 DEF TypeOK
  <2>3. CallInv'
    BY DEF TypeOK, CallInv
  <2>2. OneBuilder'
    BY DEF TypeOK, OneBuilder
  <2> QED
    BY <2>1, <2>2, <2>3 DEF PollInv, OnlyGovernedServed, PlaneAndTaxonomyAgree,
       ETagNamesServing
<1> QED
  BY <1>1, <1>2, <1>3, <1>4, <1>5, <1>6 DEF Serve

--------------------------------------------------------------------------------
(* The theorems.                                                            *)

\* Every step of the poller, of a request or of the bucket's writer keeps the
\* inductive invariant.
LEMMA NextIInv == IInv /\ [Next]_vars => IInv'
<1> SUFFICES ASSUME IInv, [Next]_vars PROVE IInv'
  OBVIOUS
<1>1. CASE UNCHANGED vars
  BY <1>1 DEF IInv, TypeOK, PollInv, CallInv, OneBuilder, OnlyGovernedServed,
     PlaneAndTaxonomyAgree, ETagNamesServing
<1>2. CASE Poll
  BY <1>2, PollStartIInv, GetIInv, JudgeIInv, SwapIInv, PrepareIInv
     DEF Poll, PollRest
<1> QED
  BY <1>1, <1>2, PutIInv, ServeIInv DEF Next

\* The reload keeps its inductive invariant: in particular every variable of
\* the poller, the store, the chain cache and the calls stays well typed.
THEOREM ReloadInvariant == Spec => []IInv
<1>1. Init => IInv
  BY InitIInv
<1>2. IInv /\ [Next]_vars => IInv'
  BY NextIInv
<1> QED
  BY <1>1, <1>2, PTL DEF Spec

\* Type correctness of the store, the poller, the chain cache and the calls.
THEOREM TypeCorrect == Spec => []TypeOK
BY ReloadInvariant, PTL DEF IInv

\* A bad catalogue never becomes current (store.go Reload, reload.go Once),
\* whatever the bucket does between HEAD, GET, check and swap.
THEOREM BadCatalogueNeverServed == Spec => []OnlyGovernedServed
BY ReloadInvariant, PTL DEF IInv

\* Once Set has run, chain and taxonomy are the current generation's, with any
\* number of stragglers building the chains of earlier generations.
THEOREM ChainAndTaxonomyAgree == Spec => []PlaneAndTaxonomyAgree
BY ReloadInvariant, PTL DEF IInv

\* The remembered ETag and the remembered refusal name the right bytes unless
\* the object was replaced between a HEAD and its GET.
THEOREM RememberedETags == Spec => []ETagNamesServing
BY ReloadInvariant, PTL DEF IInv

\* buildMu excludes: at most one goroutine compiles a chain (plane.go planeFor).
THEOREM BuildsExclude == Spec => []OneBuilder
BY ReloadInvariant, PTL DEF IInv

\* The published chain never moves back to an older generation (plane.go
\* planeFor, the LoadedAt comparison).
THEOREM ChainMovesForward == Spec => PlaneNeverGoesBack
<1>1. IInv /\ [Next]_vars => [plane' >= plane]_plane
  <2> SUFFICES ASSUME IInv, Next
               PROVE  plane' = plane \/ plane' >= plane
    OBVIOUS
  <2>1. plane \in Nat /\ Len(gens) \in Nat
    BY DEF IInv, TypeOK
  <2>2. ASSUME PreparePublish PROVE plane' >= plane
    BY <2>1, <2>2 DEF PreparePublish, FinishBuild
  <2>3. ASSUME NEW r \in Requests, PublishPlane(r) PROVE plane' >= plane
    <3>1. req[r].cat \in Nat
      BY DEF IInv, TypeOK
    <3> QED
      BY <2>1, <2>3, <3>1 DEF PublishPlane, FinishBuild
  <2> QED
    BY <2>2, <2>3 DEF Next, Put, Poll, PollStart, PollRest, PollUnchanged,
       PollReconsider, PollChanged, Get, GetTooLarge, GetFails, JudgeSame,
       JudgeRefuse, JudgeAccept, Swap, PrepareHit, PrepareBuild, SetTaxonomy,
       Serve, Arrive, TakePlane, BuildPlane, Fold, Answer
<1> QED
  BY <1>1, ReloadInvariant, PTL DEF Spec, PlaneNeverGoesBack

--------------------------------------------------------------------------------
(* Refinement: the generation a call is on, seen from Generations.          *)

Calls == [r \in Requests |-> CallGeneration(r)]

\* A step that leaves the history and every call's generation alone.
Invisible == gens' = gens /\ Calls' = Calls

\* A call's step is a Begin, an End or a stutter of Generations.
LEMMA ServeRefines ==
    ASSUME IInv, NEW r \in Requests, Serve(r)
    PROVE  Invisible \/ Promise!Begin(r) \/ Promise!End(r)
<1> USE DEF IInv, TypeOK
<1>1. CASE Arrive(r)
  <2>1. CallGeneration(r) = 0 /\ CallGeneration(r)' = Len(gens)
    BY <1>1 DEF Arrive, CallGeneration
  <2>2. \A q \in Requests \ {r} : CallGeneration(q)' = CallGeneration(q)
    BY <1>1 DEF Arrive, CallGeneration
  <2>3. Calls' = [Calls EXCEPT ![r] = Len(gens)]
    BY <2>1, <2>2 DEF Calls
  <2> QED
    BY <1>1, <2>1, <2>3 DEF Arrive, Promise!Begin, Calls
<1>2. CASE TakePlane(r) \/ BuildPlane(r) \/ PublishPlane(r) \/ Fold(r)
  <2>1. CallGeneration(r)' = CallGeneration(r)
    <3>1. CASE TakePlane(r)
      BY <3>1 DEF TakePlane, PlaneHit, CallGeneration
    <3>2. CASE BuildPlane(r)
      BY <3>2 DEF BuildPlane, CallGeneration
    <3>3. CASE PublishPlane(r)
      BY <3>3 DEF PublishPlane, CallGeneration
    <3>4. CASE Fold(r)
      BY <3>4 DEF Fold, PinnedRegistry, CallGeneration, CallInv
    <3> QED
      BY <1>2, <3>1, <3>2, <3>3, <3>4
  <2>2. \A q \in Requests \ {r} : CallGeneration(q)' = CallGeneration(q)
    BY <1>2 DEF TakePlane, BuildPlane, PublishPlane, Fold, CallGeneration
  <2> QED
    <3>1. gens' = gens
      BY <1>2 DEF TakePlane, BuildPlane, PublishPlane, Fold
    <3>2. Calls' = Calls
      BY <2>1, <2>2 DEF Calls
    <3> QED
      BY <3>1, <3>2 DEF Invisible
<1>3. CASE Answer(r)
  <2>1. CallGeneration(r) # 0 /\ CallGeneration(r)' = 0
    <3>1. CallGeneration(r) # 0
      <4>1. req[r].pc = "invoke" /\ req[r].reg = req[r].cat /\ req[r].cat \in 1..Len(gens)
        BY <1>3 DEF Answer, CallInv
      <4>2. CallGeneration(r) = req[r].reg
        <5> HIDE DEF IInv, TypeOK
        <5> QED
          BY <4>1 DEF CallGeneration
      <4> QED
        <5> HIDE DEF IInv, TypeOK
        <5>1. Len(gens) \in Nat
          BY DEF IInv, TypeOK
        <5> QED
          BY <4>1, <4>2, <5>1
    <3>2. CallGeneration(r)' = 0
      BY <1>3 DEF Answer, CallGeneration
    <3> QED
      BY <3>1, <3>2
  <2>2. \A q \in Requests \ {r} : CallGeneration(q)' = CallGeneration(q)
    BY <1>3 DEF Answer, CallGeneration
  <2>3. Calls' = [Calls EXCEPT ![r] = 0]
    <3> HIDE DEF IInv, TypeOK
    <3>1. [Calls EXCEPT ![r] = 0]
             = [q \in Requests |-> IF q = r THEN 0 ELSE CallGeneration(q)]
      BY DEF Calls
    <3>2. \A q \in Requests :
             CallGeneration(q)' = IF q = r THEN 0 ELSE CallGeneration(q)
      BY <2>1, <2>2
    <3> QED
      BY <3>1, <3>2 DEF Calls
  <2> QED
    BY <1>3, <2>1, <2>3 DEF Answer, Promise!End, Calls
<1> QED
  BY <1>1, <1>2, <1>3 DEF Serve

\* Store.Reload's swap is an Adopt of Generations.
LEMMA SwapRefines ==
    ASSUME IInv, Swap PROVE \E b \in Governable : Promise!Adopt(b)
<1>1. poll.body \in Governable /\ poll.body # gens[Len(gens)]
  BY DEF IInv, PollInv, Swap, Governable
<1>2. Calls' = Calls
  BY DEF Swap, Calls, CallGeneration
<1> QED
  BY <1>1, <1>2 DEF Swap, Promise!Adopt, Calls

\* The reload implements Generations: only governable catalogues are adopted,
\* and a call is routed, folded and judged on the generation it arrived on.
THEOREM ReloadKeepsPromise == Spec => KeepsPromise
<1>1. Init => Promise!Init
  BY DEF Init, Promise!Init, CallGeneration
<1>2. IInv /\ [Next]_vars => [Promise!Next]_<<gens, Calls>>
  <2> SUFFICES ASSUME IInv, [Next]_vars
               PROVE  Promise!Next \/ Invisible
    BY DEF Invisible
  <2>1. CASE UNCHANGED vars
    BY <2>1 DEF Invisible, Calls, CallGeneration
  <2>2. CASE \E e \in ETags : Put(e)
    BY <2>2 DEF Put, Invisible, Calls, CallGeneration
  <2>3. CASE Swap
    BY <2>3, SwapRefines DEF Promise!Next
  <2>4. CASE Poll /\ ~Swap
    <3>1. UNCHANGED <<gens, req>>
      BY <2>4 DEF Poll, PollStart, PollRest, PollUnchanged, PollReconsider,
         PollChanged, Get, GetTooLarge, GetFails, JudgeSame, JudgeRefuse,
         JudgeAccept, PrepareHit, PrepareBuild, PreparePublish, SetTaxonomy
    <3> QED
      BY <3>1 DEF Invisible, Calls, CallGeneration
  <2>5. CASE \E r \in Requests : Serve(r)
    <3>1. PICK r \in Requests : Serve(r)
      BY <2>5
    <3>2. Invisible \/ Promise!Begin(r) \/ Promise!End(r)
      BY <3>1, ServeRefines
    <3> QED
      BY <3>2 DEF Promise!Next
  <2> QED
    BY <2>1, <2>2, <2>3, <2>4, <2>5 DEF Next
<1> QED
  BY <1>1, <1>2, ReloadInvariant, PTL DEF Spec, KeepsPromise, Promise!Spec, Calls

--------------------------------------------------------------------------------
(* The store the poller swaps its catalogues in: CatalogueStore, for any      *)
(* artifacts, count, age and clock.                                          *)

USE StoreAssumption

--------------------------------------------------------------------------------
(* Naturals.                                                                *)

\* A set of naturals that is not empty has a least element.
LEMMA LeastNat ==
    ASSUME NEW T, T \subseteq Nat, T # {}
    PROVE  \E m \in T : \A n \in T : m <= n
PROOF
<1> DEFINE R == StrictSubsetOrdering(Nat)
           Up == {1..n : n \in T}
<1>1. IsWellFoundedOn(R, FiniteSubsetsOf(Nat))
    BY FS_StrictSubsetOrderingWellFounded
<1>2. \A n \in Nat : 1..n \in FiniteSubsetsOf(Nat)
    BY FS_Interval DEF FiniteSubsetsOf
<1>3. Up \subseteq FiniteSubsetsOf(Nat) /\ Up # {}
    BY <1>2
<1>4. \E x \in Up : \A y \in Up : ~(<<y, x>> \in R)
  <2> HIDE DEF R, Up
  <2> QED
      BY <1>1, <1>3, WFMin
<1>5. PICK m \in T : \A n \in T : ~(<<1..n, 1..m>> \in R)
    BY <1>4
<1>6. ASSUME NEW n \in T, n < m PROVE FALSE
  <2>1. 1..n \subseteq 1..m /\ m \in 1..m /\ m \notin 1..n
      BY <1>6
  <2>2. 1..n # 1..m
      BY <2>1
  <2>3. <<1..n, 1..m>> \in R
      BY <2>1, <2>2 DEF StrictSubsetOrdering
  <2> QED
      BY <1>5, <2>3
<1> QED
    BY <1>6

\* Induction, over the set of the naturals a property holds for.
LEMMA NatInd ==
    ASSUME NEW G, 0 \in G, \A n \in Nat : n \in G => n + 1 \in G
    PROVE  Nat \subseteq G
PROOF
<1> SUFFICES ASSUME NEW k \in Nat \ G PROVE FALSE
    OBVIOUS
<1> DEFINE T == Nat \ G
<1>1. PICK m \in T : \A n \in T : m <= n
  <2>1. T \subseteq Nat /\ T # {}
      OBVIOUS
  <2> HIDE DEF T
  <2> QED
      BY <2>1, LeastNat
<1>2. m # 0 /\ m - 1 \in Nat
    OBVIOUS
<1>3. m - 1 \in G
    BY <1>1, <1>2
<1> QED
    BY <1>2, <1>3

--------------------------------------------------------------------------------
(* The sweep.                                                               *)

\* The loop that keeps what is young, over the first n places of a slice.
IsKeep(f, slice, n) ==
    f = [i \in 0..n |->
            IF i = 0 THEN <<>>
            ELSE IF Young(slice[i]) THEN Append(f[i - 1], slice[i])
            ELSE f[i - 1]]

\* Before the loop.
LEMMA KeepZero ==
    ASSUME NEW f, NEW slice, NEW n \in Nat, IsKeep(f, slice, n)
    PROVE  f[0] = <<>>
PROOF
<1>1. 0 \in 0..n
    OBVIOUS
<1>2. f[0] = IF 0 = 0 THEN <<>>
             ELSE IF Young(slice[0]) THEN Append(f[0 - 1], slice[0])
             ELSE f[0 - 1]
    BY <1>1, Zenon DEF IsKeep
<1> QED
    BY <1>2, Zenon

\* One turn of the loop: a young generation is appended, an old one is not.
KeepTurn(f, slice, i) ==
    f[i] = IF Young(slice[i]) THEN Append(f[i - 1], slice[i]) ELSE f[i - 1]

\* The loop takes a turn for every place.
LEMMA KeepTurns ==
    ASSUME NEW f, NEW slice, NEW n, IsKeep(f, slice, n), NEW i \in 0..n, i # 0
    PROVE  KeepTurn(f, slice, i)
PROOF
<1>1. f[i] = IF i = 0 THEN <<>>
             ELSE IF Young(slice[i]) THEN Append(f[i - 1], slice[i])
             ELSE f[i - 1]
    BY Zenon DEF IsKeep
<1> QED
    BY <1>1, Zenon DEF KeepTurn

\* The loop runs to the end of the slice, and Kept is what it holds then.
LEMMA KeepExists ==
    ASSUME NEW slice, Len(slice) \in Nat
    PROVE  \E f : IsKeep(f, slice, Len(slice)) /\ Kept(slice) = f[Len(slice)]
PROOF
<1> DEFINE G == {n \in Nat : \E f : IsKeep(f, slice, n)}
<1>1. 0 \in G
  <2> DEFINE f == [i \in 0..0 |-> <<>>]
  <2>1. IsKeep(f, slice, 0)
      BY DEF IsKeep
  <2> QED
      BY <2>1
<1>2. ASSUME NEW n \in Nat, n \in G PROVE n + 1 \in G
  <2>1. PICK f : IsKeep(f, slice, n)
      BY <1>2
  <2> DEFINE turned == IF Young(slice[n + 1]) THEN Append(f[n], slice[n + 1]) ELSE f[n]
             g == [i \in 0..n + 1 |-> IF i = n + 1 THEN turned ELSE f[i]]
  <2>2. ASSUME NEW i \in 0..n + 1
        PROVE  g[i] = IF i = 0 THEN <<>>
                      ELSE IF Young(slice[i]) THEN Append(g[i - 1], slice[i])
                      ELSE g[i - 1]
    <3>1. CASE i = n + 1
      <4>1. /\ i - 1 = n /\ n \in 0..n + 1 /\ n # n + 1 /\ i # 0
          BY <3>1
      <4>2. g[i] = turned /\ g[i - 1] = f[n]
          BY <3>1, <4>1, Zenon
      <4> QED
          BY <3>1, <4>1, <4>2, Zenon
    <3>2. CASE i \in 1..n
      <4>1. /\ i \in 0..n /\ i # 0 /\ i \in 0..n + 1 /\ i # n + 1
            /\ i - 1 \in 0..n + 1 /\ i - 1 # n + 1
          BY <3>2
      <4>2. KeepTurn(f, slice, i)
          BY <2>1, <4>1, KeepTurns
      <4>3. g[i] = f[i] /\ g[i - 1] = f[i - 1]
          BY <4>1, Zenon
      <4> QED
          BY <4>1, <4>2, <4>3, Zenon DEF KeepTurn
    <3>3. CASE i = 0
      <4>1. f[0] = <<>>
          BY <2>1, KeepZero
      <4>2. g[0] = f[0]
        <5>1. 0 \in 0..n + 1 /\ 0 # n + 1
            OBVIOUS
        <5> QED
            BY <5>1, Zenon
      <4> QED
          BY <3>3, <4>1, <4>2, Zenon
    <3> QED
        BY <3>1, <3>2, <3>3
  <2>3. g = [i \in 0..n + 1 |-> IF i = 0 THEN <<>>
                      ELSE IF Young(slice[i]) THEN Append(g[i - 1], slice[i])
                      ELSE g[i - 1]]
    <3> DEFINE S == 0..n + 1
               e(i) == IF i = n + 1 THEN turned ELSE f[i]
               d(i) == IF i = 0 THEN <<>>
                       ELSE IF Young(slice[i]) THEN Append(g[i - 1], slice[i])
                       ELSE g[i - 1]
    <3>1. \A i \in S : e(i) = d(i)
      <4>1. \A i \in S : g[i] = e(i)
          BY Zenon
      <4> QED
          BY <2>2, <4>1, Zenon
    <3> HIDE DEF S, e, d
    <3>2. [i \in S |-> e(i)] = [i \in S |-> d(i)]
        BY <3>1
    <3> USE DEF S, e, d
    <3> QED
        BY <3>2
  <2>4. IsKeep(g, slice, n + 1)
      BY <2>3, Zenon DEF IsKeep
  <2> QED
      BY <2>4
<1>3. Len(slice) \in G
  <2> HIDE DEF G
  <2>1. Nat \subseteq G
      BY <1>1, <1>2, NatInd
  <2> QED
      BY <2>1
<1>4. Kept(slice) = (CHOOSE f : IsKeep(f, slice, Len(slice)))[Len(slice)]
    BY DEF Kept, IsKeep
<1> QED
    BY <1>3, <1>4

\* What the loop keeps of the first n places: each from a place of its own, in
\* the order of the places, and everything young.
Picks(kept, slice, n) ==
    /\ kept \in Seq(Generation) /\ Len(kept) \in Nat /\ Len(kept) <= n
    /\ \E place \in [1..Len(kept) -> 1..n] :
          /\ \A i \in 1..Len(kept) : kept[i] = slice[place[i]]
          /\ \A i, j \in 1..Len(kept) : i < j => place[i] < place[j]
    /\ \A i \in 1..Len(kept) : Young(kept[i])
    /\ \A j \in 1..n : Young(slice[j]) => \E i \in 1..Len(kept) : kept[i] = slice[j]

\* Nothing is kept of no places.
LEMMA PicksNone ==
    ASSUME NEW slice
    PROVE  Picks(<<>>, slice, 0)
PROOF
<1>1. \E none : none = <<>>
    OBVIOUS
<1>2. PICK none : none = <<>>
    BY <1>1
<1>3. none \in Seq(Generation) /\ Len(none) = 0
    BY <1>2
<1>4. 1..0 = {} /\ 0 \in Nat /\ 0 <= 0
    OBVIOUS
<1>5. \E place \in [1..0 -> 1..0] :
          /\ \A i \in 1..0 : none[i] = slice[place[i]]
          /\ \A i, j \in 1..0 : i < j => place[i] < place[j]
  <2> DEFINE place == [i \in 1..0 |-> i]
  <2>1. place \in [1..0 -> 1..0]
      OBVIOUS
  <2> QED
      BY <1>4, <2>1
<1>6. Picks(none, slice, 0)
    BY <1>3, <1>4, <1>5 DEF Picks
<1> QED
    BY <1>2, <1>6

\* A place that is too old adds nothing.
LEMMA PicksOld ==
    ASSUME NEW slice, NEW n \in Nat, NEW kept, Picks(kept, slice, n),
           ~Young(slice[n + 1])
    PROVE  Picks(kept, slice, n + 1)
PROOF
<1>1. PICK place \in [1..Len(kept) -> 1..n] :
          /\ \A i \in 1..Len(kept) : kept[i] = slice[place[i]]
          /\ \A i, j \in 1..Len(kept) : i < j => place[i] < place[j]
    BY DEF Picks
<1>2. place \in [1..Len(kept) -> 1..n + 1]
  <2>1. 1..n \subseteq 1..n + 1
      OBVIOUS
  <2> QED
      BY <1>1, <2>1
<1>3. Len(kept) \in Nat /\ Len(kept) <= n + 1
    BY DEF Picks
<1>4. ASSUME NEW j \in 1..n + 1, Young(slice[j])
      PROVE  \E i \in 1..Len(kept) : kept[i] = slice[j]
  <2>1. j # n + 1
      BY <1>4, Zenon
  <2>2. j \in 1..n
      BY <2>1
  <2> QED
      BY <1>4, <2>2 DEF Picks
<1> QED
    BY <1>1, <1>2, <1>3, <1>4 DEF Picks

\* A young place is added behind the others.
LEMMA PicksYoung ==
    ASSUME NEW slice, NEW n \in Nat, NEW kept, Picks(kept, slice, n),
           slice[n + 1] \in Generation, Young(slice[n + 1])
    PROVE  Picks(Append(kept, slice[n + 1]), slice, n + 1)
PROOF
<1> DEFINE new == Append(kept, slice[n + 1])
           L == Len(kept)
<1>1. PICK place \in [1..L -> 1..n] :
          /\ \A i \in 1..L : kept[i] = slice[place[i]]
          /\ \A i, j \in 1..L : i < j => place[i] < place[j]
    BY DEF Picks
<1>2. /\ kept \in Seq(Generation) /\ L \in Nat /\ L <= n
    BY DEF Picks
<1>3. /\ new \in Seq(Generation) /\ Len(new) = L + 1
      /\ new[L + 1] = slice[n + 1]
      /\ \A i \in 1..L : new[i] = kept[i]
    BY <1>2
<1> HIDE DEF new, L
<1> DEFINE next == [i \in 1..L + 1 |-> IF i = L + 1 THEN n + 1 ELSE place[i]]
<1>4. /\ next[L + 1] = n + 1 /\ \A i \in 1..L : next[i] = place[i]
    BY <1>2
<1>5. next \in [1..L + 1 -> 1..n + 1]
  <2>1. ASSUME NEW i \in 1..L + 1 PROVE (IF i = L + 1 THEN n + 1 ELSE place[i]) \in 1..n + 1
    <3>1. CASE i = L + 1
        BY <3>1
    <3>2. CASE i # L + 1
      <4>1. i \in 1..L
          BY <1>2, <3>2
      <4>2. place[i] \in 1..n
          BY <1>1, <4>1
      <4> QED
          BY <3>2, <4>2
    <3> QED
        BY <3>1, <3>2
  <2> QED
      BY <2>1
<1> HIDE DEF next
<1>6. ASSUME NEW i \in 1..L + 1 PROVE new[i] = slice[next[i]]
  <2>1. i \in 1..L \/ i = L + 1
      BY <1>2
  <2> QED
      BY <1>1, <1>3, <1>4, <2>1
<1>7. ASSUME NEW i \in 1..L + 1, NEW j \in 1..L + 1, i < j PROVE next[i] < next[j]
  <2>1. i \in 1..L
      BY <1>2, <1>7
  <2>2. place[i] \in 1..n
      BY <1>1, <2>1
  <2>3. CASE j = L + 1
      BY <1>4, <2>1, <2>2, <2>3
  <2>4. CASE j \in 1..L
      BY <1>1, <1>4, <1>7, <2>1, <2>4
  <2> QED
      BY <1>2, <2>3, <2>4
<1>8. ASSUME NEW j \in 1..n + 1, Young(slice[j])
      PROVE  \E i \in 1..L + 1 : new[i] = slice[j]
  <2>1. CASE j = n + 1
    <3>1. L + 1 \in 1..L + 1
        BY <1>2
    <3> QED
        BY <1>3, <2>1, <3>1
  <2>2. CASE j \in 1..n
    <3>1. PICK i \in 1..L : kept[i] = slice[j]
        BY <1>8, <2>2 DEF Picks, L
    <3>2. i \in 1..L + 1
        BY <1>2, <3>1
    <3> QED
        BY <1>3, <3>1, <3>2
  <2> QED
      BY <2>1, <2>2
<1>9. L + 1 \in Nat /\ L + 1 <= n + 1
    BY <1>2
<1>10. ASSUME NEW i \in 1..L + 1 PROVE Young(new[i])
  <2>1. CASE i = L + 1
      BY <1>3, <2>1, Zenon
  <2>2. CASE i \in 1..L
    <3>1. Young(kept[i])
        BY <2>2 DEF Picks, L
    <3> QED
        BY <1>3, <2>2, <3>1, Zenon
  <2> QED
      BY <1>2, <2>1, <2>2
<1>11. Picks(new, slice, n + 1)
  <2>1. \E p \in [1..Len(new) -> 1..n + 1] :
          /\ \A i \in 1..Len(new) : new[i] = slice[p[i]]
          /\ \A i, j \in 1..Len(new) : i < j => p[i] < p[j]
      BY <1>3, <1>5, <1>6, <1>7
  <2>2. \A i \in 1..Len(new) : Young(new[i])
      BY <1>3, <1>10
  <2>3. \A j \in 1..n + 1 : Young(slice[j]) => \E i \in 1..Len(new) : new[i] = slice[j]
      BY <1>3, <1>8
  <2>4. new \in Seq(Generation) /\ Len(new) \in Nat /\ Len(new) <= n + 1
      BY <1>3, <1>9
  <2> QED
      BY <2>1, <2>2, <2>3, <2>4 DEF Picks
<1> QED
    BY <1>11 DEF new

\* So the loop keeps, of a slice of generations, the young ones in their order.
LEMMA KeptPicks ==
    ASSUME NEW slice \in Seq(Generation)
    PROVE  Picks(Kept(slice), slice, Len(slice))
PROOF
<1>1. Len(slice) \in Nat /\ \A i \in 1..Len(slice) : slice[i] \in Generation
    OBVIOUS
<1>2. PICK f : IsKeep(f, slice, Len(slice)) /\ Kept(slice) = f[Len(slice)]
    BY <1>1, KeepExists
<1> DEFINE m == Len(slice)
           G == {n \in Nat : n <= m => Picks(f[n], slice, n)}
<1> HIDE DEF m
<1>3. m \in Nat /\ IsKeep(f, slice, m) /\ \A i \in 1..m : slice[i] \in Generation
    BY <1>1, <1>2 DEF m
<1>4. 0 \in G
  <2>1. f[0] = <<>>
      BY <1>3, KeepZero
  <2> QED
      BY <2>1, PicksNone
<1>5. ASSUME NEW n \in Nat, n \in G PROVE n + 1 \in G
  <2>1. SUFFICES ASSUME n + 1 <= m PROVE Picks(f[n + 1], slice, n + 1)
      OBVIOUS
  <2>2. /\ n + 1 \in 0..m /\ n + 1 # 0 /\ n + 1 \in 1..m /\ n <= m /\ (n + 1) - 1 = n
      BY <1>3, <2>1
  <2>3. Picks(f[n], slice, n)
      BY <1>5, <2>2
  <2>4. f[n + 1] = IF Young(slice[n + 1]) THEN Append(f[n], slice[n + 1]) ELSE f[n]
    <3>1. KeepTurn(f, slice, n + 1)
        BY <1>3, <2>2, KeepTurns
    <3> QED
        BY <2>2, <3>1, Zenon DEF KeepTurn
  <2>5. CASE Young(slice[n + 1])
    <3>1. Picks(Append(f[n], slice[n + 1]), slice, n + 1)
        BY <1>3, <2>2, <2>3, <2>5, PicksYoung
    <3> QED
        BY <2>4, <2>5, <3>1, Zenon
  <2>6. CASE ~Young(slice[n + 1])
    <3>1. Picks(f[n], slice, n + 1)
        BY <2>3, <2>6, PicksOld
    <3> QED
        BY <2>4, <2>6, <3>1, Zenon
  <2> QED
      BY <2>5, <2>6
<1>6. m \in G
  <2> HIDE DEF G
  <2>1. Nat \subseteq G
      BY <1>4, <1>5, NatInd
  <2> QED
      BY <1>3, <2>1
<1>7. Picks(f[m], slice, m)
    BY <1>3, <1>6
<1> QED
    BY <1>2, <1>7 DEF m

\* What a sweep of a slice leaves in the store.
Swept(slice) ==
    /\ array' \in Seq(Generation \cup {NoGen})
    /\ len' \in Nat /\ len' <= KeepDepth /\ len' <= Len(array')
    /\ \A i \in 1..len' : array'[i] \in Generation /\ Young(array'[i])
    /\ \E place \in [1..len' -> 1..Len(slice)] :
          /\ \A i \in 1..len' : array'[i] = slice[place[i]]
          /\ \A i, j \in 1..len' : i < j => place[i] < place[j]
    /\ \A j \in 1..Len(slice) :
          j <= KeepDepth /\ Young(slice[j]) => \E i \in 1..len' : array'[i] = slice[j]

\* The count cuts the back of the slice off.
LEMMA TruncatedIs ==
    ASSUME NEW slice \in Seq(Generation)
    PROVE  /\ Truncated(slice) \in Seq(Generation)
           /\ Len(Truncated(slice)) \in Nat
           /\ Len(Truncated(slice)) <= KeepDepth
           /\ Len(Truncated(slice)) <= Len(slice)
           /\ \A i \in 1..Len(slice) : i <= KeepDepth =>
                 /\ i \in 1..Len(Truncated(slice))
           /\ \A i \in 1..Len(Truncated(slice)) : Truncated(slice)[i] = slice[i]
PROOF
<1> DEFINE n == IF Len(slice) > KeepDepth THEN KeepDepth ELSE Len(slice)
<1>1. KeepDepth \in Nat /\ Len(slice) \in Nat
    OBVIOUS
<1>2. n \in Nat /\ n <= KeepDepth /\ n <= Len(slice)
    BY <1>1
<1>3. \A i \in 1..Len(slice) : i <= KeepDepth => i \in 1..n
    BY <1>1
<1>4. Truncated(slice) = SubSeq(slice, 1, n)
    BY DEF Truncated
<1> HIDE DEF n
<1>5. /\ SubSeq(slice, 1, n) \in Seq(Generation)
      /\ Len(SubSeq(slice, 1, n)) = n
      /\ \A i \in 1..n : SubSeq(slice, 1, n)[i] = slice[i]
    BY <1>1, <1>2
<1> QED
    BY <1>2, <1>3, <1>4, <1>5

\* What sweepLocked does, whatever array the slice lies in.
LEMMA SweepKeeps ==
    ASSUME NEW slice \in Seq(Generation),
           NEW backing \in Seq(Generation \cup {NoGen}),
           Len(slice) <= Len(backing),
           sweepLocked(slice, backing)
    PROVE  Swept(slice) /\ Len(array') = Len(backing)
PROOF
<1> DEFINE held == Truncated(slice)
           keep == Kept(held)
<1>1. /\ held \in Seq(Generation) /\ Len(held) \in Nat
      /\ Len(held) <= KeepDepth /\ Len(held) <= Len(slice)
      /\ \A i \in 1..Len(slice) : i <= KeepDepth => i \in 1..Len(held)
      /\ \A i \in 1..Len(held) : held[i] = slice[i]
    BY TruncatedIs
<1>2. Picks(keep, held, Len(held))
  <2> HIDE DEF held
  <2> QED
      BY <1>1, KeptPicks
<1>3. /\ len' = Len(keep)
      /\ array' = [i \in DOMAIN backing |-> IF i <= Len(keep) THEN keep[i]
                                            ELSE IF i <= Len(held) THEN NoGen
                                            ELSE backing[i]]
    BY Zenon DEF sweepLocked
<1> HIDE DEF held, keep
<1>4. Len(slice) \in Nat /\ Len(backing) \in Nat /\ KeepDepth \in Nat
    OBVIOUS
<1> DEFINE L == len' H == Len(held) B == Len(backing)
<1>5. /\ keep \in Seq(Generation) /\ L \in Nat /\ L = Len(keep) /\ L <= H
      /\ H \in Nat /\ H <= Len(slice) /\ H <= KeepDepth /\ B \in Nat /\ Len(slice) <= B
    BY <1>1, <1>2, <1>3, <1>4 DEF Picks
<1>6. \A i \in 1..L : keep[i] \in Generation
    BY <1>5
<1>7. DOMAIN backing = 1..B /\ \A i \in 1..B : backing[i] \in Generation \cup {NoGen}
    OBVIOUS
<1>8. array' = [i \in 1..B |-> IF i <= L THEN keep[i]
                               ELSE IF i <= H THEN NoGen
                               ELSE backing[i]]
    BY <1>3, <1>5, <1>7
<1> HIDE DEF L, H, B
<1>9. \A i \in 1..L : i \in 1..B /\ array'[i] = keep[i]
    BY <1>5, <1>8
<1>10. array' \in [1..B -> Generation \cup {NoGen}]
  <2>1. ASSUME NEW i \in 1..B
        PROVE  (IF i <= L THEN keep[i] ELSE IF i <= H THEN NoGen ELSE backing[i])
                  \in Generation \cup {NoGen}
    <3>1. CASE i <= L
      <4>1. i \in 1..L
          BY <1>5, <3>1
      <4> QED
          BY <1>6, <3>1, <4>1
    <3>2. CASE ~(i <= L)
        BY <1>7, <3>2, Zenon
    <3> QED
        BY <3>1, <3>2
  <2> QED
      BY <1>8, <2>1
<1>11. array' \in Seq(Generation \cup {NoGen}) /\ Len(array') = B
    BY <1>5, <1>10
<1>12. PICK place \in [1..L -> 1..H] :
          /\ \A i \in 1..L : keep[i] = held[place[i]]
          /\ \A i, j \in 1..L : i < j => place[i] < place[j]
    BY <1>2, <1>5 DEF Picks, H
<1>13. place \in [1..L -> 1..Len(slice)] /\ \A i \in 1..L : array'[i] = slice[place[i]]
  <2>1. 1..H \subseteq 1..Len(slice)
      BY <1>4, <1>5
  <2>2. ASSUME NEW i \in 1..L PROVE array'[i] = slice[place[i]]
    <3>1. place[i] \in 1..H
        BY <1>12
    <3>2. held[place[i]] = slice[place[i]]
        BY <1>1, <3>1 DEF H
    <3> QED
        BY <1>9, <1>12, <3>2
  <2> QED
      BY <1>12, <2>1, <2>2
<1>14. ASSUME NEW j \in 1..Len(slice), j <= KeepDepth, Young(slice[j])
       PROVE  \E i \in 1..L : array'[i] = slice[j]
  <2>1. j \in 1..H /\ held[j] = slice[j]
      BY <1>1, <1>14 DEF H
  <2>2. Young(held[j])
      BY <1>14, <2>1, Zenon
  <2>3. PICK i \in 1..Len(keep) : keep[i] = held[j]
      BY <1>2, <2>1, <2>2 DEF Picks, H
  <2> QED
      BY <1>5, <1>9, <2>1, <2>3
<1>15. L <= KeepDepth /\ L <= B
    BY <1>4, <1>5
<1>16. ASSUME NEW i \in 1..L PROVE array'[i] \in Generation /\ Young(array'[i])
  <2>1. Young(keep[i])
      BY <1>2, <1>5 DEF Picks
  <2> QED
      BY <1>6, <1>9, <2>1, Zenon
<1> QED
    BY <1>5, <1>11, <1>12, <1>13, <1>14, <1>15, <1>16 DEF Swept, L, B

--------------------------------------------------------------------------------
(* The store's invariant.                                                    *)

\* y was superseded when x was loaded, or before.
Follows(x, y) ==
    y.at < x.at /\ \E r \in dropped : r.gen = y /\ r.since <= x.at

\* Where the generations are.
StorePlaces ==
    /\ array \in Seq(Generation \cup {NoGen}) /\ Len(array) <= KeepDepth + 1
    /\ len \in Nat /\ len <= KeepDepth /\ len <= Len(array)
    /\ \A i \in 1..len : array[i] \in Generation
    /\ current \in Generation \cup {NoGen}
    /\ prev \in Generation \cup {NoGen}
    /\ now \in 0..MaxTime
    /\ \A r \in dropped : r.gen \in Generation /\ r.since \in Nat
    /\ prev # NoGen => current # NoGen
    /\ current = NoGen => len = 0
    /\ current # NoGen => current.at <= now

\* Each follows every one before it: the current one, the one on its way into
\* the slice, the slice.
StoreOrder ==
    /\ \A i, j \in 1..len : i < j => Follows(array[i], array[j])
    /\ prev # NoGen => Follows(current, prev)
    /\ prev # NoGen => \A j \in 1..len : Follows(prev, array[j])
    /\ current # NoGen => \A j \in 1..len : Follows(current, array[j])

\* A superseded generation is held, too old, or cut off by the count.
Due(r) ==
    \/ r.gen = prev
    \/ \E i \in 1..len : array[i] = r.gen
    \/ ~Young(r.gen)
    \/ CountedOut(r)
StoreDue == \A r \in dropped : Due(r)

\* What is retained was superseded within the TTL of being loaded: a sweep
\* measures age from loading (store.go:198), so what served longer than that is
\* gone the moment it is retired, although Options.TTL (store.go:58) speaks of
\* having been superseded for so long.
RetainedServedBriefly ==
    \A i \in 1..len : \E r \in dropped :
        r.gen = array[i] /\ r.since < array[i].at + TTL

\* The inductive invariant of the store.
StoreInv == StorePlaces /\ StoreOrder /\ StoreDue /\ RetainedServedBriefly

\* What stands behind KeepDepth others in a slice has as many younger ones that
\* were superseded too.
LEMMA CutOff ==
    ASSUME NEW slice \in Seq(Generation),
           \A i \in 1..Len(slice) : \E q \in dropped : q.gen = slice[i],
           \A i, j \in 1..Len(slice) : i < j => slice[j].at < slice[i].at,
           NEW r \in dropped, NEW k \in 1..Len(slice), KeepDepth < k, r.gen = slice[k]
    PROVE  CountedOut(r)
PROOF
<1> DEFINE S == 1..KeepDepth
           e(i) == CHOOSE q \in dropped : q.gen = slice[i]
           f == [i \in S |-> e(i)]
<1>1. /\ KeepDepth \in Nat /\ Len(slice) \in Nat
      /\ \A i \in S : i \in 1..Len(slice) /\ i < k /\ i \in Nat
    OBVIOUS
<1>2. ASSUME NEW i \in 1..Len(slice) PROVE slice[i].at \in Nat
  <2>1. slice[i] \in Generation
      OBVIOUS
  <2> QED
      BY <2>1 DEF Generation
<1>3. \A i \in S : e(i) \in dropped /\ e(i).gen = slice[i]
    BY <1>1
<1>4. f \in [S -> dropped] /\ \A i \in S : f[i] = e(i)
  <2> HIDE DEF S, e
  <2> QED
      BY <1>3
<1> HIDE DEF e, f
<1>5. ASSUME NEW i \in S PROVE f[i].gen.at > r.gen.at
  <2>1. slice[k].at < slice[i].at
      BY <1>1
  <2>2. f[i].gen = slice[i]
      BY <1>3, <1>4
  <2> QED
      BY <1>1, <1>2, <2>1, <2>2
<1>6. ASSUME NEW i \in S, NEW j \in S, f[i] = f[j] PROVE i = j
  <2>1. slice[i] = slice[j]
      BY <1>3, <1>4, <1>6
  <2>2. slice[i].at \in Nat
      BY <1>1, <1>2
  <2>3. i < j => slice[j].at < slice[i].at
      BY <1>1
  <2>4. j < i => slice[i].at < slice[j].at
      BY <1>1
  <2> QED
      BY <1>1, <2>1, <2>2, <2>3, <2>4
<1> QED
    BY <1>4, <1>5, <1>6 DEF CountedOut

\* The store boots empty.
LEMMA StoreInitInv ==
    ASSUME StoreInit
    PROVE  StoreInv
PROOF
<1> USE DEF StoreInit
<1>1. Len(array) = 0 /\ array \in Seq(Generation \cup {NoGen})
    OBVIOUS
<1>2. 1..len = {}
    OBVIOUS
<1>3. StorePlaces
    BY <1>1, <1>2 DEF StorePlaces
<1> QED
    BY <1>2, <1>3 DEF StoreInv, StoreOrder, StoreDue, RetainedServedBriefly

\* What a sweep needs of the slice it is given: every generation follows the
\* ones before it, and what was superseded is in it, on its way into it, too old
\* or counted out.
Ready(slice, pending) ==
    /\ slice \in Seq(Generation)
    /\ current = NoGen => Len(slice) = 0 /\ pending = NoGen
    /\ pending \in Generation \cup {NoGen}
    /\ \A i, j \in 1..Len(slice) : i < j => Follows(slice[i], slice[j])
    /\ current # NoGen => \A j \in 1..Len(slice) : Follows(current, slice[j])
    /\ pending # NoGen => /\ Follows(current, pending)
                          /\ \A j \in 1..Len(slice) : Follows(pending, slice[j])
    /\ \A r \in dropped :
          \/ r.gen = pending
          \/ \E k \in 1..Len(slice) : r.gen = slice[k]
          \/ ~Young(r.gen)
          \/ CountedOut(r)

\* A generation in the slice stays in it, or it is too old, or counted out.
LEMMA SweptDue ==
    ASSUME StorePlaces,
           NEW slice, NEW pending, Ready(slice, pending), Swept(slice),
           NEW r \in dropped, NEW k \in 1..Len(slice), r.gen = slice[k]
    PROVE  \/ \E i \in 1..len' : array'[i] = r.gen
           \/ ~Young(r.gen)
           \/ CountedOut(r)
PROOF
<1>1. slice \in Seq(Generation) /\ Len(slice) \in Nat /\ k \in Nat /\ KeepDepth \in Nat
    BY DEF Ready
<1>2. CASE k <= KeepDepth
    BY <1>2 DEF Swept
<1>3. CASE KeepDepth < k
  <2>1. current # NoGen
    <3>1. Len(slice) # 0
        BY <1>1
    <3> QED
        BY <3>1 DEF Ready
  <2>2. \A i \in 1..Len(slice) : \E q \in dropped : q.gen = slice[i]
    <3>1. \A i \in 1..Len(slice) : Follows(current, slice[i])
        BY <2>1 DEF Ready
    <3> QED
        BY <3>1 DEF Follows
  <2>3. \A i, j \in 1..Len(slice) : i < j => slice[j].at < slice[i].at
      BY DEF Ready, Follows
  <2>4. CountedOut(r)
      BY <1>1, <1>3, <2>2, <2>3, CutOff
  <2> QED
      BY <2>4
<1> QED
    BY <1>1, <1>2, <1>3

\* A sweep of a slice that is ready keeps the invariant.
LEMMA SweptInv ==
    ASSUME StorePlaces,
           NEW slice, NEW pending, Ready(slice, pending), Swept(slice),
           Len(array') <= KeepDepth + 1,
           prev' = pending, UNCHANGED <<current, now, dropped>>
    PROVE  StoreInv'
PROOF
<1>1. /\ slice \in Seq(Generation) /\ Len(slice) \in Nat
      /\ len' \in Nat /\ len' <= Len(array')
      /\ current' = current /\ now' = now /\ dropped' = dropped
    BY DEF Ready, Swept
<1>2. PICK place \in [1..len' -> 1..Len(slice)] :
          /\ \A i \in 1..len' : array'[i] = slice[place[i]]
          /\ \A i, j \in 1..len' : i < j => place[i] < place[j]
    BY DEF Swept
<1>3. \A i \in 1..len' : place[i] \in 1..Len(slice)
    BY <1>2
<1>4. StorePlaces'
  <2>1. current = NoGen => len' = 0
    <3>1. SUFFICES ASSUME current = NoGen, len' # 0 PROVE FALSE
        OBVIOUS
    <3>2. Len(slice) = 0
        BY <3>1 DEF Ready
    <3>3. 1 \in 1..len'
        BY <1>1, <3>1
    <3> QED
        BY <1>3, <3>2, <3>3
  <2>2. /\ pending \in Generation \cup {NoGen}
        /\ pending # NoGen => current # NoGen
      BY DEF Ready
  <2>3. /\ array' \in Seq(Generation \cup {NoGen})
        /\ len' <= KeepDepth
        /\ \A i \in 1..len' : array'[i] \in Generation
      BY DEF Swept
  <2>4. /\ current' \in Generation \cup {NoGen}
        /\ now' \in 0..MaxTime
        /\ \A r \in dropped' : r.gen \in Generation /\ r.since \in Nat
        /\ current' # NoGen => current'.at <= now'
      BY <1>1 DEF StorePlaces
  <2>5. /\ prev' \in Generation \cup {NoGen}
        /\ prev' # NoGen => current' # NoGen
        /\ current' = NoGen => len' = 0
      BY <1>1, <2>1, <2>2
  <2> QED
      BY <1>1, <2>3, <2>4, <2>5 DEF StorePlaces
<1>5. StoreOrder'
  <2>1. ASSUME NEW i \in 1..len', NEW j \in 1..len', i < j
        PROVE  Follows(array'[i], array'[j])
    <3>1. place[i] < place[j]
        BY <1>2, <2>1
    <3>2. Follows(slice[place[i]], slice[place[j]])
        BY <1>3, <3>1 DEF Ready
    <3> QED
        BY <1>2, <3>2, Zenon
  <2>2. current # NoGen => \A j \in 1..len' : Follows(current, array'[j])
    <3>1. SUFFICES ASSUME current # NoGen, NEW j \in 1..len' PROVE Follows(current, array'[j])
        OBVIOUS
    <3>2. Follows(current, slice[place[j]])
        BY <1>3, <3>1 DEF Ready
    <3> QED
        BY <1>2, <3>2, Zenon
  <2>3. pending # NoGen => \A j \in 1..len' : Follows(pending, array'[j])
    <3>1. SUFFICES ASSUME pending # NoGen, NEW j \in 1..len' PROVE Follows(pending, array'[j])
        OBVIOUS
    <3>2. Follows(pending, slice[place[j]])
        BY <1>3, <3>1 DEF Ready
    <3> QED
        BY <1>2, <3>2, Zenon
  <2>4. pending # NoGen => Follows(current, pending)
      BY DEF Ready
  <2> QED
      BY <1>1, <2>1, <2>2, <2>3, <2>4 DEF StoreOrder, Follows
<1>6. StoreDue'
  <2>1. SUFFICES ASSUME NEW r \in dropped PROVE Due(r)'
      BY <1>1 DEF StoreDue
  <2>2. CountedOut(r)' <=> CountedOut(r)
      BY <1>1, Zenon DEF CountedOut
  <2>3. (Young(r.gen))' = Young(r.gen)
      BY <1>1 DEF Young
  <2>4. \/ r.gen = pending
        \/ \E k \in 1..Len(slice) : r.gen = slice[k]
        \/ ~Young(r.gen)
        \/ CountedOut(r)
      BY DEF Ready
  <2>5. \/ r.gen = pending
        \/ \E i \in 1..len' : array'[i] = r.gen
        \/ ~Young(r.gen)
        \/ CountedOut(r)
      BY <2>4, SweptDue
  <2> QED
      BY <2>2, <2>5, <2>3 DEF Due
<1>7. RetainedServedBriefly'
  <2>1. SUFFICES ASSUME NEW i \in 1..len'
                 PROVE  \E r \in dropped : r.gen = array'[i] /\ r.since < array'[i].at + TTL
      BY <1>1 DEF RetainedServedBriefly
  <2>2. array'[i] \in Generation /\ Young(array'[i])
      BY DEF Swept
  <2>3. current # NoGen
    <3>1. place[i] \in 1..Len(slice)
        BY <1>3
    <3>2. Len(slice) # 0
        BY <1>1, <3>1
    <3> QED
        BY <3>2 DEF Ready
  <2>4. Follows(current, slice[place[i]])
      BY <1>3, <2>3 DEF Ready
  <2>5. PICK r \in dropped : r.gen = array'[i] /\ r.since <= current.at
      BY <1>2, <2>4 DEF Follows
  <2>6. /\ array'[i].at \in Nat /\ current.at \in Nat /\ current.at <= now
        /\ now \in Nat /\ r.since \in Nat /\ TTL \in Nat
      BY <2>2, <2>3 DEF StorePlaces, Generation
  <2>7. array'[i].at + TTL > now
      BY <2>2 DEF Young
  <2> QED
      BY <2>5, <2>6, <2>7
<1> QED
    BY <1>4, <1>5, <1>6, <1>7 DEF StoreInv

\* The slice itself is ready for a sweep.
LEMMA HeldReady ==
    ASSUME StoreInv
    PROVE  /\ Ready(retired, prev)
           /\ Len(retired) = len
           /\ \A i \in 1..len : retired[i] = array[i]
PROOF
<1>1. /\ array \in Seq(Generation \cup {NoGen}) /\ Len(array) \in Nat
      /\ len \in Nat /\ len <= Len(array)
      /\ \A i \in 1..len : array[i] \in Generation
    BY DEF StoreInv, StorePlaces
<1> DEFINE s == retired
<1>2. Len(s) = len /\ \A i \in 1..len : s[i] = array[i]
    BY <1>1 DEF retired
<1>3. s \in Seq(Generation)
  <2>1. s = [i \in 1..len |-> array[i]]
      BY <1>1 DEF retired
  <2>2. [i \in 1..len |-> array[i]] \in [1..len -> Generation]
      BY <1>1
  <2>3. s \in [1..len -> Generation]
      BY <2>1, <2>2
  <2> HIDE DEF s
  <2> QED
      BY <1>1, <2>3
<1> HIDE DEF s
<1>4. \A i, j \in 1..len : i < j => Follows(s[i], s[j])
    BY <1>2 DEF StoreInv, StoreOrder
<1>5. current # NoGen => \A j \in 1..len : Follows(current, s[j])
    BY <1>2 DEF StoreInv, StoreOrder
<1>6. prev # NoGen => Follows(current, prev) /\ \A j \in 1..len : Follows(prev, s[j])
    BY <1>2 DEF StoreInv, StoreOrder
<1>7. /\ current = NoGen => len = 0 /\ prev = NoGen
      /\ prev \in Generation \cup {NoGen}
    BY DEF StoreInv, StorePlaces
<1>8. \A r \in dropped :
          \/ r.gen = prev
          \/ \E k \in 1..len : r.gen = s[k]
          \/ ~Young(r.gen)
          \/ CountedOut(r)
  <2> SUFFICES ASSUME NEW r \in dropped
               PROVE  \/ r.gen = prev
                      \/ \E k \in 1..len : r.gen = s[k]
                      \/ ~Young(r.gen)
                      \/ CountedOut(r)
      OBVIOUS
  <2>1. Due(r)
      BY DEF StoreInv, StoreDue
  <2> QED
      BY <1>2, <2>1 DEF Due
<1>9. Ready(s, prev)
    BY <1>2, <1>3, <1>4, <1>5, <1>6, <1>7, <1>8, Zenon DEF Ready
<1> QED
    BY <1>2, <1>9 DEF s

\* So is the slice with the superseded generation put in front of it, where the
\* store holds any.
LEMMA FrontReady ==
    ASSUME StoreInv, prev # NoGen, NEW held, held = retired
    PROVE  /\ Ready(<<prev>> \o held, NoGen)
           /\ Len(<<prev>> \o held) = len + 1
PROOF
<1>1. /\ Ready(held, prev) /\ held \in Seq(Generation)
      /\ Len(held) = len /\ len \in Nat
      /\ prev \in Generation /\ current # NoGen
    BY HeldReady DEF Ready, StoreInv, StorePlaces
<1> DEFINE s == <<prev>> \o held
<1>2. /\ s \in Seq(Generation) /\ Len(s) = len + 1 /\ s[1] = prev
      /\ \A i \in 1..len : s[i + 1] = held[i]
    BY <1>1
<1> HIDE DEF s
<1>3. ASSUME NEW i \in 1..len + 1 PROVE i = 1 \/ (i - 1 \in 1..len /\ s[i] = held[i - 1])
  <2>1. CASE i # 1
    <3>1. i - 1 \in 1..len /\ (i - 1) + 1 = i
        BY <1>1, <2>1
    <3> QED
        BY <1>2, <3>1
  <2> QED
      BY <2>1
<1>4. ASSUME NEW i \in 1..len + 1, NEW j \in 1..len + 1, i < j
      PROVE  Follows(s[i], s[j])
  <2>1. j # 1 /\ j - 1 \in 1..len /\ s[j] = held[j - 1]
      BY <1>3, <1>4
  <2>2. CASE i = 1
      BY <1>1, <1>2, <2>1, <2>2 DEF Ready, StoreInv, StorePlaces
  <2>3. CASE i # 1
    <3>1. i - 1 \in 1..len /\ s[i] = held[i - 1] /\ i - 1 < j - 1
        BY <1>3, <1>4, <2>3
    <3> QED
        BY <1>1, <2>1, <3>1 DEF Ready
  <2> QED
      BY <2>2, <2>3
<1>5. ASSUME NEW j \in 1..len + 1 PROVE Follows(current, s[j])
  <2>1. CASE j = 1
    <3>1. Follows(current, prev)
        BY <1>1 DEF Ready, StoreInv, StorePlaces
    <3> QED
        BY <1>2, <2>1, <3>1, Zenon
  <2>2. CASE j # 1
    <3>1. j - 1 \in 1..len /\ s[j] = held[j - 1]
        BY <1>3, <2>2
    <3>2. Follows(current, held[j - 1])
        BY <1>1, <3>1 DEF Ready
    <3> QED
        BY <3>1, <3>2, Zenon
  <2> QED
      BY <2>1, <2>2
<1>6. ASSUME NEW r \in dropped
      PROVE  \/ \E k \in 1..len + 1 : r.gen = s[k]
             \/ ~Young(r.gen)
             \/ CountedOut(r)
  <2>1. CASE r.gen = prev
    <3>1. 1 \in 1..len + 1
        BY <1>1
    <3> QED
        BY <1>2, <2>1, <3>1
  <2>2. CASE \E k \in 1..len : r.gen = held[k]
    <3>1. PICK k \in 1..len : r.gen = held[k]
        BY <2>2
    <3>2. k + 1 \in 1..len + 1
        BY <1>1
    <3>3. s[k + 1] = r.gen
        BY <1>2, <3>1
    <3> QED
        BY <3>2, <3>3
  <2> QED
      BY <1>1, <2>1, <2>2 DEF Ready
<1>7. Ready(s, NoGen)
  <2>1. \A i, j \in 1..len + 1 : i < j => Follows(s[i], s[j])
      BY <1>4
  <2> QED
      BY <1>1, <1>2, <1>5, <1>6, <2>1, Zenon DEF Ready
<1> QED
    BY <1>2, <1>7 DEF s

\* Sweep and Generations keep the invariant.
LEMMA SweepInv ==
    ASSUME StoreInv, Sweep
    PROVE  StoreInv'
PROOF
<1>1. \E s, b, p : s = retired /\ b = array /\ p = prev
    OBVIOUS
<1>2. PICK s, b, p : s = retired /\ b = array /\ p = prev
    BY <1>1
<1>3. /\ Ready(s, p) /\ s \in Seq(Generation) /\ Len(s) = len
      /\ b \in Seq(Generation \cup {NoGen}) /\ Len(b) <= KeepDepth + 1
      /\ Len(s) <= Len(b) /\ StorePlaces
    BY <1>2, HeldReady DEF Ready, StoreInv, StorePlaces
<1>4. sweepLocked(s, b) /\ UNCHANGED <<current, prev, now, dropped>>
    BY <1>2 DEF Sweep
<1>5. Swept(s) /\ Len(array') = Len(b)
    BY <1>3, <1>4, SweepKeeps
<1>6. prev' = p /\ Len(array') <= KeepDepth + 1 /\ UNCHANGED <<current, now, dropped>>
    BY <1>2, <1>3, <1>4, <1>5
<1> QED
    BY <1>3, <1>5, <1>6, SweptInv

\* Reload's locked half keeps it, whether the store holds any or none.
LEMMA RetireInv ==
    ASSUME StoreInv, Retire
    PROVE  StoreInv'
PROOF
<1>1. \E s, b, h : s = <<prev>> \o retired /\ b = array /\ h = retired
    OBVIOUS
<1>2. PICK s, b, h : s = <<prev>> \o retired /\ b = array /\ h = retired
    BY <1>1
<1>3. /\ Ready(h, prev) /\ h \in Seq(Generation) /\ Len(h) = len
      /\ b \in Seq(Generation \cup {NoGen}) /\ Len(b) <= KeepDepth + 1
      /\ Len(h) <= Len(b) /\ StorePlaces /\ len <= KeepDepth /\ len \in Nat
      /\ KeepDepth \in Nat
    BY <1>2, HeldReady DEF Ready, StoreInv, StorePlaces
<1>4. /\ prev # NoGen /\ prev' = NoGen /\ UNCHANGED <<current, now, dropped>>
      /\ IF KeepDepth > 0 THEN sweepLocked(s, s) ELSE sweepLocked(h, b)
    BY <1>2 DEF Retire
<1>5. CASE KeepDepth > 0
  <2>1. Ready(s, NoGen) /\ Len(s) = len + 1
      BY <1>2, <1>4, FrontReady
  <2>2. /\ s \in Seq(Generation) /\ s \in Seq(Generation \cup {NoGen})
        /\ Len(s) <= Len(s)
    <3>1. s \in Seq(Generation)
        BY <2>1 DEF Ready
    <3> QED
        BY <3>1
  <2>3. sweepLocked(s, s)
      BY <1>4, <1>5
  <2>4. Swept(s) /\ Len(array') = Len(s)
      BY <2>2, <2>3, SweepKeeps
  <2>5. Len(array') <= KeepDepth + 1
      BY <1>3, <2>1, <2>4
  <2> QED
      BY <1>3, <1>4, <2>1, <2>4, <2>5, SweptInv
<1>6. CASE ~(KeepDepth > 0)
  <2>1. KeepDepth = 0
      BY <1>3, <1>6
  <2>2. Ready(h, NoGen)
    <3>1. \A r \in dropped : CountedOut(r)
      <4> SUFFICES ASSUME NEW r \in dropped PROVE CountedOut(r)
          OBVIOUS
      <4> DEFINE f == [i \in 1..KeepDepth |-> r]
      <4>1. 1..KeepDepth = {} /\ f \in [1..KeepDepth -> dropped]
          BY <2>1
      <4> HIDE DEF f
      <4> QED
          BY <4>1, Zenon DEF CountedOut
    <3> QED
        BY <1>3, <3>1 DEF Ready
  <2>3. sweepLocked(h, b)
      BY <1>4, <1>6
  <2>4. Swept(h) /\ Len(array') = Len(b)
      BY <1>3, <2>3, SweepKeeps
  <2>5. Len(array') <= KeepDepth + 1
      BY <1>3, <2>4
  <2> QED
      BY <1>3, <1>4, <2>2, <2>4, <2>5, SweptInv
<1> QED
    BY <1>5, <1>6

\* Time passing keeps it: what was too old stays too old.
LEMMA TickInv ==
    ASSUME StoreInv, Tick
    PROVE  StoreInv'
PROOF
<1>1. /\ now < MaxTime /\ now' = now + 1
      /\ current' = current /\ array' = array /\ len' = len /\ prev' = prev
      /\ dropped' = dropped
    BY DEF Tick
<1>2. now \in Nat /\ MaxTime \in Nat /\ TTL \in Nat
    BY DEF StoreInv, StorePlaces
<1>3. StorePlaces'
  <2>1. now' \in 0..MaxTime
      BY <1>1, <1>2
  <2>2. current # NoGen => current.at <= now'
    <3>1. current # NoGen => current.at \in Nat /\ current.at <= now
        BY DEF StoreInv, StorePlaces, Generation
    <3> QED
        BY <1>1, <1>2, <3>1
  <2> QED
      BY <1>1, <2>1, <2>2 DEF StoreInv, StorePlaces
<1>4. StoreOrder'
    BY <1>1 DEF StoreInv, StoreOrder, Follows
<1>5. StoreDue'
  <2>1. SUFFICES ASSUME NEW r \in dropped PROVE Due(r)'
      BY <1>1 DEF StoreDue
  <2>2. Due(r)
      BY DEF StoreInv, StoreDue
  <2>3. CountedOut(r)' <=> CountedOut(r)
      BY <1>1, Zenon DEF CountedOut
  <2>4. ~Young(r.gen) => ~(Young(r.gen))'
    <3>1. r.gen.at \in Nat
      <4>1. r.gen \in Generation
          BY DEF StoreInv, StorePlaces
      <4> QED
          BY <4>1, <1>2 DEF Generation
    <3> QED
        BY <1>1, <1>2, <3>1 DEF Young
  <2> QED
      BY <1>1, <2>2, <2>3, <2>4 DEF Due
<1>6. RetainedServedBriefly'
    BY <1>1 DEF StoreInv, RetainedServedBriefly
<1> QED
    BY <1>3, <1>4, <1>5, <1>6 DEF StoreInv

\* A swap keeps it: the generation superseded waits to be retired, and every
\* one in the slice follows the new one too.
LEMMA SwapInv ==
    ASSUME StoreInv, NEW d \in Digests, Supersede(d)
    PROVE  StoreInv'
PROOF
<1> DEFINE new == [digest |-> d, at |-> now]
           gone == [gen |-> current, since |-> now]
<1>1. /\ prev = NoGen /\ current' = new
      /\ current # NoGen => current.at < now
      /\ prev' = IF current = NoGen THEN NoGen ELSE current
      /\ dropped' = IF current = NoGen THEN dropped ELSE dropped \cup {gone}
      /\ array' = array /\ len' = len /\ now' = now
    BY DEF Supersede
<1>2. /\ StorePlaces /\ StoreOrder /\ StoreDue
      /\ NoGen \notin Generation /\ KeepDepth \in Nat /\ MaxTime \in Nat
    BY DEF StoreInv
<1>3. now \in 0..MaxTime /\ new \in Generation /\ new # NoGen
  <2>1. now \in 0..MaxTime
      BY <1>2 DEF StorePlaces
  <2>2. new \in Generation
      BY <2>1 DEF Generation
  <2> HIDE DEF new
  <2> QED
      BY <1>2, <2>1, <2>2
<1>4. new.at = now /\ gone.gen = current /\ gone.since = now
    OBVIOUS
<1> HIDE DEF new, gone
<1>5. /\ \A r \in dropped' : r.gen \in Generation /\ r.since \in Nat
      /\ dropped \subseteq dropped'
  <2>1. current # NoGen => gone.gen \in Generation /\ gone.since \in Nat
      BY <1>2, <1>3, <1>4 DEF StorePlaces
  <2> QED
      BY <1>1, <1>2, <2>1 DEF StorePlaces
<1>6. StorePlaces'
  <2>1. /\ array' \in Seq(Generation \cup {NoGen}) /\ Len(array') <= KeepDepth + 1
        /\ len' \in Nat /\ len' <= KeepDepth /\ len' <= Len(array')
        /\ \A i \in 1..len' : array'[i] \in Generation
        /\ now' \in 0..MaxTime
      BY <1>1, <1>2 DEF StorePlaces
  <2>2. /\ current' \in Generation \cup {NoGen} /\ current' # NoGen
        /\ current'.at <= now'
      BY <1>1, <1>3, <1>4
  <2>3. prev' \in Generation \cup {NoGen}
      BY <1>1, <1>2 DEF StorePlaces
  <2> QED
      BY <1>5, <2>1, <2>2, <2>3 DEF StorePlaces
<1>7. ASSUME NEW x, NEW y, Follows(x, y)
      PROVE  y.at < x.at /\ \E r \in dropped' : r.gen = y /\ r.since <= x.at
    BY <1>5, <1>7 DEF Follows
<1>8. StoreOrder'
  <2>1. ASSUME NEW i \in 1..len, NEW j \in 1..len, i < j
        PROVE  Follows(array[i], array[j])
      BY <1>2, <2>1 DEF StoreOrder
  <2>2. ASSUME NEW j \in 1..len
        PROVE  /\ current # NoGen
               /\ Follows(current, array[j])
               /\ array[j].at < now
               /\ \E r \in dropped' : r.gen = array[j] /\ r.since <= now
    <3>1. len # 0
        BY <1>2 DEF StorePlaces
    <3>2. current # NoGen
        BY <1>2, <3>1 DEF StorePlaces
    <3>3. Follows(current, array[j])
        BY <1>2, <3>2 DEF StoreOrder
    <3>4. array[j].at \in Nat /\ current.at \in Nat /\ now \in Nat
      <4>1. array[j] \in Generation /\ current \in Generation
          BY <1>2, <3>2 DEF StorePlaces
      <4> QED
          BY <1>2, <1>3, <4>1 DEF Generation
    <3>5. array[j].at < current.at
        BY <3>3 DEF Follows
    <3>6. PICK r \in dropped : r.gen = array[j] /\ r.since <= current.at
        BY <3>3 DEF Follows
    <3>7. r.since \in Nat
        BY <1>2, <3>6 DEF StorePlaces
    <3>8. current.at < now
        BY <1>1, <3>2
    <3>9. array[j].at < now
        BY <3>4, <3>5, <3>8
    <3>10. r \in dropped' /\ r.since <= now
        BY <1>5, <3>4, <3>6, <3>7, <3>8
    <3> QED
        BY <3>2, <3>3, <3>6, <3>9, <3>10
  <2>3. prev' # NoGen => /\ prev' = current /\ prev'.at < now
                         /\ \E r \in dropped' : r.gen = prev' /\ r.since <= now
    <3>1. SUFFICES ASSUME prev' # NoGen
                   PROVE  /\ prev' = current /\ prev'.at < now
                          /\ \E r \in dropped' : r.gen = prev' /\ r.since <= now
        OBVIOUS
    <3>2. current # NoGen /\ prev' = current
        BY <1>1, <3>1
    <3>3. gone \in dropped' /\ current.at < now
        BY <1>1, <3>2
    <3>4. now \in Nat
        BY <1>3
    <3> QED
        BY <1>4, <3>2, <3>3, <3>4
  <2>4. \A i, j \in 1..len' : i < j => Follows(array[i], array[j])'
      BY <1>1, <1>7, <2>1 DEF Follows
  <2>5. prev' # NoGen => Follows(current, prev)'
      BY <1>1, <1>4, <2>3 DEF Follows
  <2>6. prev' # NoGen => \A j \in 1..len' : Follows(prev, array[j])'
    <3>1. SUFFICES ASSUME prev' # NoGen, NEW j \in 1..len PROVE Follows(prev, array[j])'
        BY <1>1
    <3>2. Follows(prev', array[j])
        BY <2>2, <2>3, <3>1, Zenon
    <3> QED
        BY <1>1, <1>7, <3>2 DEF Follows
  <2>7. \A j \in 1..len' : Follows(current, array[j])'
      BY <1>1, <1>4, <2>2 DEF Follows
  <2> QED
      BY <1>1, <2>4, <2>5, <2>6, <2>7 DEF StoreOrder
<1>9. StoreDue'
  <2>1. SUFFICES ASSUME NEW r \in dropped' PROVE Due(r)'
      BY DEF StoreDue
  <2>2. CASE r \in dropped
    <3>1. r.gen # prev /\ Due(r)
        BY <1>1, <1>2, <2>2 DEF StoreDue, StorePlaces
    <3>2. (Young(r.gen))' = Young(r.gen)
        BY <1>1 DEF Young
    <3>3. CountedOut(r) => CountedOut(r)'
      <4>1. \A f \in [1..KeepDepth -> dropped] : f \in [1..KeepDepth -> dropped']
          BY <1>5
      <4> QED
          BY <4>1, Zenon DEF CountedOut
    <3> QED
        BY <1>1, <3>1, <3>2, <3>3 DEF Due
  <2>3. CASE r \notin dropped
    <3>1. r = gone /\ prev' = current
        BY <1>1, <2>1, <2>3
    <3> QED
        BY <1>4, <3>1 DEF Due
  <2> QED
      BY <2>2, <2>3
<1>10. RetainedServedBriefly'
    BY <1>1, <1>5 DEF StoreInv, RetainedServedBriefly
<1> QED
    BY <1>6, <1>8, <1>9, <1>10 DEF StoreInv

\* Nothing moves, nothing changes.
LEMMA StoreStutter ==
    ASSUME StoreInv, UNCHANGED storeVars
    PROVE  StoreInv'
BY DEF StoreInv, StorePlaces, StoreOrder, StoreDue, RetainedServedBriefly, Due,
       Follows, storeVars, Young, CountedOut

\* The store's inductive invariant, for any artifacts, count, age and clock.
THEOREM StoreInvariant == StoreSpec => []StoreInv
PROOF
<1>1. StoreInit => StoreInv
    BY StoreInitInv
<1>2. StoreInv /\ [StoreNext]_storeVars => StoreInv'
  <2>1. SUFFICES ASSUME StoreInv, [StoreNext]_storeVars PROVE StoreInv'
      OBVIOUS
  <2>2. CASE Tick
      BY <2>1, <2>2, TickInv
  <2>3. CASE Retire
      BY <2>1, <2>3, RetireInv
  <2>4. CASE Sweep
      BY <2>1, <2>4, SweepInv
  <2>5. ASSUME NEW d \in Digests, Supersede(d) PROVE StoreInv'
      BY <2>1, <2>5, SwapInv
  <2>6. CASE UNCHANGED storeVars
      BY <2>1, <2>6, StoreStutter
  <2> QED
      BY <2>1, <2>2, <2>3, <2>4, <2>5, <2>6 DEF StoreNext
<1> QED
    BY <1>1, <1>2, PTL DEF StoreSpec

\* The slice of retired generations stays within its array, within the count,
\* and never reaches a place that was set to nil.
THEOREM StoreTypeCorrect == StoreSpec => []StoreTypeOK
PROOF
<1>1. StoreInv => StoreTypeOK
  <2> SUFFICES ASSUME StoreInv PROVE StoreTypeOK
      OBVIOUS
  <2>1. StorePlaces
      BY DEF StoreInv
  <2>2. array \in Seq(Generation \cup {NoGen}) /\ Len(array) \in Nat
      BY <2>1 DEF StorePlaces
  <2>3. /\ \A i \in DOMAIN array : array[i] \in Generation \cup {NoGen}
        /\ len \in 0..Len(array)
      BY <2>1, <2>2 DEF StorePlaces
  <2> QED
      BY <2>1, <2>3 DEF StorePlaces, StoreTypeOK
<1> QED
    BY <1>1, StoreInvariant, PTL

\* Each generation the store lists was superseded by the one listed before it,
\* or by one dropped since: newest first, and never the one being served.
THEOREM StoreNewestFirst == StoreSpec => []NewestFirst
PROOF
<1>1. StoreInv => NewestFirst
  <2> SUFFICES ASSUME StoreInv PROVE NewestFirst
      OBVIOUS
  <2>1. \E h, listed : h = retired
          /\ listed = (IF current = NoGen THEN <<>> ELSE <<current>>)
                      \o (IF prev = NoGen THEN <<>> ELSE <<prev>>) \o retired
      OBVIOUS
  <2>2. PICK h, listed : h = retired
          /\ listed = (IF current = NoGen THEN <<>> ELSE <<current>>)
                      \o (IF prev = NoGen THEN <<>> ELSE <<prev>>) \o h
      BY <2>1
  <2>3. Ready(h, prev) /\ Len(h) = len /\ h \in Seq(Generation)
      BY <2>2, HeldReady DEF Ready
  <2>4. SUFFICES \A i, j \in DOMAIN listed : i < j => Follows(listed[i], listed[j])
    <3>1. listed = (IF current = NoGen THEN <<>> ELSE <<current>>)
                   \o (IF prev = NoGen THEN <<>> ELSE <<prev>>) \o retired
        BY <2>2
    <3> QED
        BY <2>4, <3>1, Zenon DEF NewestFirst, Follows
  <2>5. CASE current = NoGen
    <3>1. prev = NoGen /\ Len(h) = 0
        BY <2>3, <2>5 DEF Ready
    <3>2. listed = <<>> \o <<>> \o h
        BY <2>2, <2>5, <3>1
    <3>3. DOMAIN listed = {}
        BY <2>3, <3>1, <3>2
    <3> QED
        BY <3>3
  <2>6. CASE current # NoGen
    <3>1. current \in Generation
        BY <2>6 DEF StoreInv, StorePlaces
    <3>2. \E t : Ready(t, NoGen) /\ listed = <<current>> \o t
      <4>1. CASE prev = NoGen
        <5>1. listed = <<current>> \o <<>> \o h
            BY <2>2, <2>6, <4>1
        <5>2. listed = <<current>> \o h
            BY <2>3, <3>1, <5>1
        <5> QED
            BY <2>3, <4>1, <5>2
      <4>2. CASE prev # NoGen
        <5>1. listed = <<current>> \o <<prev>> \o h
            BY <2>2, <2>6, <4>2
        <5>2. prev \in Generation
            BY <4>2 DEF StoreInv, StorePlaces
        <5>3. listed = <<current>> \o (<<prev>> \o h)
            BY <2>3, <3>1, <5>1, <5>2
        <5>4. Ready(<<prev>> \o h, NoGen)
            BY <2>2, <4>2, FrontReady
        <5> QED
            BY <5>3, <5>4
      <4> QED
          BY <4>1, <4>2
    <3>3. PICK t : Ready(t, NoGen) /\ listed = <<current>> \o t
        BY <3>2
    <3>4. t \in Seq(Generation) /\ Len(t) \in Nat
        BY <3>3 DEF Ready
    <3>5. /\ DOMAIN listed = 1..Len(t) + 1 /\ listed[1] = current
          /\ \A i \in 1..Len(t) : listed[i + 1] = t[i]
        BY <3>1, <3>3, <3>4
    <3>6. ASSUME NEW i \in 1..Len(t) + 1, NEW j \in 1..Len(t) + 1, i < j
          PROVE  Follows(listed[i], listed[j])
      <4>1. j - 1 \in 1..Len(t) /\ (j - 1) + 1 = j
          BY <3>4, <3>6
      <4>2. listed[j] = t[j - 1]
          BY <3>5, <4>1
      <4>3. CASE i = 1
        <5>1. Follows(current, t[j - 1])
            BY <2>6, <3>3, <4>1 DEF Ready
        <5> QED
            BY <3>5, <4>2, <4>3, <5>1, Zenon
      <4>4. CASE i # 1
        <5>1. i - 1 \in 1..Len(t) /\ (i - 1) + 1 = i /\ i - 1 < j - 1
            BY <3>4, <3>6, <4>4
        <5>2. listed[i] = t[i - 1]
            BY <3>5, <5>1
        <5>3. Follows(t[i - 1], t[j - 1])
            BY <3>3, <4>1, <5>1 DEF Ready
        <5> QED
            BY <4>2, <5>2, <5>3, Zenon
      <4> QED
          BY <4>3, <4>4
    <3> QED
        BY <3>5, <3>6, Zenon
  <2> QED
      BY <2>5, <2>6
<1> QED
    BY <1>1, StoreInvariant, PTL

\* What was superseded is held for what its service left of the TTL, unless the
\* count cut it off (Store.sweepLocked); a catalogue that served as long as the
\* TTL or longer is never there to roll back to.
THEOREM StoreRetainsForTheRest == StoreSpec => []RetainedForTheRest
PROOF
<1>1. StoreInv => RetainedForTheRest
  <2> SUFFICES ASSUME StoreInv PROVE RetainedForTheRest
      OBVIOUS
  <2>1. /\ len <= KeepDepth /\ now \in Nat /\ TTL \in Nat
        /\ \A i \in 1..len : array[i] \in Generation
        /\ \A r \in dropped : r.gen \in Generation /\ r.since \in Nat
      BY DEF StoreInv, StorePlaces
  <2>2. ASSUME NEW g \in Generation PROVE g.at \in Nat
      BY <2>2 DEF Generation
  <2>3. ASSUME NEW r \in dropped, now - r.since < TTL - Served(r)
        PROVE  r.gen = prev \/ (\E i \in 1..len : array[i] = r.gen) \/ CountedOut(r)
    <3>1. r.gen.at \in Nat /\ r.since \in Nat
        BY <2>1, <2>2
    <3>2. Young(r.gen)
        BY <2>1, <2>3, <3>1 DEF Served, Young
    <3>3. Due(r)
        BY DEF StoreInv, StoreDue
    <3> QED
        BY <3>2, <3>3 DEF Due
  <2>4. ASSUME NEW i \in 1..len
        PROVE  \E r \in dropped : r.gen = array[i] /\ Served(r) < TTL
    <3>1. PICK r \in dropped : r.gen = array[i] /\ r.since < array[i].at + TTL
        BY DEF StoreInv, RetainedServedBriefly
    <3>2. r.gen.at \in Nat /\ r.since \in Nat
        BY <2>1, <2>2
    <3>3. Served(r) < TTL
        BY <2>1, <3>1, <3>2 DEF Served
    <3> QED
        BY <3>1, <3>3
  <2> QED
      BY <2>1, <2>3, <2>4 DEF RetainedForTheRest
<1> QED
    BY <1>1, StoreInvariant, PTL

\* However long the process runs, the store's array, and with it what the
\* collector cannot take, never has more than one place above the count.
THEOREM StoreArrayBounded == StoreSpec => [](Len(array) <= KeepDepth + 1)
PROOF
<1>1. StoreInv => Len(array) <= KeepDepth + 1
    BY DEF StoreInv, StorePlaces
<1> QED
    BY <1>1, StoreInvariant, PTL
================================================================================

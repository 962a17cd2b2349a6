---------------------------- MODULE CatalogueReload ----------------------------
(***************************************************************************)
(* A catalogue reload under traffic.                                       *)
(*                                                                         *)
(* The poller (internal/reload) asks the object store for an ETag, fetches *)
(* the object when the ETag is news, judges the bytes, swaps them into the *)
(* catalogue store, publishes the chain built for them and last the        *)
(* taxonomy.  Requests (internal/serve) meanwhile read the current         *)
(* generation once, take or build the chain for it, fold the token against *)
(* that chain's registry and are judged.  The object store is replaced     *)
(* under the poller's feet, between its HEAD and its GET too.              *)
(*                                                                         *)
(* A catalogue's bytes are a member of Bodies and its digest is the bytes. *)
(* A generation is its position in gens: a generation is loaded after the  *)
(* one it supersedes, so the position is the order of LoadedAt, and        *)
(* pointer identity of two *Catalogue values is equality of positions.     *)
(***************************************************************************)
EXTENDS Naturals, Sequences

CONSTANTS
    Requests,   \* concurrent calls
    Poller,     \* the reload goroutine
    Free,       \* buildMu when nobody holds it
    ETags,      \* the ETags the object store hands out
    NoETag,     \* ""
    Bodies,     \* catalogue artifacts
    NoBody,     \* a nil body
    BodyOf,     \* the bytes stored under an ETag
    Verdict,    \* what this deployment answers about an artifact
    MaxPuts     \* bound: writes to the bucket

\* The pre-flight's answers, in the order the code asks for them.  "limit" is
\* the store's own MaxTools refusal, which comes after the pre-flight.
Verdicts ==
    {"too_large", "load", "taxonomy", "admit", "check", "limit", "ok"}

ASSUME ConstantsAssumption ==
    /\ BodyOf \in [ETags -> Bodies]
    /\ Verdict \in [Bodies -> Verdicts]
    /\ NoETag \notin ETags
    /\ NoBody \notin Bodies
    /\ Poller \notin Requests
    /\ Free \notin Requests \cup {Poller}
    /\ MaxPuts \in Nat

Governable == {b \in Bodies : Verdict[b] = "ok"}

VARIABLES
    bucket,     \* the ETag of the object in the store
    puts,       \* writes so far
    gens,       \* catalogue.Store: every generation that became current
    plane,      \* Handler.plane: the generation of the published chain
    taxonomy,   \* authn.Swappable: the generation of the fallback registry
    buildMu,    \* Handler.buildMu: who is building a chain
    poll,       \* Poller.Once: where it is and what it holds
    etag,       \* Poller.etag
    last,       \* Poller.last: the object that was refused
    req,        \* the calls in flight
    torn        \* history: ETags whose GET returned another object's bytes

procVars == <<gens, plane, taxonomy, buildMu>>
vars == <<bucket, puts, gens, plane, taxonomy, buildMu, poll, etag, last,
          req, torn>>

Current == Len(gens)

NoRefusal == [etag |-> NoETag, body |-> NoBody]
Idle == [pc |-> "idle", seen |-> NoETag, body |-> NoBody]
NoCall == [pc |-> "idle", cat |-> 0, core |-> 0, reg |-> 0]

Init ==
    /\ bucket \in ETags
    /\ puts = 0
    \* Boot read the object, mounted it and published chain and taxonomy.
    /\ gens \in {<<b>> : b \in Governable}
    /\ plane = 1
    /\ taxonomy = 1
    /\ buildMu = Free
    /\ poll = Idle
    /\ etag = NoETag
    /\ last = NoRefusal
    /\ req = [r \in Requests |-> NoCall]
    /\ torn = {}

--------------------------------------------------------------------------------
(* The object store.  An ETag names bytes: storing the same bytes again may *)
(* bring back the ETag they had.                                            *)

Put(e) ==
    /\ puts < MaxPuts
    /\ e # bucket
    /\ bucket' = e
    /\ puts' = puts + 1
    /\ UNCHANGED <<procVars, poll, etag, last, req, torn>>

--------------------------------------------------------------------------------
(* The chain cache.  plane is read without the lock, built under it.        *)

\* The chain published for generation g is there to be taken.
PlaneHit(g) == plane = g

\* A miss takes the lock and looks again before it builds.
StartBuild(c, g) ==
    /\ plane # g
    /\ buildMu = Free
    /\ buildMu' = c

\* Publishing without looking at what is there.
PublishAlways(c, g) ==
    /\ buildMu = c
    /\ plane' = g
    /\ buildMu' = Free

\* An early return that skips the unlock.
UnlockOnlyIfPublished(c, g) ==
    /\ buildMu = c
    /\ plane' = IF plane <= g THEN g ELSE plane
    /\ buildMu' = IF plane <= g THEN Free ELSE c

\* Publish what was built unless it is older than what is there, then unlock.
FinishBuild(c, g) ==
    /\ buildMu = c
    /\ plane' = IF plane <= g THEN g ELSE plane
    /\ buildMu' = Free

--------------------------------------------------------------------------------
(* Poller.Once.                                                             *)

\* HEAD shows the object being served: whatever was refused is dropped.  A
\* HEAD that fails, reports no ETag, or shows the oversized object already
\* refused returns Kept and changes nothing: a stuttering step.
PollUnchanged ==
    /\ poll.pc = "idle"
    /\ bucket = etag
    /\ last' = NoRefusal
    /\ UNCHANGED <<bucket, puts, procVars, poll, etag, req, torn>>

\* HEAD shows the object already refused: reconsider the bytes in hand.
PollReconsider ==
    /\ poll.pc = "idle"
    /\ bucket # etag
    /\ last.etag = bucket
    /\ last.body # NoBody
    /\ poll' = [pc |-> "judge", seen |-> bucket, body |-> last.body]
    /\ UNCHANGED <<bucket, puts, procVars, etag, last, req, torn>>

\* HEAD shows an object not seen before: drop the refused one, go and fetch.
PollChanged ==
    /\ poll.pc = "idle"
    /\ bucket # etag
    /\ last.etag # bucket
    /\ poll' = [pc |-> "get", seen |-> bucket, body |-> NoBody]
    /\ last' = NoRefusal
    /\ UNCHANGED <<bucket, puts, procVars, etag, req, torn>>

\* The GET is a second request: it returns whatever the bucket holds by now.
Torn == IF BodyOf[poll.seen] = BodyOf[bucket] THEN torn ELSE torn \cup {poll.seen}

Get ==
    /\ poll.pc = "get"
    /\ Verdict[BodyOf[bucket]] # "too_large"
    /\ poll' = [poll EXCEPT !.pc = "judge", !.body = BodyOf[bucket]]
    /\ torn' = Torn
    /\ UNCHANGED <<bucket, puts, procVars, etag, last, req>>

GetTooLarge ==
    /\ poll.pc = "get"
    /\ Verdict[BodyOf[bucket]] = "too_large"
    /\ last' = [etag |-> poll.seen, body |-> NoBody]
    /\ poll' = Idle
    /\ torn' = Torn
    /\ UNCHANGED <<bucket, puts, procVars, etag, req>>

\* A failed GET remembered like a refusal.
GetFailureRemembered ==
    /\ poll.pc = "get"
    /\ last' = [etag |-> poll.seen, body |-> NoBody]
    /\ poll' = Idle
    /\ UNCHANGED <<bucket, puts, procVars, etag, req, torn>>

\* The GET fails: nothing is remembered, so the next poll tries again.
GetFails ==
    /\ poll.pc = "get"
    /\ poll' = Idle
    /\ UNCHANGED <<bucket, puts, procVars, etag, last, req, torn>>

\* The digest decides: these bytes are the ones being served.
JudgeSame ==
    /\ poll.pc = "judge"
    /\ poll.body = gens[Current]
    /\ last' = NoRefusal
    /\ etag' = poll.seen
    /\ poll' = Idle
    /\ UNCHANGED <<bucket, puts, procVars, req, torn>>

\* A refusal that also records the ETag as the one being served.
RefuseRemembersETag ==
    /\ poll.pc = "judge"
    /\ poll.body # gens[Current]
    /\ Verdict[poll.body] # "ok"
    /\ last' = [etag |-> poll.seen, body |-> poll.body]
    /\ etag' = poll.seen
    /\ poll' = Idle
    /\ UNCHANGED <<bucket, puts, procVars, req, torn>>

\* Load, NewRegistry, Admit, Check or the store's tool limit says no.
JudgeRefuse ==
    /\ poll.pc = "judge"
    /\ poll.body # gens[Current]
    /\ Verdict[poll.body] # "ok"
    /\ last' = [etag |-> poll.seen, body |-> poll.body]
    /\ poll' = Idle
    /\ UNCHANGED <<bucket, puts, procVars, etag, req, torn>>

\* Every check says yes.  Until the swap is complete the object is remembered
\* as refused, so that a failure after this point is retried from the bytes.
JudgeAccept ==
    /\ poll.pc = "judge"
    /\ poll.body # gens[Current]
    /\ Verdict[poll.body] = "ok"
    /\ last' = [etag |-> poll.seen, body |-> poll.body]
    /\ poll' = [poll EXCEPT !.pc = "swap"]
    /\ UNCHANGED <<bucket, puts, procVars, etag, req, torn>>

\* A swap that reads the object once more.
SwapRereads ==
    /\ poll.pc = "swap"
    /\ gens' = Append(gens, BodyOf[bucket])
    /\ poll' = [poll EXCEPT !.pc = "prepare"]
    /\ UNCHANGED <<bucket, puts, plane, taxonomy, buildMu, etag, last, req, torn>>

\* Store.Reload over the bytes that were judged.
Swap ==
    /\ poll.pc = "swap"
    /\ gens' = Append(gens, poll.body)
    /\ poll' = [poll EXCEPT !.pc = "prepare"]
    /\ UNCHANGED <<bucket, puts, plane, taxonomy, buildMu, etag, last, req, torn>>

\* Handler.Prepare of the generation just made current.
PrepareHit ==
    /\ poll.pc = "prepare"
    /\ PlaneHit(Current)
    /\ poll' = [poll EXCEPT !.pc = "set"]
    /\ UNCHANGED <<bucket, puts, procVars, etag, last, req, torn>>

PrepareBuild ==
    /\ poll.pc = "prepare"
    /\ StartBuild(Poller, Current)
    /\ poll' = [poll EXCEPT !.pc = "build"]
    /\ UNCHANGED <<bucket, puts, gens, plane, taxonomy, etag, last, req, torn>>

PreparePublish ==
    /\ poll.pc = "build"
    /\ FinishBuild(Poller, Current)
    /\ poll' = [poll EXCEPT !.pc = "set"]
    /\ UNCHANGED <<bucket, puts, gens, taxonomy, etag, last, req, torn>>

\* The taxonomy left at the previous generation.
SetTaxonomyNever ==
    /\ poll.pc = "set"
    /\ last' = NoRefusal
    /\ etag' = poll.seen
    /\ poll' = Idle
    /\ UNCHANGED <<bucket, puts, gens, plane, taxonomy, buildMu, req, torn>>

\* Compartments.Set, then the poller's own bookkeeping.
SetTaxonomy ==
    /\ poll.pc = "set"
    /\ taxonomy' = Current
    /\ last' = NoRefusal
    /\ etag' = poll.seen
    /\ poll' = Idle
    /\ UNCHANGED <<bucket, puts, gens, plane, buildMu, req, torn>>

PollStart == PollUnchanged \/ PollReconsider \/ PollChanged
PollRest ==
    \/ GetTooLarge \/ JudgeSame \/ JudgeRefuse \/ JudgeAccept
    \/ Swap \/ PrepareHit \/ PreparePublish \/ SetTaxonomy

Poll == PollStart \/ Get \/ GetFails \/ PrepareBuild \/ PollRest

--------------------------------------------------------------------------------
(* Handler.ServeHTTP.                                                       *)

\* One read of the catalogue, at the start, held for the whole request.
Arrive(r) ==
    /\ req[r].pc = "idle"
    /\ req' = [req EXCEPT ![r] = [pc |-> "plane", cat |-> Current, core |-> 0, reg |-> 0]]
    /\ UNCHANGED <<bucket, puts, procVars, poll, etag, last, torn>>

TakePlane(r) ==
    /\ req[r].pc = "plane"
    /\ PlaneHit(req[r].cat)
    /\ req' = [req EXCEPT ![r] = [@ EXCEPT !.pc = "fold", !.core = plane]]
    /\ UNCHANGED <<bucket, puts, procVars, poll, etag, last, torn>>

BuildPlane(r) ==
    /\ req[r].pc = "plane"
    /\ StartBuild(r, req[r].cat)
    /\ req' = [req EXCEPT ![r].pc = "build"]
    /\ UNCHANGED <<bucket, puts, gens, plane, taxonomy, poll, etag, last, torn>>

\* The caller gets the chain it built, published or not.
PublishPlane(r) ==
    /\ req[r].pc = "build"
    /\ FinishBuild(r, req[r].cat)
    /\ req' = [req EXCEPT ![r] = [@ EXCEPT !.pc = "fold", !.core = req[r].cat]]
    /\ UNCHANGED <<bucket, puts, gens, taxonomy, poll, etag, last, torn>>

\* The verifier's own registry, whatever was pinned.
FallbackRegistry(r) == taxonomy

\* Verifier.compartments: the registry pinned by WithRegistry outranks the
\* verifier's own.
PinnedRegistry(r) == req[r].core

\* Step 1: the token's compartments become bits of one registry.
Fold(r) ==
    /\ req[r].pc = "fold"
    /\ req' = [req EXCEPT
            ![r] = [@ EXCEPT !.pc = "invoke", !.reg = PinnedRegistry(r)]]
    /\ UNCHANGED <<bucket, puts, procVars, poll, etag, last, torn>>

\* Lookup in cat, then the chain of core, over a principal folded with reg.
\* Every early answer (no principal, no route, no body) ends the call too.
Answer(r) ==
    /\ req[r].pc = "invoke"
    /\ req' = [req EXCEPT ![r] = NoCall]
    /\ UNCHANGED <<bucket, puts, procVars, poll, etag, last, torn>>

Serve(r) ==
    Arrive(r) \/ TakePlane(r) \/ BuildPlane(r) \/ PublishPlane(r) \/ Fold(r)
    \/ Answer(r)

--------------------------------------------------------------------------------
Next ==
    \/ \E e \in ETags : Put(e)
    \/ Poll
    \/ \E r \in Requests : Serve(r)

Spec == Init /\ [][Next]_vars

(* The ticker polls for as long as the process runs; a fetch that is retried *)
(* on every poll is answered in the end; the Go mutex hands the lock to a    *)
(* waiter in the end.  Nobody promises that a request arrives or that the    *)
(* bucket changes.                                                           *)
Fairness ==
    /\ WF_vars(PollStart)
    /\ SF_vars(Get)
    /\ WF_vars(PollRest)
    /\ SF_vars(PrepareBuild)
    /\ \A r \in Requests :
        /\ WF_vars(TakePlane(r) \/ PublishPlane(r) \/ Fold(r) \/ Answer(r))
        /\ SF_vars(BuildPlane(r))

FairSpec == Spec /\ Fairness
--------------------------------------------------------------------------------
(* Properties.                                                              *)

PollPCs == {"idle", "get", "judge", "swap", "prepare", "build", "set"}
CallPCs == {"idle", "plane", "build", "fold", "invoke"}

\* Every variable holds what its Go counterpart can hold; a generation named
\* anywhere is one that became current.
TypeOK ==
    /\ bucket \in ETags
    /\ puts \in 0..MaxPuts
    /\ gens \in Seq(Bodies) /\ Current >= 1
    /\ plane \in 1..Current
    /\ taxonomy \in 1..Current
    /\ buildMu \in Requests \cup {Poller, Free}
    /\ poll \in [pc : PollPCs, seen : ETags \cup {NoETag},
                 body : Bodies \cup {NoBody}]
    /\ etag \in ETags \cup {NoETag}
    /\ last \in [etag : ETags \cup {NoETag}, body : Bodies \cup {NoBody}]
    /\ req \in [Requests -> [pc : CallPCs, cat : 0..Current, core : 0..Current,
                             reg : 0..Current]]
    /\ torn \in SUBSET ETags

\* "A bad catalogue never becomes current" (store.go, Reload): every
\* generation ever served passed the whole pre-flight of this deployment,
\* although the bucket may change between the check and the swap.
OnlyGovernedServed == \A g \in 1..Current : Verdict[gens[g]] = "ok"

\* Outside the few lines of Once between the swap and Set, the published
\* chain and the fallback taxonomy are the current generation's, whatever
\* stragglers of the previous generation are still building; inside them the
\* taxonomy trails by exactly one.
PlaneAndTaxonomyAgree ==
    IF poll.pc \in {"prepare", "build", "set"}
    THEN /\ taxonomy = Current - 1
         /\ poll.pc = "set" => plane = Current
    ELSE plane = Current /\ taxonomy = Current

\* A request that straddles a reload never puts the outgoing chain back
\* (plane.go, planeFor): the published chain only moves forward.
PlaneNeverGoesBack == [][plane' >= plane]_plane

\* Only the goroutine that holds buildMu is building, so a reload never has
\* two goroutines compiling plans at once.
OneBuilder ==
    /\ \A r \in Requests : req[r].pc = "build" <=> buildMu = r
    /\ poll.pc = "build" <=> buildMu = Poller

\* "etag of the generation now serving" (reload.go, Poller): unless the
\* object was replaced between a HEAD and its GET, the remembered ETag names
\* the bytes being served and a remembered refusal names the bytes refused.
ETagNamesServing ==
    /\ etag \notin torn \cup {NoETag} => BodyOf[etag] = gens[Current]
                                          \/ poll.pc \in {"prepare", "build", "set"}
    /\ last.etag \notin torn \cup {NoETag} /\ last.body # NoBody
          => BodyOf[last.etag] = last.body

\* The abstract promise: calls live on one generation each and only governable
\* catalogues are adopted.  A call's generation is read off the value it used
\* last: the catalogue, then the chain, then the registry.
CallGeneration(r) ==
    CASE req[r].pc = "idle" -> 0
      [] req[r].pc \in {"plane", "build"} -> req[r].cat
      [] req[r].pc = "fold" -> req[r].core
      [] req[r].pc = "invoke" -> req[r].reg

Promise == INSTANCE Generations WITH
    served <- gens,
    call <- [r \in Requests |-> CallGeneration(r)]

\* Every behaviour of the reload is one the abstract specification allows: a
\* call is routed, folded and judged on the generation current at its arrival.
KeepsPromise == Promise!Spec

\* A governable object that settles in the bucket under an ETag that was never
\* torn is served in the end.
ConvergesUnlessTorn ==
    \A e \in ETags :
        <>[](bucket = e /\ e \notin torn /\ Verdict[BodyOf[e]] = "ok")
            => <>[](gens[Current] = BodyOf[e])

\* A governable object that settles in the bucket is served in the end.
Converges ==
    \A e \in ETags :
        <>[](bucket = e /\ Verdict[BodyOf[e]] = "ok")
            => <>[](gens[Current] = BodyOf[e])

\* No call waits for ever for a chain: whoever holds buildMu lets it go and
\* the waiters get their turn, under any run of reloads.
CallsFinish == \A r \in Requests : req[r].pc # "idle" ~> req[r].pc = "idle"
================================================================================

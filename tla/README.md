# A TLA+ model of garmd

garmd is a policy-enforcing proxy between an agent and the tools it may call.
This directory models the parts of it that run concurrently, that fail in
halves, or whose answer depends on an order of steps: TLA+ modules, the TLC
configurations that check them, and theorems that TLAPS checks.  `PROJECT.json`
maps every definition to the lines it translates and lists runs, mutants,
findings, hazards and theorems.

    tlc -config MCReload.cfg MCReload          # one run
    tlapm CatalogueReloadProofs.tla            # the proofs, and likewise
    tlapm ToolCallerProofs.tla                 # LifecycleProofs, KeySetProofs,
    tlapm InvokeChainProofs.tla                # GrantReplayProofs, ReconcilerProofs
    tlapm CardProjectionProofs.tla

## 1. The system

| part | state | operations | talks to |
|---|---|---|---|
| reload poller `internal/reload` | remembered ETag, remembered refusal | `Once`: HEAD, GET, judge, swap, prepare, set | S3, store, chain cache, taxonomy |
| catalogue store `internal/catalogue/store.go` | current generation, retired ones | `Current`, `Reload`, `Sweep`, `Generations` | poller, handler, reconciler |
| handler and chain cache `internal/serve` | published chain, `buildMu` | `ServeHTTP`, `planeFor`, `Prepare`, `Check` | store, verifier, core |
| token verifier `internal/authn` | key sets, fallback registry | `Verify`, `Fold`, `Key`, `compartments` | the issuers' JWKS endpoints |
| listing and field policy `internal/serve/listtools.go`, `internal/toolplane` | the schema cache of a generation | `listTools`, `Catalog`, `SchemaFor`, `checkInputWrites`, `admittedViolations`, `Narrow` | the handler, the chain |
| the chain `internal/toolplane` | one frame per call | `invoke` and its deferred function | grants, audit, transport, recorder |
| card projection `sanitise.go` | one walk per response | `validate`, `projectCard`, `projectNode` | the chain's step 8 |
| approval grants `grants.go`, `internal/grants`, `internal/replay` | the replay bucket, the retention remembered at boot | `verify`, `Spend`, `CheckRetention` | NATS KV, other replicas |
| ledger recorder `internal/record/jetstream` | open and sealed batches, a counter | `Record`, flusher, `Close` | JetStream, the fallback |
| audit sink `internal/audit/jetstream` | none; the stream deduplicates | `Write` | JetStream |
| reconciler `internal/serve/reconcile.go` | quarantined packages | `sweep`, `Quarantined` | discovery over NATS micro |
| transport `internal/transport` | none | `Invoke`, `Services` | the tools |
| lifecycle `serve.go` | the goroutines | boot, listen, drain, close | all |

What is hard here, part by part:

* **Reload.**  The object changes under the poller, between HEAD and GET too.
  Requests of the previous generation are still building chains while the new
  one is published.  Three values (catalogue, chain, taxonomy) are published
  one after the other.  Correct means: only governable catalogues are served,
  a call lives on one generation, the chain never moves back, and what settles
  in the bucket is served.
* **The chain.**  A side effect sits between two audit messages, each of which
  can fail alone; the caller can leave, the process can die.  Correct means:
  one ledger row per call, the intent before the effect of a fail-closed tool,
  one effect per approval.
* **Grants.**  The record that an approval was used expires, and replicas share
  the bucket it is in.  Correct means: the record outlives the approval.
* **Recorder.**  Record, flusher and Close share a buffer and a counter, and a
  publish has three outcomes.  Correct means: no row lost, sent twice or
  reordered within a tenant, and a counter that does not drift.
* **Callers.**  A key set is chosen from a payload nothing has verified; a chain
  of delegations is folded level by level, where no scope and an empty scope
  are different things; the listing, step 3 and the wording of violations each
  walk the same policy in their own way, over objects requests share.  Correct
  means: nobody is served on another issuer's word, a chain grants what all of
  its hops grant, and the three walks draw one line.
* **Lifecycle.**  Signals, a listener that fails and a drain that runs out meet
  calls in flight and a ledger that is flushed last.  Correct means: an
  answered call has its row, and the process ends.
* **Reconciler.**  Silence is ambiguous.  Correct means: a verdict is lifted on
  evidence only, and is lifted in the end.
* **Key set, store, cards.**  Windows measured from the wrong instant, slices
  sharing an array, labels compared one level at a time.

`PROJECT.json` lists these as hazards at the line where each bites.

## 2. Modules

| module | models | composed of / used by |
|---|---|---|
| `Generations` | abstract: a history of governable catalogues, a call on one of them | refined by `CatalogueReload` |
| `CatalogueReload` | poller, store swap, chain cache, taxonomy and requests together | the core of the project |
| `CatalogueReloadProofs` | the theorems about it, and about the store's retention | extends both |
| `CatalogueStore` | retention of superseded generations, with the slice's backing array | the store of `CatalogueReload`, its retention added |
| `LedgerRecorder` | Record, flusher, Close | extended by `Lifecycle` |
| `Lifecycle` | the process around its ledger: boot, listener, signal, drain, deferred closes, calls in flight | composes `LedgerRecorder` with `Serve` |
| `LifecycleProofs` | the theorems about both | extends it |
| `InvokeChain` | one frame per call, the ledger, the audit stream, the replay cache, the wire | calls interleaved |
| `InvokeChainProofs` | the theorems about it | extends it |
| `GrantReplay` | replicas, their catalogues, the shared bucket, time | the replay cache of `InvokeChain`, with expiry |
| `ReplayKey` | the encoding of an id as a bucket key, an operator | used by `GrantReplay` |
| `GrantReplayProofs` | the theorems about both | extends it |
| `Reconciler` | a sweep over a plane, with discovery's rounds | |
| `ReconcilerProofs` | the theorems about it | extends it |
| `KeySet` | the JWKS cache and an issuer | |
| `KeySetProofs` | the theorems about it | extends it |
| `CardProjection` | the card walk over forests of labelled nodes | the `sanitize` step of `InvokeChain`, in detail |
| `CardProjectionProofs` | the theorems about it | extends it |
| `Authority` | the fold of a chain, the visibility rule, the narrowing of a principal: operators | used by `ToolCaller` |
| `FieldView` | projection, step 3 and the admission of violations over one field policy: operators | used by `ToolCaller` |
| `ToolCaller` | requests from token to answer, and the schema cache they share | extends `Authority` and `FieldView`; steps 1 to 3 of `InvokeChain`, in detail |
| `ToolCallerProofs` | the theorems about it | extends it |

`MC*` modules give constants their values.  Beside some definitions stands a
variant with a small plausible mistake (`PublishAlways` before `FinishBuild`,
say), with a comment naming the mistake.  No specification uses them; they show,
property by property, what the property would catch.

### How state and actions correspond to the code

**CatalogueReload.**  `bucket` is the object store; `gens` every generation
that became current, so a generation's position is its `LoadedAt` order and
pointer identity is equality of positions; `plane` and `buildMu` are
`Handler.plane` and `Handler.buildMu`; `taxonomy` is `authn.Swappable`; `poll`,
`etag`, `last` are `Poller.Once`'s locals and fields.  One action per stretch
of `Once` between two points where another goroutine or the bucket can move:
HEAD (`PollUnchanged`, `PollReconsider`, `PollChanged`), GET (`Get`,
`GetTooLarge`, `GetFails`), the pre-flight (`JudgeSame`, `JudgeRefuse`,
`JudgeAccept`), `Swap`, `Prepare*`, `SetTaxonomy`.  A request is `Arrive`,
`TakePlane` or `BuildPlane`/`PublishPlane`, `Fold`, `Answer`.  The verdict on an
artifact is a constant: in one process the loader, the guard and the mount check
are functions of the bytes and of configuration fixed at boot, so a
reconsidered refusal refuses again here.  `torn` is a history variable.

**CatalogueStore.**  `array` and `len` are the retired slice; `Supersede` and
`Retire` are the two halves of `Reload` around its lock; `Sweep` is `Sweep` and
`Generations` of other goroutines.  `sweepLocked` is `Truncated`, then `Kept`,
the loop over the slice as a function of the places it has passed.  `dropped`
is a history variable: what was superseded, and when.

**LedgerRecorder.**  `open`, `ready`, `buffered`, `closed` and `wake` are the
recorder's fields.  `publishReady` is `Take`, `Publish`, `Settle`, because the
lock is dropped between them; a publish is acknowledged, refused, or stored
without its acknowledgement.

**Lifecycle.**  `main` is where `Serve` is, `drain` the goroutine that calls
`Shutdown`, `cut` whether its fifteen seconds ran out.  A call is one row; it is
accepted while the listener runs, or on a connection that outlives a listener
that failed, and answered, after its row was handed to
`Record`, any time before the process is gone - also while the recorder is
being closed, because `Shutdown` giving up stops nobody.  The deferred calls run
in reverse: `CloseRecord`, the steps of `Close`, then `Disconnect`.  A listener
that fails goes there at once.  The audit sink holds nothing back and is not in
this module.

**InvokeChain.**  `call[c].at` is where `invoke` is; each external question is
a step.  `Return` enters the deferred function, whose two writes are `record`
and `auditOutcome`.  `ToolRuns` happens whenever the request is on the wire,
also after the caller has left.  Policies, authorization and validation answer
nondeterministically: which calls they refuse is not the subject here.

**GrantReplay.**  Discrete time; `ttl` and `spentAt` are the bucket, `retention`
what a replica read back at boot.  `Boot` includes the sizing and
`CreateOrUpdateKeyValue`; `Reload` is guarded by `reloadGuard`; `Check` and
`Spend` are the two ends of `verify`.

**Reconciler.**  `sweep` holds the round in progress.  `Ping` and `Info` choose
what was heard and whether the transport knows that something was lost; `Apply`
is `sweep`'s conclusion.

**KeySet.**  Clocks are what is left of each window, so the model is finite
without a bound on time.  A fetch is `StartFetch`, `Replies`, `Fetched` or
`FetchFails`: what is cached is what the issuer published when it replied.

**CardProjection.**  A response is a forest numbered in document order.  Messages
without a label are transparent to the walk, so they are not nodes.  `open` is
the recursion of `projectNode`, with the mark each frame took.

**ToolCaller.**  `at[r]` is where a request is.  `Select` is `trustedFor` on the
unverified payload, `Admit` the rest of `Verify` up to the fold, `Refuse` any of
its refusals, `FoldLevel` one turn of `Fold`'s loop.  `token.selects` and
`token.iss` are two fields because the code reads the issuer twice, by two
parsers that need not agree.  `principal.scope.scoped` is `ToolSets != nil`.
`schemaCache.get` is `CacheHit`, or `CacheMiss` and later `CachePublish`,
because the projection is built between two holds of the lock; an object is
named by its key and its builder, and `heap` has what it says.  `Call` is steps
2 and 3 and validation.  A request is one set of fields per element of a
collection, so a walk that looks at one element is told apart from one that
looks at all.  Which rules a request breaks is a choice.  A rule has the path
`celRuleFor` classifies it by, which need not say whether it is an expression:
`admitted` reads the references of what that path makes a CEL rule, and of
nothing else.  `Narrow` is exported
and has no caller in the daemon; it is an operator, checked on every principal
that comes out of the fold.

## 3. Runs

Passing runs:

| run | shows | bounds |
|---|---|---|
| `reload` | safety of the reload, the refinement of `Generations`, convergence, no starvation | 2 requests, 4 ETags over 4 artifacts (two good, one ungovernable, one too large), 2 puts: enough for a replacement between HEAD and GET followed by one that puts the old object back |
| `lifecycle` | no row lost, doubled or reordered, the flush after the drain and before the disconnect, answered calls keep their rows; rows are written and a signalled process ends | 3 calls (one row over the byte bound) of 2 tenants, batches of 2, buffer of 2: a batch overflows by bytes (by count it would take a fourth row, and seals the same way), the ceiling is reached, and calls still run when the drain ends |
| `callers` | admission, fold, preview, one line through listing, step 3 and violations, the shared cache | 2 requests; every pairing of selected issuer, claimed issuer, key and kid of two issuers; all chains of one or two hops of four, of three that start at a user, and of four and five; 3 tools over 2 messages, 3 fields, 2 elements; rules that are found or not, traced or not, under each kind of rule path |
| `grants` | the bucket outlasts approvals, one use each, no collision of keys | 2 replicas, 2 approvals whose ids differ in an escaped character, 5 catalogues, clock to 6: a record is made, expires, and the approval's last moment passes |
| `invoke` | chain, audit and approval safety | 2 calls, 3 tools (fail-closed and gated, gated, audited open), 1 approval both may present |
| `reconciler` | verdicts lifted on evidence, and in the end | 2+2 instances of two services that share a package, 2 catalogues, 2 changes and 2 lossy rounds |
| `store` | newest first; what was superseded stays for what its service left of the TTL, unless counted out | 2 digests, depth 2, TTL 4, clock to 7: one more generation than the count holds, each grows too old, and one can serve the TTL out before it is superseded |
| `key_set` | withdrawn keys die, rotations are picked up | 2 kids, TTL 3, cooldown 2, fetch time 2 |
| `cards` | projection, refusal and disclosure | all 14 forests of 4 nodes, 6 labels per node, 2 floors, 4 readers |

Deadlock is checked except where the modelled thing ends: a process, a finite
set of calls or requests, a walk.  Symmetry is used over replicas and calls, in
runs without liveness properties.

### Findings

Each is a run whose one property states what a comment says and the code as
modelled violates.

* `reload_converges` - the poller stores the bytes of a GET under the ETag of
  the HEAD before it.  Replace the object in between and put it back later: the
  remembered ETag names the object in the bucket, other bytes are served, and
  every poll says Unchanged.
* `grants_rolling` - the replica that boots last sets the shared bucket's TTL,
  so a shorter ceiling expires records another replica still needs.
* `reconciler_silent` - a service counted by PING and wholly silent on INFO
  leaves no service name for its package, and its quarantine is lifted.

Met while modelling and kept out of the runs; the model is as the code is:

* `replay/jetstream.go:118` admits the dot, which is also the escape character,
  so `:` and `.3a` share a key (`DotsCollide`).  The ids of the `grants` run have
  no dot, and without one no two ids share a key (`KeysTellApart`).
* `core.go:507-511` reads meaning into a lone audit message.  A tool that does
  not fail closed runs after a lost intent, and an intent whose acknowledgement
  was lost refuses a call that never starts, so neither reading is exact.  What
  holds is `FailClosedWritesAhead` and `AckedOutcomeIsStored`.
* `nats.go:405` compares counts of instances and not their ids, so an instance
  that starts between PING and INFO makes up for one that was not heard;
  `CountedMismatchStands` says when the count is enough.
* `reconcile.go:122` keeps one service per package, the last in name order.
  When two carry it, a short round of the other one no longer holds the
  verdict; `CountedMismatchStands` says what is left.
* `serve.go:369` says "Closed once every in-flight call has finished".  The
  channel is closed when `Shutdown` returns, which is also when fifteen seconds
  are over, and its error is dropped.  `FlushAfterDrain` is stated for a drain
  that did finish; the rows of the others go to the fallback
  (`AnsweredRowsSurvive`).
* `serve.go:346` starts the first sweep beside the listener, so requests are
  served before there is any verdict.
* `core.go:608` spends an approval before availability and the audit write are
  known, so a call refused there has used it up.  The order is deliberate.
* `internal/serve/serve.go:212` calls the answers to an unknown tool and to an
  invisible one indistinguishable; their status is, their code is not
  (`unimplemented`, `not_found`).
* `store.go:198` measures age from loading, where `store.go:58` says the TTL
  drops a generation "once it has been superseded for this long".
  `RetainedForTheRest` states what the code does: what served for s stays for
  TTL - s, and with a TTL of 4 a generation loaded at 0 and superseded at 5 is
  gone as it is retired.  The documented promise, TTL counted from being
  superseded, does not hold; no run of its own shows it, because one step refutes
  it.
  `store.go:193` cuts the slice before the tail is cleared, so what the count
  dropped stays in the array until the next reload (`StoreArrayBounded`).
* `violations.go:64-67` says that a CEL rule "is admitted only when all of" the
  fields it selects are.  `celRuleFor` goes by the rule path: no path, or `cel`
  with an index (`violations.go:130`, `:153-157`).  A CEL expression under any
  other path - a predefined rule; a `cel_expression`, if the library reports it
  under that name, which the repository does not show - is listed with its
  references unread, as a standard constraint is.  An expression that uses `this`
  whole selects nothing, so `celFieldRefs` reports no field and success
  (`violations.go:344-376`).  `FieldView` does as the code does, and
  `ViolationsMatchListing` claims nothing of what either kind reads.
* `jwks.go:140` refetches a cold or stale set without regard to the cooldown.

### Fairness

* Reload: the ticker polls as long as the process runs (weak fairness of each
  step of `Once`); a GET retried on every poll succeeds in the end (strong
  fairness of `Get`); Go's mutex does not starve a waiter (strong fairness of
  taking `buildMu`).  Arrivals and puts are not fair.
* Lifecycle: a `select` picks among ready cases at random, so a case ready again
  and again is taken (strong fairness of `Tick` and `Stopped`); publishes are
  bounded by their timeout, `Shutdown` by its deadline, and `Serve` runs on
  (weak fairness).  Signals, calls and their answers are not fair: a call that
  never finishes is among the behaviours.
* Reconciler: `Run` sweeps on a ticker and each round has a ceiling (weak
  fairness of discovery).
* Key set: time passes, callers keep presenting tokens, and a fetch tried again
  and again is answered in the end.

## 4. Proofs

`CatalogueReloadProofs` proves, for any sets of requests, ETags and artifacts
and any verdicts (`ConstantsAssumption` is the only assumption), type correctness
and every safety property of the `reload` run: `TypeCorrect`, `BadCatalogueNeverServed`,
`ChainAndTaxonomyAgree`, `RememberedETags`, `BuildsExclude`, the action property
`ChainMovesForward`, and the refinement `ReloadKeepsPromise`.

They rest on one inductive invariant, `IInv`.  None of the properties is
inductive alone: that only governable catalogues are served needs to know what
the poller carries between judging and swapping; that the taxonomy trails by
exactly one needs the poller's place; that an untorn ETag names the served bytes
needs the same fact about the ETag the poller has seen and the body it holds;
that a call is folded on the generation it was routed on needs that its chain is
its catalogue's.  `IInv` is their conjunction with what the poller holds at each
place (`PollInv`) and what a call holds at each place (`CallInv`).  The step is
proved in one lemma per group of actions.  The refinement maps a call to the
generation it used last and shows that `Swap` is `Adopt`, `Arrive` is `Begin`,
`Answer` is `End`, and every other step stutters.

The same module proves every property of the `store` run, for any artifacts,
count, age and clock (`StoreAssumption`).  `NewestFirst` is not inductive, because a sweep
moves what is listed: `StoreInv` has each generation in the slice follow every
one before it and not only the one next to it (`StoreOrder`), so any part taken
in order keeps it.  That a sweep takes such a part is `KeptPicks`, by induction
over the loop of `sweepLocked`: what is kept comes from places that increase, is
young, and is everything young.  `RetainedForTheRest` is about what has left the
store and cannot be seen in it, so the argument counts: a generation cut off
stands behind `KeepDepth` others, each of which was superseded and is younger
(`CutOff`), and those stay superseded.  Its other half, that nothing listed had
served the TTL out (`RetainedServedBriefly`), is what counting age from loading
comes to.  `StoreArrayBounded` says that the array behind the slice, which a sweep does not
clear beyond it, has one place more than the count at most.

`ToolCallerProofs` proves every property of the `callers` run, for any number of
requests, any issuers, keys, tokens, chains, tools, policies and rules that
satisfy `AuthorityAssumption`, `FieldAssumption` and `CallerAssumption` (what
mounting a tool and parsing a token check).  Three invariants carry it:

* `IInv`: types, `GenuineAdmitted`, and `FoldInv`, which says what the principal
  is after `level` hops - each part of it in terms of all of those hops.
  `FoldIsMeet` is not inductive: it speaks of tools, and a principal that shows
  the right tools may still hold the wrong sets.  `LevelIsFold` and `MeetIsFold`
  are its two steps, `FoldShowsTheMeet` reads the visibility rule off it.
* `ShareInv`: whatever a request holds for a key is what the cache keeps, and
  the heap has it as the key's projection.  `OneSchemaPerKey` alone forgets that
  a builder who lost the race has thrown its object away.  `SharedUntouched` is
  a part of it: an object is written once, by the builder it is named after.
* `AnswerInv`: what a request has asked for, looked up and answered is decided
  by its own principal.  `ListingMatchesCalls` compares two requests that never
  meet; it follows from each answer being right by itself, with
  `ShownIsWritable` (step 3 admits a request exactly when all of it is in the
  projection) and `ViewIsProjection`.  `ViolationsMatchListing` compares a
  listing with what another request was told of its violations: what was said
  was admitted against the schema of the caller's own shape, and `ShownIsProjected`
  carries that to whoever listed with the same authority.

`LifecycleProofs` proves, for any finite set of tenants, any rows and row sizes
and any bounds of batch and buffer (`RecorderAssumption`), that no row is lost
(`RowsNeverLost`), that the flush follows the drain and precedes the disconnect
(`DrainPrecedesFlush`, `FlushPrecedesDisconnect`), and that an answered call has
its row when the process ends (`AnsweredSurvive`).  `NoRowLost` is not inductive:
settling a publish lets go of a batch, which is safe only because its rows were
written on the way there, and taking one overwrites what `publish` held, which is
safe only because nobody held anything.  `FlushInv` says both, by the places of
the flusher and of `Close`, and that a `Close` past sealing finds nothing open;
`DrainInv` says what the drain has established by the time `Serve` runs its
deferred calls.  At exit the two give an empty buffer, and `AnsweredRecorded` and
`NoRowLost` the rest.  `SealAllKeepsRows` holds for every order in which Go may
walk the map of open batches.

The order of the recorder's rows rests on `OrderInv`, inductive under the
invariant above: wherever two rows of one tenant are - stream, batch being
published, queue, open batch - the older one is further on its way (`RankInv`),
`Record` takes no row twice, and the counter is the number of rows held.
`SubjectOrder` and `NoRowTwice` say nothing of rows that are not written yet, so
neither is inductive.  From it follow `StreamInOrder`, `RowsInOnePlace` and
`CountIsHeld`.

`InvokeChainProofs` proves every property of the `invoke` run for any calls,
tools, audit declarations and approvals.  `IInv` is one conjunction per call:
which row there is at each place of `invoke` and what it says (`RowInv`), that
the intent of a fail-closed tool is in the stream once its effect may happen
(`AheadInv`), what an acknowledgement stands for (`AckInv`), and whose approval
it is (`SpentInv`).  A call's effect can come long after it left the place it
was released at, so each part speaks of a call that is on the wire or has run,
and not of where it is.  A step of one call is proved once, in terms of what it
does to the others (`Apart`, `Grows`).

`GrantReplayProofs` proves, for any replicas, approvals, catalogues, skew, floor
and latency of a spend, that the bucket covers what is served
(`BucketOutlastsApprovals`) and that an approval is used once
(`ApprovalsUsedOnce`).  Both assume `SameSize`: the catalogues replicas are
started with ask for one TTL.  Deployments that roll out a new catalogue need
not, and `grants_rolling` is the counterexample when they do not; a replica that
reloads is not restricted, `reloadGuard` is what keeps it within the bucket.
`SingleUse` needs to know that a record made when an approval was fresh outlives
it, so `IInv` keeps the age of a check in flight (`CallInv`) and that a record
stands for a TTL from the first use on (`RecordInv`).  What is left when boots ask for
different TTLs is proved too: with the shortest of them M and the longest X, the
uses of an approval keep `M * (uses - 1) < X + SpendLatency` (`UsesAreFew`),
whatever is reloaded and whatever crashes.  Its invariant (`SpacedInv`) says that
the record of the last use stands until M after it, though a later boot may
shorten the bucket's TTL, and that a call in flight was checked within X of its
approval; so a rolling deployment can replay an approval a few times and no more,
and `grants_rolling` shows it does.  That a refusal is a replay's
(`OnlyReplaysAreRefused`) needs no `SameSize` but keys that tell ids apart:
`KeysTellApart` proves it for ids of any length without a dot, by the first
place at which two ids differ, from what hexadecimal digits are (`Alphabet`), and
`DotsCollide` that a dot ends it.

`KeySetProofs` proves that a withdrawn key stops verifying within a TTL and a
fetch (`WithdrawnNotAnswered`), for any kids and windows.  The age of a held key
and what is left of its window add up (`HeldAge`); a reply in hand is as old as
its fetch has waited (`ReplyAge`).

`ReconcilerProofs` proves what a sweep may conclude, for any finite plane and
any services, packages and losses (`EvidenceLifts`, `CountsHold`).  `RoundInv`
says that a service asked and not reported partial was heard as often as it was
counted.  It is about counts, as the code is, so `CountedMismatchStands` is
proved by counting: a counted instance that was not heard leaves room for one
that was.

`CardProjectionProofs` proves every property of the `cards` run for a response of
any size and shape and any labels, floors and readers.  Four steps lead there:

* Trees.  `PathTo` reaches every node (`Path`), and document order makes a
  subtree an interval of numbers (`Subtrees`), which is why the walk may skip one
  by adding to a counter.
* Labels.  The floor a node is read at is the sum of what encloses it
  (`Needed`), and a label at or above its floor is the sum of its whole path
  (`BelowIsLoose`).  So the one comparison the walk makes asks what the whole
  path asks (`ReachedIsDeserved`) - once `validate` has passed, and only then.
* The walk.  `IInv` says: the open nodes are a path from a card down and hold
  what was passed since each was entered (`OpenInv`); what was passed is as it
  will be served and the rest is untouched (`AliveInv`); the list names the
  outermost removed nodes in document order, those of an open node behind its
  mark (`ListInv`); a card passed names its own (`DisclosedInv`).  The order in
  the list is what makes cutting it back to a mark right: a node that collapses
  has exactly its own behind the mark (`Marked`).
* At the end everything has been passed, and the three properties are what the
  invariant says then.

Arguments that walk along a sequence, a path or a number take the least
counterexample (`LeastNat`), because an induction theorem that takes a predicate
cannot be instantiated here.

Only model-checked:

* liveness (`ConvergesUnlessTorn`, `CallsFinish`, `RowsAreWritten`,
  `SignalEndsProcess`, `VerdictsConverge`, `RotationPickedUp`): fairness and
  ENABLED are out of the prover's reach;
* the findings, each of which is a counterexample.

## 5. Not modelled

Parsing and validation of descriptor sets, and their audience computation (pure
functions of bytes, a constant here); the response side of field policy, which
lives in the contracts module; JSON types and self-referential messages of a
schema; HTTP and error wording; the parsing of a JWS and the metadata check of
an issuer at boot; the command line; the conformance harness, which is a client
of other daemons.  Clock steps are not modelled: time moves forward.

## 6. Plan

Order: what carries the program's promise first.  Done: the modules above.  Left:
discovery's collect loop in the transport, message by message.

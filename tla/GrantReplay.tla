------------------------------ MODULE GrantReplay ------------------------------
(***************************************************************************)
(* One approval, one call: the replay cache for spent grants, shared by    *)
(* every replica that uses the same NATS account.                          *)
(*                                                                         *)
(* A replica boots with a catalogue, sizes the bucket from the longest     *)
(* grant age it declares (serve's grantVerifier over replay.NewJetStream), *)
(* and remembers the retention it read back.  A reload is admitted against *)
(* that remembered number (reloadGuard).  A call presenting a grant is     *)
(* checked, freshness included, and then spends the grant with one atomic  *)
(* Create; the bucket forgets a record ttl after it was made.              *)
(*                                                                         *)
(* Time is discrete.  The skew the replicas tolerate is Skew ticks.        *)
(* CheckFresh and the bucket's expiry are outside the repository and are   *)
(* modelled from how the code uses them.                                   *)
(***************************************************************************)
EXTENDS Naturals, FiniteSets, ReplayKey

CONSTANTS
    Replicas,       \* processes sharing the bucket
    Grants,         \* approvals: an approval is its jti, a sequence of characters
    Catalogues,     \* artifacts a replica may serve
    LongestAge,     \* longestGrantAge; 0 when no tool is gated
    BootCatalogues, \* artifacts a replica may be started with
    None,           \* no catalogue, no grant, no time
    Skew,           \* authn.DefaultSkew
    FloorTTL,       \* bucketFloorTTL
    SpendLatency,   \* bound: ticks between a call's checks and its Create
    MaxTime         \* bound: the clock

ASSUME GrantAssumption ==
    /\ LongestAge \in [Catalogues -> Nat]
    /\ BootCatalogues \subseteq Catalogues
    /\ None \notin Catalogues /\ None \notin Grants /\ None \notin Nat
    /\ Skew \in Nat
    /\ FloorTTL \in Nat \ {0}
    /\ SpendLatency \in Nat
    /\ MaxTime \in Nat

VARIABLES
    now,        \* the clock
    ttl,        \* the bucket's TTL; 0 before it exists
    spentAt,    \* the bucket: when the record under a key was made, or None
    serving,    \* the catalogue a replica serves, or None when it is down
    retention,  \* JetStream.retention: what the replica read back at boot
    call,       \* the call a replica is judging: its grant and when it was checked
    issuedAt,   \* a grant's iat, or None
    firstUse,   \* history: when a grant first authorised a call, or None
    uses,       \* history: calls a grant authorised
    created     \* history: grants a call asked the bucket to create a record for

history == <<firstUse, uses, created>>
vars == <<now, ttl, spentAt, serving, retention, call, issuedAt, history>>

Keys == {key(g) : g \in Grants}

NoCall == [grant |-> None, since |-> 0]

Init ==
    /\ now = 0
    /\ ttl = 0
    /\ spentAt = [k \in Keys |-> None]
    /\ serving = [r \in Replicas |-> None]
    /\ retention = [r \in Replicas |-> 0]
    /\ call = [r \in Replicas |-> NoCall]
    /\ issuedAt = [g \in Grants |-> None]
    /\ firstUse = [g \in Grants |-> None]
    /\ uses = [g \in Grants |-> 0]
    /\ created = {}

--------------------------------------------------------------------------------
(* The bucket.                                                              *)

\* What a bucket with this TTL still holds at time t.
Kept(t, life) ==
    [k \in Keys |->
        IF spentAt[k] # None /\ spentAt[k] + life > t THEN spentAt[k] ELSE None]

\* A call in flight holds the clock back at SpendLatency ticks.
Tick ==
    /\ now < MaxTime
    /\ \A r \in Replicas : call[r] # NoCall => now - call[r].since < SpendLatency
    /\ now' = now + 1
    /\ spentAt' = Kept(now + 1, ttl)
    /\ UNCHANGED <<ttl, serving, retention, call, issuedAt, history>>

--------------------------------------------------------------------------------
(* A replica's life.                                                        *)

\* The oldest approval the verifier still accepts, or 0 with nothing gated.
Covers(c) == IF LongestAge[c] > 0 THEN LongestAge[c] + Skew ELSE 0

\* The TTL asked for.
SizeFor(c) == IF Covers(c) > 0 THEN Covers(c) ELSE FloorTTL

CheckRetention(kept, needed) == needed = 0 \/ kept = 0 \/ kept >= needed

\* CreateOrUpdateKeyValue gives the bucket this replica's TTL, whatever it had.
Boot(r, c) ==
    /\ serving[r] = None
    /\ CheckRetention(SizeFor(c), Covers(c))
    /\ ttl' = SizeFor(c)
    /\ spentAt' = Kept(now, SizeFor(c))
    /\ retention' = [retention EXCEPT ![r] = SizeFor(c)]
    /\ serving' = [serving EXCEPT ![r] = c]
    /\ UNCHANGED <<now, call, issuedAt, history>>

\* The guard comparing with the age alone.
AdmitWithoutSkew(r, c) ==
    LongestAge[c] > 0 => CheckRetention(retention[r], LongestAge[c])

\* reloadGuard, against the retention remembered from boot.
Admit(r, c) == LongestAge[c] > 0 => CheckRetention(retention[r], Covers(c))

Reload(r, c) ==
    /\ serving[r] \notin {None, c}
    /\ Admit(r, c)
    /\ serving' = [serving EXCEPT ![r] = c]
    /\ UNCHANGED <<now, ttl, spentAt, retention, call, issuedAt, history>>

\* The process dies, in the middle of a call too.
Crash(r) ==
    /\ serving[r] # None
    /\ serving' = [serving EXCEPT ![r] = None]
    /\ retention' = [retention EXCEPT ![r] = 0]
    /\ call' = [call EXCEPT ![r] = NoCall]
    /\ UNCHANGED <<now, ttl, spentAt, issuedAt, history>>

--------------------------------------------------------------------------------
(* Approvals and the calls that present them.                               *)

\* An approver issues a grant.
Issue(g) ==
    /\ issuedAt[g] = None
    /\ issuedAt' = [issuedAt EXCEPT ![g] = now]
    /\ UNCHANGED <<now, ttl, spentAt, serving, retention, call, history>>

\* CheckFresh, from its use in checkShape: younger than the tool's ceiling,
\* give or take the skew.
Fresh(g, c) == now < issuedAt[g] + LongestAge[c] + Skew

\* checkShape and checkMaterial pass; the grant is not spent yet.
Check(r, g) ==
    /\ serving[r] # None
    /\ call[r] = NoCall
    /\ issuedAt[g] # None
    /\ LongestAge[serving[r]] > 0
    /\ Fresh(g, serving[r])
    /\ call' = [call EXCEPT ![r] = [grant |-> g, since |-> now]]
    /\ UNCHANGED <<now, ttl, spentAt, serving, retention, issuedAt, history>>

Authorise(g) ==
    /\ firstUse' = [firstUse EXCEPT ![g] = IF @ = None THEN now ELSE @]
    /\ uses' = [uses EXCEPT ![g] = @ + 1]
    /\ created' = created \cup {g}

\* The spend as a Put, which replaces a record that is there.
SpendByPut(r) ==
    /\ call[r] # NoCall
    /\ spentAt' = [spentAt EXCEPT ![key(call[r].grant)] = now]
    /\ Authorise(call[r].grant)
    /\ call' = [call EXCEPT ![r] = NoCall]
    /\ UNCHANGED <<now, ttl, serving, retention, issuedAt>>

\* Create finds no record and makes one: this call, and no other, goes on.
Spend(r) ==
    /\ call[r] # NoCall
    /\ spentAt[key(call[r].grant)] = None
    /\ spentAt' = [spentAt EXCEPT ![key(call[r].grant)] = now]
    /\ Authorise(call[r].grant)
    /\ call' = [call EXCEPT ![r] = NoCall]
    /\ UNCHANGED <<now, ttl, serving, retention, issuedAt>>

\* Create finds a record: ErrAlreadySpent.
AlreadySpent(r) ==
    /\ call[r] # NoCall
    /\ spentAt[key(call[r].grant)] # None
    /\ call' = [call EXCEPT ![r] = NoCall]
    /\ UNCHANGED <<now, ttl, spentAt, serving, retention, issuedAt, history>>

\* Create's answer does not arrive, the record made or not: ErrUnavailable.
SpendUnknown(r) ==
    /\ call[r] # NoCall
    /\ \/ UNCHANGED spentAt
       \/ /\ spentAt[key(call[r].grant)] = None
          /\ spentAt' = [spentAt EXCEPT ![key(call[r].grant)] = now]
    /\ created' = created \cup {call[r].grant}
    /\ call' = [call EXCEPT ![r] = NoCall]
    /\ UNCHANGED <<now, ttl, serving, retention, issuedAt, firstUse, uses>>

--------------------------------------------------------------------------------
Next ==
    \/ Tick
    \/ \E g \in Grants : Issue(g)
    \/ \E r \in Replicas :
        \/ \E c \in BootCatalogues : Boot(r, c)
        \/ \E c \in Catalogues : Reload(r, c)
        \/ \E g \in Grants : Check(r, g)
        \/ Crash(r) \/ Spend(r) \/ AlreadySpent(r) \/ SpendUnknown(r)

Spec == Init /\ [][Next]_vars
--------------------------------------------------------------------------------
(* Properties.                                                              *)

\* The bucket outlasts every approval any running replica still accepts
\* (grants.go: "The bucket must outlast the oldest approval the verifier will
\* still accept"), through boots, reloads and crashes of the others.
BucketCovers ==
    \A r \in Replicas : serving[r] # None => ttl >= Covers(serving[r])

\* An approval authorises one call across every replica, reload, crash and
\* lost answer, unless its first use came so soon after it was issued that a
\* call checked just before the approval expired could spend it after the
\* record of that first use had gone.
SingleUse ==
    \A g \in Grants : uses[g] > 1 => firstUse[g] < issuedAt[g] + SpendLatency

\* A call is refused as a replay only of its own approval (jetstream.go, key: a
\* collision "would silently refuse a legitimate grant as a replay"): a record
\* under an approval's key was asked for by a call presenting that approval.
\* It takes ids without a dot, which key admits and escapes with.
ReplaysAreReplays ==
    \A g \in Grants : spentAt[key(g)] # None => g \in created

\* "One approval, one call" (replay/jetstream.go, the bucket's description).
OneApprovalOneCall == \A g \in Grants : uses[g] <= 1
================================================================================

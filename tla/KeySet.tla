-------------------------------- MODULE KeySet ---------------------------------
(***************************************************************************)
(* The cached key set a token is verified against (internal/authn,         *)
(* KeySet), between the callers that ask for a kid and the issuer that     *)
(* rotates, revokes and sometimes does not answer.                         *)
(*                                                                         *)
(* One lock is held across the whole lookup, fetch included, so lookups    *)
(* are one step each except for a fetch: its answer is what the issuer     *)
(* published when it replied, which is not when it is cached.  Clocks are  *)
(* modelled as what is left of each window, so nothing bounds the run.     *)
(***************************************************************************)
EXTENDS Naturals

CONSTANTS
    Kids,       \* key ids tokens may name
    None,       \* nothing yet
    TTL,        \* KeySetConfig.TTL
    Cooldown,   \* KeySetConfig.RefreshCooldown
    FetchTime   \* the HTTP client's timeout

ASSUME KeySetAssumption ==
    /\ None \notin Kids
    /\ TTL \in Nat \ {0} /\ Cooldown \in Nat \ {0} /\ FetchTime \in Nat \ {0}

VARIABLES
    published,  \* the issuer's key set
    since,      \* how long ago each kid was last published, up to Limit
    keys,       \* KeySet.keys
    freshFor,   \* what is left of fetchedAt + ttl
    coolFor,    \* what is left of lastAttempt + refreshCooldown
    fetch,      \* the fetch that holds the lock
    answer      \* the last answer Key gave

vars == <<published, since, keys, freshFor, coolFor, fetch, answer>>

Limit == TTL + FetchTime + 1

NoFetch == [kid |-> None, got |-> {}, left |-> 0]
NoAnswer == [kid |-> None, is |-> "none", age |-> 0]

Init ==
    /\ published = Kids
    /\ since = [k \in Kids |-> 0]
    /\ keys = {} /\ freshFor = 0 /\ coolFor = 0
    /\ fetch = NoFetch
    /\ answer = NoAnswer

Free == fetch.kid = None

Less(n) == IF n = 0 THEN 0 ELSE n - 1

-----------------------------------------------------------------------------
(* The issuer and the clock.                                               *)

\* A fetch in flight ends before the client's timeout is over.
Tick ==
    /\ Free \/ fetch.left > 0
    /\ freshFor' = Less(freshFor) /\ coolFor' = Less(coolFor)
    /\ fetch' = [fetch EXCEPT !.left = Less(@)]
    /\ since' = [k \in Kids |-> IF k \in published \/ since[k] = Limit
                                THEN since[k] ELSE since[k] + 1]
    /\ UNCHANGED <<published, keys, answer>>

\* The issuer publishes a key or withdraws one; it always has one.
Rotate(k) ==
    /\ published' = IF k \in published THEN published \ {k} ELSE published \cup {k}
    /\ published' # {}
    /\ since' = [since EXCEPT ![k] = 0]
    /\ UNCHANGED <<keys, freshFor, coolFor, fetch, answer>>

-----------------------------------------------------------------------------
(* Key.                                                                    *)

Reply(k, is) == answer' = [kid |-> k, is |-> is, age |-> since[k]]

\* The keys held, however old.
HeldIsFresh == keys # {}

fresh == keys # {} /\ freshFor > 0

Cached(k) ==
    /\ Free /\ fresh /\ k \in keys
    /\ Reply(k, "key")
    /\ UNCHANGED <<published, since, keys, freshFor, coolFor, fetch>>

\* An unknown kid inside the window is refused without asking.
Cooled(k) ==
    /\ Free /\ fresh /\ k \notin keys /\ coolFor > 0
    /\ Reply(k, "no such key")
    /\ UNCHANGED <<published, since, keys, freshFor, coolFor, fetch>>

\* refreshLocked begins: a stale set, or an unknown kid outside the window.
StartFetch(k) ==
    /\ Free
    /\ fresh => k \notin keys /\ coolFor = 0
    /\ coolFor' = Cooldown
    /\ fetch' = [kid |-> k, got |-> {}, left |-> FetchTime]
    /\ UNCHANGED <<published, since, keys, freshFor, answer>>

\* The issuer replies with what it publishes now.
Replies ==
    /\ ~Free /\ fetch.got = {}
    /\ fetch' = [fetch EXCEPT !.got = published]
    /\ UNCHANGED <<published, since, keys, freshFor, coolFor, answer>>

\* The first set kept for good, only its age renewed.
FetchedOnce ==
    /\ ~Free /\ fetch.got # {}
    /\ keys' = (IF keys = {} THEN fetch.got ELSE keys) /\ freshFor' = TTL
    /\ Reply(fetch.kid, IF fetch.kid \in keys' THEN "key" ELSE "no such key")
    /\ fetch' = NoFetch
    /\ UNCHANGED <<published, since, coolFor>>

\* refreshLocked succeeds: the reply replaces the set, and its age starts now.
Fetched ==
    /\ ~Free /\ fetch.got # {}
    /\ keys' = fetch.got /\ freshFor' = TTL
    /\ Reply(fetch.kid, IF fetch.kid \in keys' THEN "key" ELSE "no such key")
    /\ fetch' = NoFetch
    /\ UNCHANGED <<published, since, coolFor>>

\* No reply, a reply that is no key set, or a caller that went away: an error,
\* and the keys held stay held.
FetchFails ==
    /\ ~Free
    /\ Reply(fetch.kid, "error")
    /\ fetch' = NoFetch
    /\ UNCHANGED <<published, since, keys, freshFor, coolFor>>

Key(k) == Cached(k) \/ Cooled(k) \/ StartFetch(k)

Next ==
    \/ Tick
    \/ Replies \/ Fetched \/ FetchFails
    \/ \E k \in Kids : Rotate(k) \/ Key(k)

Spec == Init /\ [][Next]_vars

\* Callers keep presenting tokens of every kid, time passes, and a fetch that
\* is tried again and again is answered and read in the end.
FairSpec ==
    /\ Spec
    /\ WF_vars(Tick) /\ WF_vars(Fetched \/ FetchFails)
    /\ SF_vars(Replies) /\ SF_vars(Fetched)
    /\ \A k \in Kids : SF_vars(Cached(k)) /\ SF_vars(StartFetch(k))

-----------------------------------------------------------------------------
(* Properties.                                                             *)

\* A withdrawn key stops verifying tokens: a key is answered no later than TTL
\* plus one fetch after the issuer last published it, however slow the fetch
\* and however long the issuer is unreachable.
WithdrawnKeysDie == answer.is = "key" => answer.age < TTL + FetchTime

\* A key that the issuer publishes for good is answered again and again: a
\* rotation is picked up although unknown kids keep using up the window.
RotationPickedUp ==
    \A k \in Kids :
        <>[](k \in published) => []<>(answer.kid = k /\ answer.is = "key")
=============================================================================

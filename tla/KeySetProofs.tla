------------------------------- MODULE KeySetProofs ------------------------------
(***************************************************************************)
(* A withdrawn key stops verifying tokens, for any kids, time to live,     *)
(* cooldown and fetch timeout, and any pace of the issuer.                 *)
(***************************************************************************)
EXTENDS KeySet, TLAPS

Types ==
    /\ published \subseteq Kids /\ keys \subseteq Kids
    /\ since \in [Kids -> Nat]
    /\ freshFor \in Nat
    /\ fetch \in [kid : Kids \cup {None}, got : SUBSET Kids, left : Nat]

\* A key published has no age.
PublishedNow == \A k \in published : since[k] = 0

\* A reply in hand is as old as the fetch has waited since, at most.
ReplyAge == \A k \in fetch.got : since[k] + fetch.left <= FetchTime

\* What is left of the window and the age of a key held add up.
HeldAge == freshFor > 0 => \A k \in keys : since[k] + freshFor <= TTL + FetchTime

\* The fetch in progress, and nothing in hand between fetches.
FetchShape ==
    /\ fetch.left <= FetchTime
    /\ Free => fetch.got = {}

\* The invariant of the key set: what is held is as old as the answer it came from.
IInv == Types /\ PublishedNow /\ ReplyAge /\ HeldAge /\ FetchShape /\ WithdrawnKeysDie

--------------------------------------------------------------------------------
USE KeySetAssumption

\* Nothing is held and nothing is in hand when the set is made (NewKeySet).
LEMMA InitHolds == Init => IInv
BY DEF Init, IInv, Types, PublishedNow, ReplyAge, HeldAge, FetchShape, Free, NoFetch,
       NoAnswer, WithdrawnKeysDie

\* Time takes a tick off every window for each it adds to an age.
LEMMA TickStep ==
    ASSUME IInv, Tick
    PROVE  IInv'
PROOF
<1> USE DEF IInv
<1>1. /\ fetch'.kid = fetch.kid /\ fetch'.got = fetch.got
      /\ fetch'.left = Less(fetch.left) /\ freshFor' = Less(freshFor)
      /\ UNCHANGED <<published, keys, answer>>
    BY DEF Tick, Types
<1>2. ASSUME NEW k \in Kids
      PROVE  /\ since'[k] \in Nat /\ since'[k] <= since[k] + 1
             /\ k \in published => since'[k] = since[k]
    BY DEF Tick, Types
<1>3. Types'
  <2>1. since' \in [Kids -> Nat]
      BY <1>2 DEF Tick
  <2> QED
      BY <1>1, <2>1 DEF Tick, Types, Less
<1>4. PublishedNow'
    BY <1>1, <1>2 DEF PublishedNow, Types
<1>5. ReplyAge'
  <2> SUFFICES ASSUME NEW k \in fetch.got
               PROVE  since'[k] + fetch'.left <= FetchTime
      BY <1>1 DEF ReplyAge
  <2>1. fetch.left > 0
      BY DEF FetchShape, Tick
  <2> QED
      BY <1>1, <1>2, <2>1 DEF ReplyAge, Types, Less
<1>6. HeldAge'
  <2> SUFFICES ASSUME freshFor' > 0, NEW k \in keys
               PROVE  since'[k] + freshFor' <= TTL + FetchTime
      BY <1>1 DEF HeldAge
  <2>1. freshFor > 0 /\ freshFor' = freshFor - 1
      BY <1>1 DEF Types, Less
  <2> QED
      BY <1>2, <2>1 DEF HeldAge, Types
<1>7. FetchShape'
    BY <1>1 DEF FetchShape, Free, Less, Types
<1>8. WithdrawnKeysDie'
    BY <1>1 DEF WithdrawnKeysDie
<1> QED
    BY <1>3, <1>4, <1>5, <1>6, <1>7, <1>8

\* A withdrawn kid begins to age, a published one has no age.
LEMMA RotateStep ==
    ASSUME IInv, NEW k \in Kids, Rotate(k)
    PROVE  IInv'
PROOF
<1> USE DEF IInv
<1>1. /\ \A j \in Kids : since'[j] \in Nat /\ since'[j] <= since[j]
      /\ since' \in [Kids -> Nat] /\ since'[k] = 0
      /\ \A j \in Kids : j # k => since'[j] = since[j]
      /\ \A j : j # k => (j \in published' <=> j \in published)
      /\ published' \subseteq Kids
      /\ UNCHANGED <<keys, freshFor, coolFor, fetch, answer>>
    BY DEF Rotate, Types
<1>2. Types'
    BY <1>1 DEF Types
<1>3. PublishedNow'
    BY <1>1 DEF PublishedNow, Types
<1>4. ReplyAge'
    BY <1>1 DEF ReplyAge, Types
<1>5. HeldAge'
    BY <1>1 DEF HeldAge, Types
<1> QED
    BY <1>1, <1>2, <1>3, <1>4, <1>5 DEF FetchShape, Free, WithdrawnKeysDie

\* What Key answers is young enough, from the set held or from a reply.
LEMMA KeySteps ==
    ASSUME IInv, NEW k \in Kids, Key(k) \/ Replies \/ Fetched \/ FetchFails
    PROVE  IInv'
PROOF
<1> USE DEF IInv
<1>1. CASE Cached(k)
  <2>1. since[k] + freshFor <= TTL + FetchTime /\ freshFor > 0
      BY <1>1 DEF Cached, fresh, HeldAge
  <2>2. answer'.age = since[k]
      BY <1>1 DEF Cached, Reply
  <2>3. WithdrawnKeysDie'
      BY <2>1, <2>2 DEF WithdrawnKeysDie, Types
  <2> QED
      BY <1>1, <2>3 DEF Cached, Types, PublishedNow, ReplyAge, HeldAge, FetchShape, Free
<1>2. CASE Cooled(k)
    BY <1>2 DEF Cooled, Reply, Types, PublishedNow, ReplyAge, HeldAge, FetchShape, Free,
                WithdrawnKeysDie
<1>3. CASE StartFetch(k)
    BY <1>3 DEF StartFetch, Types, PublishedNow, ReplyAge, HeldAge, FetchShape, Free,
                WithdrawnKeysDie
<1>4. CASE Replies
  <2>1. /\ fetch'.kid = fetch.kid /\ fetch'.got = published /\ fetch'.left = fetch.left
        /\ UNCHANGED <<published, since, keys, freshFor, answer>>
      BY <1>4 DEF Replies, Types
  <2>2. Types'
      BY <1>4 DEF Replies, Types
  <2>3. ReplyAge'
      BY <2>1 DEF ReplyAge, PublishedNow, FetchShape, Types
  <2>4. FetchShape'
      BY <1>4, <2>1 DEF Replies, FetchShape, Free
  <2> QED
      BY <2>1, <2>2, <2>3, <2>4 DEF PublishedNow, HeldAge, WithdrawnKeysDie
<1>5. CASE Fetched
  <2>1. /\ keys' = fetch.got /\ freshFor' = TTL /\ fetch' = NoFetch
        /\ UNCHANGED <<published, since>>
      BY <1>5 DEF Fetched
  <2>2. Types' /\ PublishedNow' /\ ReplyAge' /\ FetchShape'
      BY <2>1 DEF Types, PublishedNow, ReplyAge, FetchShape, Free, NoFetch
  <2>3. HeldAge'
      BY <2>1 DEF HeldAge, ReplyAge, Types
  <2>4. WithdrawnKeysDie'
    <3>1. answer'.is = "key" => fetch.kid \in fetch.got /\ answer'.age = since[fetch.kid]
        BY <1>5 DEF Fetched, Reply
    <3> QED
        BY <3>1 DEF WithdrawnKeysDie, ReplyAge, Types
  <2> QED
      BY <2>2, <2>3, <2>4
<1>6. CASE FetchFails
    BY <1>6 DEF FetchFails, Reply, Types, PublishedNow, ReplyAge, HeldAge, FetchShape, Free,
                NoFetch, WithdrawnKeysDie
<1> QED
    BY <1>1, <1>2, <1>3, <1>4, <1>5, <1>6 DEF Key

--------------------------------------------------------------------------------
\* IInv holds whatever the issuer and the callers do.
THEOREM WindowInvariant == Spec => []IInv
PROOF
<1>1. IInv /\ [Next]_vars => IInv'
  <2> SUFFICES ASSUME IInv, [Next]_vars PROVE IInv'
      OBVIOUS
  <2>1. CASE Tick
      BY <2>1, TickStep
  <2>2. ASSUME NEW k \in Kids, Rotate(k) PROVE IInv'
      BY <2>2, RotateStep
  <2>3. ASSUME NEW k \in Kids, Key(k) PROVE IInv'
      BY <2>3, KeySteps
  <2>4. CASE Replies \/ Fetched \/ FetchFails
    <3>1. Kids # {}
        BY <2>4 DEF Replies, Fetched, FetchFails, Free, IInv, Types
    <3> QED
        BY <2>4, <3>1, KeySteps
  <2>5. CASE UNCHANGED vars
      BY <2>5 DEF vars, IInv, Types, PublishedNow, ReplyAge, HeldAge, FetchShape, Free,
                  WithdrawnKeysDie
  <2> QED
      BY <2>1, <2>2, <2>3, <2>4, <2>5 DEF Next
<1> QED
    BY InitHolds, <1>1, PTL DEF Spec

\* For any windows and however slow or unreachable the issuer, no key is
\* answered later than the time to live and one fetch after it was withdrawn.
THEOREM WithdrawnNotAnswered == Spec => []WithdrawnKeysDie
PROOF
<1>1. IInv => WithdrawnKeysDie
    BY DEF IInv
<1> QED
    BY <1>1, WindowInvariant, PTL
================================================================================

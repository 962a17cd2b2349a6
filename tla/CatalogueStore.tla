----------------------------- MODULE CatalogueStore ----------------------------
(***************************************************************************)
(* Retention of superseded catalogues (internal/catalogue, Store).         *)
(*                                                                         *)
(* One goroutine reloads (the process at boot, then its poller); any other *)
(* may list or sweep meanwhile.  Reload publishes the new generation       *)
(* before it takes the lock to retire the old one, so those are two steps. *)
(* The slice of retired generations is modelled with its backing array:    *)
(* what the array still points at is what the collector cannot take.       *)
(*                                                                         *)
(* A generation is [digest, at]: what it is and when it was loaded.        *)
(***************************************************************************)
EXTENDS Naturals, Sequences

CONSTANTS
    Digests,    \* catalogue artifacts
    NoGen,      \* nil
    KeepDepth,  \* how many superseded generations to hold
    TTL,        \* for how long
    MaxTime     \* bound: the clock

Generation == [digest : Digests, at : 0..MaxTime]

ASSUME StoreAssumption ==
    /\ KeepDepth \in Nat /\ TTL \in Nat \ {0} /\ MaxTime \in Nat
    /\ NoGen \notin Generation

VARIABLES
    current,    \* Store.current
    array,      \* the backing array of Store.retired
    len,        \* its length as a slice
    prev,       \* Reload, between the swap and the lock: what it superseded
    now,        \* the clock
    dropped     \* history: when each superseded generation was superseded

storeVars == <<current, array, len, prev, now, dropped>>

retired == SubSeq(array, 1, len)

StoreInit ==
    /\ current = NoGen
    /\ array = <<>> /\ len = 0
    /\ prev = NoGen
    /\ now = 0
    /\ dropped = {}

Tick ==
    /\ now < MaxTime
    /\ now' = now + 1
    /\ UNCHANGED <<current, array, len, prev, dropped>>

\* Reloading an identical digest is a no-op.
IsNews(d) == current # NoGen => current.digest # d

\* Reload up to and including current.Store.  A body that does not load, or
\* declares too many tools, leaves everything as it was.  Two loads never share
\* an instant.
Supersede(d) ==
    /\ prev = NoGen
    /\ current # NoGen => current.at < now
    /\ IsNews(d)
    /\ current' = [digest |-> d, at |-> now]
    /\ prev' = IF current = NoGen THEN NoGen ELSE current
    /\ dropped' = IF current = NoGen THEN dropped
                  ELSE dropped \cup {[gen |-> current, since |-> now]}
    /\ UNCHANGED <<array, len, now>>

\* c.LoadedAt.After(now - ttl)
Young(g) == g.at + TTL > now

\* One too few.
TruncatedShort(slice) == SubSeq(slice, 1, IF Len(slice) >= KeepDepth THEN KeepDepth - 1
                                          ELSE Len(slice))

\* s.retired[:s.keepDepth]
Truncated(slice) == SubSeq(slice, 1, IF Len(slice) > KeepDepth THEN KeepDepth
                                     ELSE Len(slice))

\* The loop that appends what is young.
Kept(slice) ==
    LET keep[i \in 0..Len(slice)] ==
          IF i = 0 THEN <<>>
          ELSE IF Young(slice[i]) THEN Append(keep[i - 1], slice[i])
          ELSE keep[i - 1]
    IN  keep[Len(slice)]

\* sweepLocked on a slice over the whole of its array: count, then age, in
\* place.  The places the age check freed are set to nil; the places the count
\* cut off are beyond the slice by then and are not.
sweepLocked(slice, backing) ==
    LET held == Truncated(slice)
        keep == Kept(held)
    IN  /\ len' = Len(keep)
        /\ array' = [i \in DOMAIN backing |->
                        IF i <= Len(keep) THEN keep[i]
                        ELSE IF i <= Len(held) THEN NoGen
                        ELSE backing[i]]

\* The superseded generation at the back.
RetireAtTheBack ==
    /\ prev # NoGen
    /\ LET slice == retired \o <<prev>> IN sweepLocked(slice, slice)
    /\ prev' = NoGen
    /\ UNCHANGED <<current, now, dropped>>

\* Reload's locked half: a new array with the superseded generation in front.
Retire ==
    /\ prev # NoGen
    /\ IF KeepDepth > 0
       THEN LET slice == <<prev>> \o retired IN sweepLocked(slice, slice)
       ELSE sweepLocked(retired, array)
    /\ prev' = NoGen
    /\ UNCHANGED <<current, now, dropped>>

\* Sweep and Generations, from any goroutine.
Sweep ==
    /\ sweepLocked(retired, array)
    /\ UNCHANGED <<current, prev, now, dropped>>

StoreNext == Tick \/ Retire \/ Sweep \/ \E d \in Digests : Supersede(d)

StoreSpec == StoreInit /\ [][StoreNext]_storeVars

-----------------------------------------------------------------------------
(* Properties.                                                             *)

\* The type invariant.  The slice never reaches a place that was set to nil, and
\* holds no more than KeepDepth generations.
StoreTypeOK ==
    /\ current \in Generation \cup {NoGen}
    /\ \A i \in DOMAIN array : array[i] \in Generation \cup {NoGen}
    /\ len \in 0..Len(array) /\ len <= KeepDepth
    /\ \A i \in 1..len : array[i] \in Generation
    /\ prev \in Generation \cup {NoGen}
    /\ now \in 0..MaxTime

\* What is retained is what was served, newest first, and never what is being
\* served: each retained generation was superseded by the one listed before it
\* or by one that was dropped since.
NewestFirst ==
    LET listed == (IF current = NoGen THEN <<>> ELSE <<current>>)
                  \o (IF prev = NoGen THEN <<>> ELSE <<prev>>) \o retired
    IN  \A i, j \in DOMAIN listed :
            i < j => /\ listed[j].at < listed[i].at
                     /\ \E r \in dropped : r.gen = listed[j] /\ r.since <= listed[i].at

\* As many as the store holds were superseded that are younger than r.
CountedOut(r) ==
    \E younger \in [1..KeepDepth -> dropped] :
        /\ \A i \in 1..KeepDepth : younger[i].gen.at > r.gen.at
        /\ \A i, j \in 1..KeepDepth : younger[i] = younger[j] => i = j

\* How long it had been serving.
Served(r) == r.since - r.gen.at

\* "A bounded history of the ones it was serving before" (Store), by count and by
\* age; no truncation, sweep or listing in between loses what neither bound has
\* reached.  Age is counted from LoadedAt (store.go:198) and not from being
\* superseded, as Options.TTL has it (store.go:58): what had served s is held for
\* what s leaves of the TTL, unless KeepDepth younger ones were superseded since,
\* and what had served the whole of it goes as it is retired, whatever the count.
RetainedForTheRest ==
    /\ len <= KeepDepth
    /\ \A r \in dropped : now - r.since < TTL - Served(r) =>
          \/ r.gen = prev
          \/ \E i \in 1..len : array[i] = r.gen
          \/ CountedOut(r)
    /\ \A i \in 1..len : \E r \in dropped : r.gen = array[i] /\ Served(r) < TTL
=============================================================================

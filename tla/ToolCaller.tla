------------------------------- MODULE ToolCaller ------------------------------
(***************************************************************************)
(* One request from its bearer token to its answer: the token is verified  *)
(* and its delegation chain folded (internal/authn), and the principal     *)
(* that comes out lists the tools or calls one (internal/serve,            *)
(* internal/toolplane).  Requests of one generation run side by side and   *)
(* share its schema cache.                                                 *)
(*                                                                         *)
(* A token is                                                              *)
(*   [selects, iss, key, kid, aud, exp, nbf, chain]                        *)
(* selects is the issuer the lenient read of the unverified payload finds, *)
(* iss the one the claims parser finds in the same payload; they differ    *)
(* when the payload spells the field in two cases.  key is the one that    *)
(* signed it, exp = 0 is no expiry and nbf = 0 no start.                   *)
(*                                                                         *)
(* The schema cache maps a key to the request that built the object, and   *)
(* heap has what each object built says, so that two objects for one key   *)
(* and a write into a shared one are both visible.                         *)
(***************************************************************************)
EXTENDS Authority, FieldView

CONSTANTS
    Requesters,     \* the requests in flight
    Tokens,         \* Tokens[r]: what a request may present
    Issuers,        \* the issuers trusted
    KeyOf,          \* KeyOf[issuer][kid]: the published key, or NoKey
    NoKey,
    Audience,       \* the audience this daemon answers to
    Skew,
    MaxTime,        \* bound on the clock
    Tools,          \* numbers, in FQN order
    Decl,           \* what a tool declares
    Rules,          \* Rules[t]: the validation rules of its input
    Asked,          \* audiences a listing may ask for
    Wants,          \* previews that may be asked for
    Draft,          \* the key a listing adds to a schema
    None

ASSUME CallerAssumption ==
    /\ \A r \in Requesters : \A k \in Tokens[r] :
        /\ k # None
        /\ Len(k.chain) \in Nat \ {0}
        /\ \A i \in 1..Len(k.chain) : k.chain[i].clearance \in Nat
    /\ Tools \subseteq Nat
    /\ \A t \in Tools :
        /\ Decl[t].verb \in Verbs
        /\ Decl[t].clearance \in Nat
        /\ Decl[t].compartments \subseteq Declared
        /\ Decl[t].input \in Messages /\ Decl[t].output \in Messages
    /\ \A w \in Wants : w.clearance \in Nat
    /\ Draft \notin Fields

VARIABLES
    at,         \* where a request is
    token,      \* what it presented
    issuer,     \* the entry its unverified payload selected
    level,      \* hops folded
    principal,
    ask,        \* what it is answering: a listing or a refused call
    todo,       \* the schemas still to look up, as <<tool, dimension>>
    got,        \* the schema objects it holds, as <<key, builder>>
    cache,      \* key |-> the request whose object is kept
    heap,       \* <<key, builder>> |-> the names the object has
    answer

vars == <<at, token, issuer, level, principal, ask, todo, got, cache, heap, answer>>

Shape(p) == [clearance |-> p.clearance, compartments |-> p.compartments]

Init ==
    /\ at = [r \in Requesters |-> "idle"]
    /\ token = [r \in Requesters |-> None]
    /\ issuer = [r \in Requesters |-> None]
    /\ level = [r \in Requesters |-> 0]
    /\ principal = [r \in Requesters |-> None]
    /\ ask = [r \in Requesters |-> None]
    /\ todo = [r \in Requesters |-> {}]
    /\ got = [r \in Requesters |-> {}]
    /\ cache = <<>>
    /\ heap = <<>>
    /\ answer = [r \in Requesters |-> None]

With(f, x, v) == [y \in DOMAIN f \cup {x} |-> IF y = x THEN v ELSE f[y]]

Goto(r, s) == at' = [at EXCEPT ![r] = s]

serving == <<ask, todo, got, cache, heap, answer>>

--------------------------------------------------------------------------------
(* Verify.                                                                  *)

Present(r, k) ==
    /\ at[r] = "idle"
    /\ token' = [token EXCEPT ![r] = k]
    /\ Goto(r, "selecting")
    /\ UNCHANGED <<issuer, level, principal, serving>>

\* trustedFor, on a payload nothing has verified.
Select(r) ==
    /\ at[r] = "selecting"
    /\ IF token[r].selects \in Issuers
       THEN /\ issuer' = [issuer EXCEPT ![r] = token[r].selects]
            /\ Goto(r, "selected")
       ELSE Goto(r, "refused") /\ UNCHANGED issuer
    /\ UNCHANGED <<token, level, principal, serving>>

Signed(k, iss) == KeyOf[iss][k.kid] # NoKey /\ KeyOf[iss][k.kid] = k.key

\* Any trusted issuer will do once some key has verified.
AnyTrusted(k, iss) == k.iss \in Issuers

\* The loop closed: the verified issuer is the one whose keys were used.
SameIssuer(k, iss) == k.iss = iss

checkRegistered(k, now) ==
    /\ k.iss \in Issuers
    /\ k.aud = Audience
    /\ k.exp # 0 /\ now <= k.exp + Skew
    /\ now + Skew >= k.nbf

\* The rest of Verify up to the fold.  The clock is read once, and the first
\* level of the fold is what the outermost claims assert.
Admit(r) ==
    LET k == token[r] IN
    /\ at[r] = "selected"
    /\ Signed(k, issuer[r])
    /\ Parses(k.chain)
    /\ SameIssuer(k, issuer[r])
    /\ \E now \in 0..MaxTime : checkRegistered(k, now)
    /\ ~TooDeep(k.chain)
    /\ principal' = [principal EXCEPT ![r] = Level(k.chain[1])]
    /\ level' = [level EXCEPT ![r] = 1]
    /\ Goto(r, "folding")
    /\ UNCHANGED <<token, issuer, serving>>

\* Refused by any of these checks, or because the key set could not answer.
Refuse(r) ==
    /\ at[r] = "selected"
    /\ Goto(r, "refused")
    /\ UNCHANGED <<token, issuer, level, principal, serving>>

FoldLevel(r) ==
    /\ at[r] = "folding"
    /\ level[r] < Len(token[r].chain)
    /\ principal' = [principal EXCEPT ![r] = Meet(@, token[r].chain[level[r] + 1])]
    /\ level' = [level EXCEPT ![r] = @ + 1]
    /\ UNCHANGED <<at, token, issuer, serving>>

Folded(r) ==
    /\ at[r] = "folding"
    /\ level[r] = Len(token[r].chain)
    /\ Goto(r, "ready")
    /\ UNCHANGED <<token, issuer, level, principal, serving>>

--------------------------------------------------------------------------------
(* Schemas.                                                                 *)

schemaKey(m, shape, dim) == <<m, shape, dim>>

MessageAt(x) == IF x[2] = "write" THEN Decl[x[1]].input ELSE Decl[x[1]].output

\* SchemaFor looks up the input, then the output, of each tool in FQN order.
Before(x, y) == x[1] < y[1] \/ (x[1] = y[1] /\ x[2] = "write")
NextOf(S) == CHOOSE x \in S : \A y \in S \ {x} : Before(x, y)

\* What schemaCache.get is called with.
Wanted(r) ==
    LET x == NextOf(todo[r])
    IN  schemaKey(MessageAt(x), Shape(principal[r]), x[2])

Take(r, key, by) ==
    /\ got' = [got EXCEPT ![r] = @ \cup {<<key, by>>}]
    /\ todo' = [todo EXCEPT ![r] = @ \ {NextOf(@)}]
    /\ Goto(r, "looking")

CacheHit(r) ==
    /\ at[r] = "looking" /\ todo[r] # {}
    /\ Wanted(r) \in DOMAIN cache
    /\ Take(r, Wanted(r), cache[Wanted(r)])
    /\ UNCHANGED <<token, issuer, level, principal, ask, cache, heap, answer>>

\* Not there: the projection is built with no lock held.
CacheMiss(r) ==
    /\ at[r] = "looking" /\ todo[r] # {}
    /\ Wanted(r) \notin DOMAIN cache
    /\ Goto(r, "building")
    /\ UNCHANGED <<token, issuer, level, principal, serving>>

\* The one just built replaces whatever is there.
KeepMine(r, key) == r

\* Another request may have built it first; theirs is kept.
Keep(r, key) == IF key \in DOMAIN cache THEN cache[key] ELSE r

CachePublish(r) ==
    LET x == NextOf(todo[r])
        key == Wanted(r)
        by == Keep(r, key)
    IN  /\ at[r] = "building"
        /\ cache' = With(cache, key, by)
        /\ heap' = IF by = r
                   THEN With(heap, <<key, r>>, project(MessageAt(x), Shape(principal[r]), x[2]))
                   ELSE heap
        /\ Take(r, key, by)
        /\ UNCHANGED <<token, issuer, level, principal, ask, answer>>

\* What a request holds for one lookup.
View(r, x) ==
    LET key == schemaKey(MessageAt(x), Shape(principal[r]), x[2])
        ref == CHOOSE g \in got[r] : g[1] = key
    IN  heap[ref]

Lookups(S) == S \X {"write", "read"}

--------------------------------------------------------------------------------
(* Listing.                                                                 *)

\* An unspecified audience on either side reads as the agent's.
AudienceAdmits(declared, want) ==
    LET w == IF want = "UNSPECIFIED" THEN "AGENT" ELSE want
    IN  IF declared = {} THEN w = "AGENT"
        ELSE w \in declared \/ (w = "AGENT" /\ "UNSPECIFIED" \in declared)

Catalog(p, want) ==
    {t \in Tools : Visible(p, Decl[t]) /\ AudienceAdmits(Decl[t].audience, want)}

StartList(r, want) ==
    LET listed == Catalog(principal[r], want) IN
    /\ at[r] = "ready"
    /\ ask' = [ask EXCEPT ![r] = [kind |-> "list", want |-> want, tools |-> listed]]
    /\ todo' = [todo EXCEPT ![r] = Lookups(listed)]
    /\ Goto(r, "looking")
    /\ UNCHANGED <<token, issuer, level, principal, got, cache, heap, answer>>

\* The key is written into the shared object.
DraftInPlace(objects, refs) ==
    [o \in DOMAIN objects |-> IF o \in refs THEN objects[o] \cup {Draft} ELSE objects[o]]

\* withDraft copies the top level: the objects are what they were.
withDraft(objects, refs) == objects

Listed(r) ==
    /\ at[r] = "looking" /\ todo[r] = {} /\ ask[r].kind = "list"
    /\ answer' = [answer EXCEPT ![r] =
            [kind |-> "listed", want |-> ask[r].want,
             view |-> [t \in ask[r].tools |-> View(r, <<t, "write">>) \cup {Draft}]]]
    /\ heap' = withDraft(heap, {g \in got[r] : g[1][3] = "write"})
    /\ Goto(r, "done")
    /\ UNCHANGED <<token, issuer, level, principal, ask, todo, got, cache>>

--------------------------------------------------------------------------------
(* Calling: steps 2 and 3 and the validation of the request.                *)

FieldsSet(req) == UNION {req[e] : e \in Elements}

Answered(r, a) == answer' = [answer EXCEPT ![r] = a] /\ Goto(r, "done")

Call(r, t, req) ==
    /\ at[r] = "ready"
    /\ \/ /\ ~Visible(principal[r], Decl[t])
          /\ Answered(r, [kind |-> "not_found", tool |-> t])
          /\ UNCHANGED <<ask, todo>>
       \/ /\ Visible(principal[r], Decl[t])
          /\ ~checkInputWrites(principal[r], Decl[t].input, req)
          /\ Answered(r, [kind |-> "denied", tool |-> t, set |-> FieldsSet(req)])
          /\ UNCHANGED <<ask, todo>>
       \/ /\ Visible(principal[r], Decl[t])
          /\ checkInputWrites(principal[r], Decl[t].input, req)
          /\ \E broken \in SUBSET Rules[t] :
               IF broken = {}
               THEN /\ Answered(r, [kind |-> "valid", tool |-> t, set |-> FieldsSet(req)])
                    /\ UNCHANGED <<ask, todo>>
               ELSE /\ ask' = [ask EXCEPT ![r] =
                                [kind |-> "call", tool |-> t, set |-> FieldsSet(req),
                                 broken |-> broken]]
                    /\ todo' = [todo EXCEPT ![r] = Lookups({t})]
                    /\ Goto(r, "looking")
                    /\ UNCHANGED answer
    /\ UNCHANGED <<token, issuer, level, principal, got, cache, heap>>

\* What is said of the rules a call broke.
Violations(r) ==
    LET t == ask[r].tool IN
    /\ at[r] = "looking" /\ todo[r] = {} /\ ask[r].kind = "call"
    /\ Answered(r, [kind |-> "invalid", tool |-> t, set |-> ask[r].set,
            said |-> {v \in ask[r].broken : admitted(View(r, <<t, "write">>), v)}])
    /\ UNCHANGED <<token, issuer, level, principal, ask, todo, got, cache, heap>>

--------------------------------------------------------------------------------
Next ==
    \E r \in Requesters :
        \/ \E k \in Tokens[r] : Present(r, k)
        \/ Select(r) \/ Admit(r) \/ Refuse(r) \/ FoldLevel(r) \/ Folded(r)
        \/ CacheHit(r) \/ CacheMiss(r) \/ CachePublish(r)
        \/ \E want \in Asked : StartList(r, want)
        \/ Listed(r)
        \/ \E t \in Tools : \E req \in Requests(Decl[t].input) : Call(r, t, req)
        \/ Violations(r)

Spec == Init /\ [][Next]_vars
--------------------------------------------------------------------------------
(* Properties.                                                              *)

\* Places a request has a principal in.
Authenticated == {"folding", "ready", "looking", "building", "done"}

\* No caller is served on the word of an issuer whose key did not sign for it:
\* whatever the unverified payload selected, the issuer a served token claims
\* publishes the key that signed it under the kid it names, and the token was
\* meant for this daemon and within the depth a chain may have.
GenuineAdmitted ==
    \A r \in Requesters : at[r] \in Authenticated =>
        /\ token[r].iss \in Issuers
        /\ KeyOf[token[r].iss][token[r].kid] = token[r].key
        /\ token[r].key # NoKey
        /\ token[r].aud = Audience
        /\ Len(token[r].chain) <= MaxDepth

\* What one hop of a chain grants on its own, scope apart.
HopGrants(h, t) ==
    /\ t.verb \in h.verbs
    /\ t.clearance <= h.clearance
    /\ t.compartments \subseteq h.compartments

\* What a delegation grants: every hop does, and when some hops scope the
\* session, one of the tool's sets is named by all of them.
ChainGrants(chain, n, t) ==
    /\ \A i \in 1..n : HopGrants(chain[i], t)
    /\ (\E i \in 1..n : chain[i].sets # {}) =>
            \E s \in t.sets : \A i \in 1..n : chain[i].sets # {} => s \in chain[i].sets

\* Delegation can only narrow, and exactly by what each hop asserts: after
\* any number of levels a tool is visible when, and only when, every hop
\* folded so far grants it and the scopes named share one of its sets.
FoldIsMeet ==
    \A r \in Requesters : at[r] \in Authenticated =>
        \A t \in Tools :
            Visible(principal[r], Decl[t]) <=> ChainGrants(token[r].chain, level[r], Decl[t])

\* A preview shows nothing its owner cannot reach, tool or field: whatever
\* Narrow grants, every tool visible to the result is visible to the caller.
PreviewOnlyNarrows ==
    \A r \in Requesters : at[r] = "ready" =>
        \A w \in Wants : CanNarrow(principal[r], w) =>
            LET q == Narrow(principal[r], w) IN
            /\ \A t \in Tools : Visible(q, Decl[t]) => Visible(principal[r], Decl[t])
            /\ \A m \in Messages : \A dim \in {"read", "write"} :
                    project(m, q, dim) \subseteq project(m, principal[r], dim)

\* One request's listing and another's call, by principals of the same
\* authority, agree: a tool the listing offers is found, one it withholds
\* from an audience that would be offered it is not, and a call's fields are
\* let through exactly when the listing showed all of them.
ListingMatchesCalls ==
    \A r, q \in Requesters :
        /\ at[r] = "done" /\ answer[r].kind = "listed"
        /\ at[q] = "done" /\ answer[q].kind # "listed"
        /\ principal[r] = principal[q]
        /\ AudienceAdmits(Decl[answer[q].tool].audience, answer[r].want)
        =>  LET t == answer[q].tool
                shown == t \in DOMAIN answer[r].view
            IN  /\ shown <=> answer[q].kind # "not_found"
                /\ answer[q].kind \in {"valid", "invalid"} => answer[q].set \subseteq answer[r].view[t]
                /\ answer[q].kind = "denied" => ~(answer[q].set \subseteq answer[r].view[t])

\* The cache keeps its promise of one object for a key: two requests that
\* asked for the same projection hold the same object, also when both missed
\* and both built it.
OneSchemaPerKey ==
    \A r, q \in Requesters : \A g \in got[r] : \A h \in got[q] : g[1] = h[1] => g = h

\* A shared schema is never written: whichever requests have listed from it,
\* each object still says what its key's projection says.
SharedUntouched ==
    \A o \in DOMAIN heap :
        heap[o] = project(o[1][1], o[1][2], o[1][3])

\* A refused call and another request's listing, by principals of the same
\* authority, draw the line of admittedViolations in one place.  The call is
\* told of no rule on a field the listing withheld, and of no CEL rule
\* (celRuleFor) that selects one or could not be read back.  And it is told of
\* every other rule it broke on a field it set: step 3 let that field through
\* by walking values, and the listing's schema, which admits it here, was built
\* by walking types.  Of the expressions celRuleFor does not take for CEL rules
\* it says no more than of a standard constraint.
ViolationsMatchListing ==
    \A r, q \in Requesters :
        /\ at[r] = "done" /\ answer[r].kind = "listed"
        /\ at[q] = "done" /\ answer[q].kind = "invalid"
        /\ principal[r] = principal[q]
        /\ AudienceAdmits(Decl[answer[q].tool].audience, answer[r].want)
        =>  LET shown == answer[r].view[answer[q].tool] \cup {NoField}
            IN  /\ \A v \in answer[q].said :
                    /\ v.field \in shown
                    /\ isCEL(v) => celRuleFor(v) /\ celFieldRefs(v) /\ v.refs \subseteq shown
                /\ \A v \in ask[q].broken :
                    ~isCEL(v) /\ v.field \in answer[q].set => v \in answer[q].said
================================================================================

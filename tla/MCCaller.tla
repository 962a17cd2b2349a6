-------------------------------- MODULE MCCaller --------------------------------
(***************************************************************************)
(* Two issuers that publish one kid with different keys, chains of up to   *)
(* five hops of which four are allowed, three tools of which two share a   *)
(* message, and a message with a repeated field.                           *)
(***************************************************************************)
EXTENDS ToolCaller

MCDeclared == {"fin", "hr"}
MCVerbs == {"read", "write"}
MCIssuers == {"idp", "partner"}
MCKeyOf == [idp |-> [k1 |-> "idpkey", k2 |-> NoKey],
            partner |-> [k1 |-> "partnerkey", k2 |-> "partnerkey2"]]

Hop(clearance, compartments, verbs, sets) ==
    [clearance |-> clearance, compartments |-> compartments, verbs |-> verbs, sets |-> sets]

User == Hop(2, {"fin", "typo"}, {"read", "write"}, {})
Scoped == Hop(2, {"fin"}, {"read"}, {"ops"})
Agent == Hop(1, {"fin"}, {"read", "write"}, {"pay"})
Other == Hop(2, {}, {"read", "sing"}, {"ops"})
Silent == Hop(0, {"fin"}, {"read"}, {})
Hops == {User, Scoped, Agent, Other}

Good(chain) ==
    [selects |-> "idp", iss |-> "idp", key |-> "idpkey", kid |-> "k1",
     aud |-> "garm", exp |-> 1, nbf |-> 0, chain |-> chain]

\* Every pairing of what the two reads of the payload find with what signed
\* it, and one token wrong in each other claim.
Envelopes ==
    [selects : {"idp", "partner", "nobody"}, iss : {"idp", "partner"},
     key : {"idpkey", "partnerkey"}, kid : {"k1", "k2"}, aud : {"garm"},
     exp : {1}, nbf : {0}, chain : {<<Scoped>>}]
    \cup {[Good(<<Scoped>>) EXCEPT !.aud = "else"], [Good(<<Scoped>>) EXCEPT !.exp = 0],
          [Good(<<Scoped>>) EXCEPT !.nbf = 4]}

\* Any chain and any envelope, beside a request of one of two principals.
AnyToken ==
    {Good(c) : c \in {<<h>> : h \in Hops} \cup (Hops \X Hops) \cup ({User} \X Hops \X Hops)
                       \cup {<<User, Agent, User, Agent>>, <<User, User, User, User, User>>,
                             <<User, Silent>>}}
    \cup Envelopes

MCRequesters == {"any", "other"}
MCTokens == [any |-> AnyToken, other |-> {Good(<<User>>), Good(<<User, Other>>)}]

MCTools == 1..3
Tool(verb, clearance, compartments, sets, audience, input, output) ==
    [verb |-> verb, clearance |-> clearance, compartments |-> compartments, sets |-> sets,
     audience |-> audience, input |-> input, output |-> output]
MCDecl ==
    <<Tool("read", 1, {}, {"ops", "pay"}, {}, "order", "line"),
      Tool("write", 1, {}, {}, {"AGENT", "PERSON"}, "line", "order"),
      Tool("read", 2, {"fin"}, {"ops"}, {"PERSON"}, "line", "line")>>

MCMessages == {"order", "line"}
MCFields == {"items", "items.cost", "sum"}
MCMessageOf == [f \in MCFields |-> IF f = "sum" THEN "line" ELSE "order"]
MCPathOf == [f \in MCFields |-> IF f = "items.cost" THEN {"items", f} ELSE {f}]
MCRuled == {"items.cost", "sum"}
MCPolicy == [f \in MCRuled |->
                IF f = "sum" THEN [read |-> 1, write |-> 2, need |-> {}]
                ELSE [read |-> 2, write |-> 1, need |-> {"fin"}]]
MCElements == {1, 2}

Standard(field) ==
    [field |-> field, path |-> "other", found |-> FALSE, traced |-> FALSE, refs |-> {}]
Cel(field, path, found, traced, refs) ==
    [field |-> field, path |-> path, found |-> found, traced |-> traced, refs |-> refs]

\* Of an order: a standard constraint on a field of an element, an expression of
\* the message over a field that may be hidden, and the same expression declared
\* on the collection outside its cel list.  Of a line: a rule that is not found and
\* one that cannot be traced.
MCRules ==
    <<{Standard("items.cost"), Cel(NoField, "none", TRUE, TRUE, {"items", "items.cost"}),
       Cel("items", "other", TRUE, TRUE, {"items.cost"})},
      {Cel("sum", "cel", FALSE, TRUE, {}), Cel("sum", "cel", TRUE, FALSE, {})},
      {}>>

Want(clearance, compartments, verbs, sets) ==
    [clearance |-> clearance, compartments |-> compartments, verbs |-> verbs, sets |-> sets]
MCWants == {Want(c, k, v, s) : c \in {0, 1}, k \in {{}, {"fin"}, {"hr"}},
                               v \in {{}, {"read"}}, s \in {{}, {"pay"}, {"ops", "pay"}}}
================================================================================

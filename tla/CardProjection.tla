----------------------------- MODULE CardProjection ----------------------------
(***************************************************************************)
(* Step 8's card walk (internal/toolplane, projectCards): what a reader is *)
(* shown of cards whose policy is carried by the value.                    *)
(*                                                                         *)
(* A response is a forest of labelled nodes numbered in document order.    *)
(* The roots are its cards.  Messages without an access label are          *)
(* transparent to the walk (floor, path and counts pass through them), so  *)
(* a node's parent here is the labelled node that encloses it.  Fields of  *)
(* map type are skipped by the walk and are not nodes; what encloses the   *)
(* cards of a page carries no label.                                       *)
(*                                                                         *)
(* The walk is depth first and keeps one list of what it withheld, with a  *)
(* mark per open node to cut the list back to.  A name in that list is the *)
(* node itself: its path, or the source field a Fact names.                *)
(***************************************************************************)
EXTENDS Naturals, Sequences, FiniteSets, FiniteSetsExt

CONSTANTS
    Size,           \* bound: labelled nodes of a response
    Labels,         \* labels a tool may put on a node
    NoLabel,        \* no access set
    Unreadable,     \* an access this build cannot read, or a moved field
    Floors,         \* endpoint floors: floorFor of a tool and its response
    Readers,        \* the principals that ask
    Declared        \* compartments the catalogue's registry knows

Nodes == 1..Size

ASSUME CardAssumption ==
    /\ Size \in Nat \ {0}
    /\ NoLabel \notin Labels /\ Unreadable \notin Labels /\ NoLabel # Unreadable
    /\ \A l \in Labels \cup Floors \cup Readers :
          /\ l.clearance \in Nat
          /\ l = [clearance |-> l.clearance, compartments |-> l.compartments]
    /\ \A r \in Readers : r.compartments \subseteq Declared

VARIABLES
    parent,     \* the enclosing node; 0 for a card
    label,      \* the access label of each node
    unary,      \* the response is a Card, not a message with cards in it
    floor,      \* floorFor
    reader,     \* cardWalk.principal
    phase,      \* "validate", "walk", or how step 8 ended
    next,       \* the node the walk comes to next
    open,       \* the nodes being projected, outermost first, with their marks
    withheld,   \* cardWalk.withheld
    alive,      \* the nodes still in the response
    disclosed   \* what each card's own Disclosure names

tree == <<parent, label, unary, floor, reader>>
walk == <<next, open, withheld, alive, disclosed>>
vars == <<tree, phase, walk>>

--------------------------------------------------------------------------------
(* The response.                                                            *)

\* The nodes enclosing n, and n.
PathTo ==
    LET up[n \in 0..Size] ==
          IF n = 0 THEN {} ELSE {n} \cup up[parent[n]]
    IN  up
Subtree(n) == {m \in Nodes : n \in PathTo[m]}
Children(n) == {m \in Nodes : parent[m] = n}

\* Document order: a node's parent is on the path to the node before it.
Forests ==
    {p \in [Nodes -> 0..Size] :
        \A n \in Nodes : p[n] < n /\ (n > 1 /\ p[n] # n - 1 =>
            \E k \in 1..(n - 1) : p[k] = p[n]
                /\ \A j \in (k + 1)..(n - 1) : p[j] >= k)}

Init ==
    /\ parent \in Forests
    /\ label \in [Nodes -> Labels \cup {NoLabel, Unreadable}]
    /\ unary \in BOOLEAN
    /\ unary => \A n \in Nodes : parent[n] = 0 => n = 1
    /\ floor \in Floors
    /\ reader \in Readers
    /\ phase = "validate"
    /\ next = 1
    /\ open = <<>>
    /\ withheld = <<>>
    /\ alive = Nodes
    /\ disclosed = [n \in Nodes |-> {}]

--------------------------------------------------------------------------------
(* Labels and floors.                                                       *)

HasLabel(n) == label[n] \in Labels

\* cardFloor.under: the higher clearance, and both sets of compartments.
under(f, l) ==
    [clearance |-> Max({f.clearance, l.clearance}),
     compartments |-> f.compartments \cup l.compartments]

\* cardFloor.admits: a label at or above the floor.
admits(f, l) == l.clearance >= f.clearance /\ f.compartments \subseteq l.compartments

\* The floor a node is read at: floorInside of every node around it.
floorAt ==
    LET inside[n \in 0..Size] ==
          IF n = 0 THEN floor
          ELSE IF HasLabel(n) THEN under(inside[parent[n]], label[n])
          ELSE inside[parent[n]]
    IN  [n \in Nodes |-> inside[parent[n]]]

\* A node without a label waved through.
reachesUnlabelled(n) ==
    HasLabel(n) => /\ reader.clearance >= label[n].clearance
                   /\ label[n].compartments \subseteq reader.compartments

\* A node is read at its own label alone, or at the floor when it has none; a
\* compartment nobody declared is one nobody holds.
reaches(n) ==
    LET l == IF HasLabel(n) THEN label[n] ELSE floorAt[n]
    IN  /\ label[n] # Unreadable
        /\ reader.clearance >= l.clearance
        /\ l.compartments \subseteq Declared
        /\ l.compartments \subseteq reader.compartments

--------------------------------------------------------------------------------
(* validate.                                                                *)

\* Every label held against the endpoint's floor only.
BelowEndpoint(n) ==
    \/ label[n] = Unreadable
    \/ HasLabel(n) /\ ~admits(floor, label[n])

\* A label that cannot be read, or that is below what encloses it.
Below(n) ==
    \/ label[n] = Unreadable
    \/ HasLabel(n) /\ ~admits(floorAt[n], label[n])

\* The whole tree is read before anything is removed, and one violation
\* refuses the call.
validate ==
    /\ phase = "validate"
    /\ phase' = IF \E n \in Nodes : Below(n) THEN "invalid" ELSE "walk"
    /\ UNCHANGED <<tree, walk>>

--------------------------------------------------------------------------------
(* projectCard and projectNode.                                             *)

Last == open[Len(open)]
IsCard(n) == parent[n] = 0

\* The walk is about to enter the next node, having left all that do not
\* enclose it.
Entering == phase = "walk" /\ next <= Size
            /\ (open # <<>> => Last.node \in PathTo[next])

\* note, and the node goes with everything in it.
Withhold(n, list) ==
    /\ withheld' = Append(list, n)
    /\ alive' = alive \ Subtree(n)

\* Not reached: noted, and the walk goes on behind it.
EnterWithheld ==
    /\ Entering /\ ~reaches(next)
    /\ Withhold(next, withheld)
    /\ next' = Max(Subtree(next)) + 1
    /\ UNCHANGED <<tree, phase, open, disclosed>>

\* Reached: its children are next, under the mark of now.
Enter ==
    /\ Entering /\ reaches(next)
    /\ open' = Append(open, [node |-> next, mark |-> Len(withheld)])
    /\ next' = next + 1
    /\ UNCHANGED <<tree, phase, withheld, alive, disclosed>>

\* The children of the last open node have all been visited.
Leaving == phase = "walk" /\ open # <<>>
           /\ (next <= Size => Last.node \notin PathTo[next])

Collapses(n) == Children(n) # {} /\ Children(n) \cap alive = {}

\* The parent's entry next to its children's.
CollapseKeepsEntries ==
    /\ Leaving /\ ~IsCard(Last.node) /\ Collapses(Last.node)
    /\ Withhold(Last.node, withheld)
    /\ open' = SubSeq(open, 1, Len(open) - 1)
    /\ UNCHANGED <<tree, phase, next, disclosed>>

\* Every labelled child went: the node goes whole, and its entry replaces
\* theirs.
Collapse ==
    /\ Leaving /\ ~IsCard(Last.node) /\ Collapses(Last.node)
    /\ Withhold(Last.node, SubSeq(withheld, 1, Last.mark))
    /\ open' = SubSeq(open, 1, Len(open) - 1)
    /\ UNCHANGED <<tree, phase, next, disclosed>>

Leave ==
    /\ Leaving /\ ~IsCard(Last.node) /\ ~Collapses(Last.node)
    /\ open' = SubSeq(open, 1, Len(open) - 1)
    /\ UNCHANGED <<tree, phase, next, withheld, alive, disclosed>>

\* What was withheld from a card is appended to the Disclosure it carries.
recordDisclosure(card, names) ==
    disclosed' = [disclosed EXCEPT ![card] = @ \cup names]

\* A card is never collapsed: what its own walk withheld is written on it.
LeaveCard ==
    /\ Leaving /\ IsCard(Last.node)
    /\ recordDisclosure(Last.node, {withheld[i] : i \in (Last.mark + 1)..Len(withheld)})
    /\ open' = SubSeq(open, 1, Len(open) - 1)
    /\ UNCHANGED <<tree, phase, next, withheld, alive>>

\* The unary answer withheld whole is the caller's NotFound.
Finish ==
    /\ phase = "walk" /\ next > Size /\ open = <<>>
    /\ phase' = IF unary /\ 1 \notin alive THEN "gone" ELSE "served"
    /\ UNCHANGED <<tree, walk>>

Next ==
    \/ validate
    \/ Enter \/ EnterWithheld
    \/ Leave \/ Collapse \/ LeaveCard
    \/ Finish

Spec == Init /\ [][Next]_vars

--------------------------------------------------------------------------------
(* Properties.                                                              *)

\* What a node demands of a reader: the endpoint's floor and every label on the
\* path to it.
Needs(n) ==
    LET labelled == {m \in PathTo[n] : HasLabel(m)}
    IN  [clearance |-> Max({floor.clearance} \cup {label[m].clearance : m \in labelled}),
         compartments |-> floor.compartments \cup UNION {label[m].compartments : m \in labelled}]

Deserves(n) == admits(Needs(n), reader)

\* The walk compares a reader with one label at a time; the outcome is the one
\* the whole path asks for (README: read "at the policy of whatever encloses
\* it").  What is served is every card and every innermost element whose path
\* the reader reaches, with what encloses them, and nothing else; the unary
\* answer is gone when its card is.
ServedIsWhatIsReached ==
    phase \in {"served", "gone"} =>
        /\ alive = UNION {PathTo[n] : n \in {m \in Nodes :
                    Deserves(m) /\ (IsCard(m) \/ Children(m) = {})}}
        /\ (phase = "gone") = (unary /\ ~Deserves(1))

\* "There is never a partial card" (sanitise.go): a card with a label below
\* what encloses it, at any depth, is refused before anything is removed, and
\* no other card is.
RefusedWhole ==
    LET looser == \E n \in Nodes :
            \/ label[n] = Unreadable
            \/ HasLabel(n) /\ label[n] # Needs(n)
    IN  phase # "validate" =>
            /\ (phase = "invalid") = looser
            /\ phase = "invalid" => alive = Nodes /\ withheld = <<>>

\* Every hole is accounted for once: the walk's list names the outermost nodes
\* that were removed, a surviving card's Disclosure those inside it and none of
\* its neighbours'.
EveryHoleIsNamed ==
    LET holes == {n \in Nodes \ alive : IsCard(n) \/ parent[n] \in alive}
    IN  phase \in {"served", "gone"} =>
            /\ {withheld[i] : i \in 1..Len(withheld)} = holes
            /\ Len(withheld) = Cardinality(holes)
            /\ \A c \in Nodes : IsCard(c) =>
                  disclosed[c] = {n \in holes : c \in alive /\ c \in PathTo[n]}
================================================================================

-------------------------------- MODULE FieldView -------------------------------
(***************************************************************************)
(* What a principal's shape is shown of a message, may set in it, and is   *)
(* told about it when it is wrong (internal/toolplane: schema.go,          *)
(* checkInputWrites, violations.go).  One plan decides all three.          *)
(*                                                                         *)
(* A field is a path in a message type; PathOf names the fields along it,  *)
(* itself included.  A shape is any record with clearance and              *)
(* compartments.  A request is one set of fields per element of a          *)
(* collection it carries, because a path through a repeated field stands   *)
(* for that field in every element.  Self-referential messages, which the  *)
(* projection renders without properties, are left out.                    *)
(***************************************************************************)
EXTENDS Naturals

CONSTANTS
    Messages,   \* message descriptors
    Fields,     \* field paths
    NoField,    \* the path of a rule on the message itself
    MessageOf,  \* the message a field path starts from
    PathOf,     \* the fields along a path
    Ruled,      \* the paths a plan has an action for
    Policy,     \* that action: [read, write, need]
    Elements    \* elements of the collection a request may carry

ASSUME FieldAssumption ==
    /\ NoField \notin Fields
    /\ MessageOf \in [Fields -> Messages]
    /\ PathOf \in [Fields -> SUBSET Fields]
    /\ \A f \in Fields : f \in PathOf[f] /\ \A g \in PathOf[f] :
            PathOf[g] \subseteq PathOf[f] /\ MessageOf[g] = MessageOf[f]
    /\ Ruled \subseteq Fields
    /\ \A f \in Ruled : Policy[f].read \in Nat /\ Policy[f].write \in Nat

\* policy.Allows and CompartmentSet.Covers, on one action.
Clears(shape, f, dim) ==
    /\ shape.clearance >= (IF dim = "write" THEN Policy[f].write ELSE Policy[f].read)
    /\ Policy[f].need \subseteq shape.compartments

\* A field is absent when the plan denies it or anything it lies under.
project(m, shape, dim) ==
    {f \in Fields : MessageOf[f] = m /\ \A g \in PathOf[f] \cap Ruled : Clears(shape, g, dim)}

\* The requests of type m: a field that is set is inside fields that are set.
Requests(m) ==
    [Elements -> {R \in SUBSET {f \in Fields : MessageOf[f] = m} :
                    \A f \in R : PathOf[f] \subseteq R}]

\* The first element looked at.
fieldIsSetFirst(req, f) == f \in req[CHOOSE e \in Elements : TRUE]

fieldIsSet(req, f) == \E e \in Elements : f \in req[e]

\* Step 3: no field is set that the shape may not write.
checkInputWrites(shape, m, req) ==
    \A f \in Ruled : MessageOf[f] = m /\ fieldIsSet(req, f) => Clears(shape, f, "write")

--------------------------------------------------------------------------------
(* A rule of a request's schema is [field, path, found, traced, refs]: the  *)
(* field it is reported on; the rule path it is reported with, "none" for a *)
(* CEL rule of the message, "cel" for one in a field's list of that name    *)
(* and "other" for anything else; whether its declaration is found again;   *)
(* whether every selection in its expression goes back to a name that is    *)
(* bound; and the fields it selects off "this".  A standard constraint has  *)
(* path "other" and selects nothing.  So has, by its path, an expression    *)
(* declared anywhere else, whatever it selects; and an expression that uses *)
(* "this" whole selects nothing, whatever it reads.                         *)

\* What celRuleFor takes for a CEL rule: it goes by the rule path.
isCEL(r) == r.path \in {"none", "cel"}

\* A CEL rule whose id is declared twice, or is not the one at its index, is
\* not found.
celRuleFor(r) == r.found

\* A comprehension, an index or an unknown name leaves the fields unknown.
celFieldRefs(r) == r.traced

\* The schema has a path when it has every name along it; elements are looked
\* through, and the empty path is the message itself.
admittedPath(schema, f) == f = NoField \/ f \in schema

\* Only the field the rule is reported on is looked up.
admittedFieldOnly(schema, r) ==
    /\ admittedPath(schema, r.field)
    /\ isCEL(r) => celRuleFor(r) /\ celFieldRefs(r)

\* admittedViolations, for one violation: what a CEL rule selects is looked up
\* too, and nothing else is of any other rule.
admitted(schema, r) ==
    /\ admittedPath(schema, r.field)
    /\ isCEL(r) => /\ celRuleFor(r)
                   /\ celFieldRefs(r)
                   /\ \A f \in r.refs : admittedPath(schema, f)
================================================================================

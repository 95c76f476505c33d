------------------------------ MODULE Matchers ------------------------------
(***************************************************************************)
(* Matchers of label values (pkg/inverted/labels/matcher.go).  A regular   *)
(* expression is the set of the label values it matches, and whether it is *)
(* written as a set of literals.                                           *)
(***************************************************************************)

CONSTANT NoValue    \* the empty string

Matcher(type, name, values, literal) ==
    [type |-> type, name |-> name, values |-> values, literal |-> literal]

Negative(m) == m.type \in {"!=", "!~"}
Matches(m, v) == (v \in m.values) = ~Negative(m)

Inverse_(m) == [m EXCEPT !.type =
    CASE @ = "=" -> "!=" [] @ = "!=" -> "=" [] @ = "=~" -> "!~" [] OTHER -> "=~"]
=============================================================================

----------------------------- MODULE MCDslFilter -----------------------------
(* DslFilter with a nullable field a and a field b, every condition on a,   *)
(* malformed ones included, and groups of up to three filters.             *)
EXTENDS DslFilter, TLC

MCFields == {"a", "b"}
MCRows == {("a" :> x) @@ ("b" :> y) : x \in Values \cup {Null}, y \in Values}

MCText == (1 :> <<"x">>) @@ (2 :> <<"X", "y">>)
MCLower == [c \in {"x", "X", "y", "%", "_"} |-> IF c = "X" THEN "x" ELSE c]

Condition(f, op, vs, type, pattern) ==
    [field |-> f, op |-> op, values |-> vs, type |-> type, pattern |-> pattern]

MCConditions ==
    {Condition("a", op, {v}, "int", <<>>) :
        op \in Ordering \cup {"$eq", "$ne", "$isNull", "$isNotNull"},
        v \in Values \cup {Null}}
    \cup {Condition("a", op, vs, "list", <<>>) :
            op \in Lists, vs \in SUBSET (Values \cup {Null})}
    \cup {Condition("a", op, {1}, type, <<"x">>) :
            op \in Lists \cup Patterns, type \in {"int", "str"}}
    \cup {Condition("a", op, {}, "str", p) :
            op \in Patterns, p \in {<<"x", "%">>, <<"X", "_">>, <<"_", "%", "y">>}}
    \cup {Condition("b", "$eq", {1}, "int", <<>>),
          Condition("secret", "$eq", {1}, "int", <<>>)}
=============================================================================

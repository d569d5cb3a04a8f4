------------------------------ MODULE DslFilter ------------------------------
(***************************************************************************)
(* find() with a filter tree of the DSL: whether the two compilers let it   *)
(* return a row.  SQL decides a condition in three truth values, of which   *)
(* only "true" selects a row; Mongo decides in two and compares with null   *)
(* as with any value.                                                      *)
(*                                                                         *)
(* Both compile_filter are recursive and go through a tree alike, children  *)
(* before their parent: a step is one call of both that returns, and        *)
(* results holds what the calls returned whose caller still runs.  Every    *)
(* finite tree is a behaviour.  An adapter decides each row by itself, so   *)
(* a behaviour follows one row of the table.                               *)
(***************************************************************************)
EXTENDS Integers, Sequences

CONSTANTS
    Values,     \* the values of a field that are not null
    Fields,     \* filter_whitelist
    Rows,       \* the table: functions of the fields
    Conditions, \* the leaves of the trees
    Text,       \* the characters of a value that is a text
    Lower,      \* the small letter of a character
    MaxOpen     \* bound: results that wait for their caller

Null == 0
AnyChar == "any"    \* the regex .

Ordering == {"$gt", "$gte", "$lt", "$lte"}
Lists == {"$in", "$nin"}
Patterns == {"$like", "$ilike"}
NullTests == {"$isNull", "$isNotNull"}

\* A condition keeps its value as a set, of one element unless the operator
\* takes a list, and str(value) as its pattern.  The texts have one line and
\* the patterns no backslash.
ASSUME DslAssumption ==
    /\ Values \subseteq Nat \ {Null}
    /\ Rows \subseteq [Fields -> Values \cup {Null}]
    /\ \A c \in Conditions :
          /\ c.op \in {"$eq", "$ne"} \cup Ordering \cup Lists \cup Patterns \cup NullTests
          /\ c.values \subseteq Values \cup {Null}
          /\ c.op \in Ordering \cup {"$eq", "$ne"} => \E v \in c.values : c.values = {v}
          /\ c.pattern \in Seq(STRING \ {AnyChar, "\\"})
    /\ Text \in [Values -> Seq(STRING \ {"\n"})]
    /\ MaxOpen \in Nat

VARIABLES
    row,        \* a row of the table
    searches,   \* whether the repository has a search function
    results,    \* what the calls of compile_filter returned
    sql,        \* what SqlAlchemyRepository.find does with the row
    mongo       \* what MongoRepository.find does with the row

vars == <<row, searches, results, sql, mongo>>

Truths == {"true", "false", "unknown"}

\* A call that returned, or raised: the condition that SQL and Mongo evaluate
\* for the row, and of the tree compiled what it says of a row without nulls,
\* whether it holds no null, and whether it holds a search.
Result == [sql : Truths \cup {"refused"},
           mongo : {"true", "false", "refused"},
           says : {"true", "false"}, nullFree : BOOLEAN, search : BOOLEAN]

Truth(b) == IF b THEN "true" ELSE "false"

ValueOf(c) == CHOOSE v \in c.values : TRUE

IsNull(c) == c.values = {Null}

Compares(op, a, b) ==
    \/ op = "$gt" /\ a > b
    \/ op = "$gte" /\ a >= b
    \/ op = "$lt" /\ a < b
    \/ op = "$lte" /\ a <= b

-----------------------------------------------------------------------------
(* Patterns: a text matches when it can be cut into what the parts match. *)

Cuts(parts, text) ==
    {cut \in [0..Len(parts) -> 0..Len(text)] :
        /\ cut[0] = 0 /\ cut[Len(parts)] = Len(text)
        /\ \A i \in 1..Len(parts) : cut[i - 1] <= cut[i]}

Same(op, c, d) == c = d \/ (op = "$ilike" /\ Lower[c] = Lower[d])

\* LIKE and ILIKE.
LikePart(op, c, text, from, to) ==
    \/ c = "%"
    \/ to = from + 1 /\ (c = "_" \/ Same(op, c, text[to]))

Like(op, pattern, text) ==
    \E cut \in Cuts(pattern, text) : \A i \in 1..Len(pattern) :
        LikePart(op, pattern[i], text, cut[i - 1], cut[i])

\* Mutant: _ matches a run of characters.
UnderscoreAsRun(pattern) ==
    [i \in DOMAIN pattern |->
        [char |-> IF pattern[i] \in {"%", "_"} THEN AnyChar ELSE pattern[i],
         star |-> pattern[i] \in {"%", "_"}]]

\* The regex: .* for %, . for _, and the character itself, escaped.
CompileLikePattern(pattern) ==
    [i \in DOMAIN pattern |->
        [char |-> IF pattern[i] \in {"%", "_"} THEN AnyChar ELSE pattern[i],
         star |-> pattern[i] = "%"]]

RegexPart(op, part, text, from, to) ==
    /\ part.star \/ to = from + 1
    /\ \A k \in (from + 1)..to : part.char = AnyChar \/ Same(op, part.char, text[k])

Regex(op, parts, text) ==
    \E cut \in Cuts(parts, text) : \A i \in 1..Len(parts) :
        RegexPart(op, parts[i], text, cut[i - 1], cut[i])

-----------------------------------------------------------------------------
(* SQLAlchemy and SQL. *)

\* Mutant: NOT as IS NOT TRUE.
IsNotTrue(t) == IF t = "refused" THEN t ELSE Truth(t # "true")

Not(t) == CASE t = "true" -> "false"
            [] t = "false" -> "true"
            [] OTHER -> t

SqlIn(v, list) ==
    IF list = {} THEN "false"
    ELSE IF v = Null THEN "unknown"
    ELSE IF v \in list THEN "true"
    ELSE IF Null \in list THEN "unknown" ELSE "false"

\* A comparison of a value that is not null.
Holds(c, v) ==
    \/ c.op = "$eq" /\ v \in c.values
    \/ c.op = "$ne" /\ v \notin c.values
    \/ c.op \in Patterns /\ Like(c.op, c.pattern, Text[v])
    \/ Compares(c.op, v, ValueOf(c))

\* = and != with None become IS NULL and IS NOT NULL.
NullTest(c) == c.op \in NullTests \/ (c.op \in {"$eq", "$ne"} /\ IsNull(c))

SqlEvaluates(c, v) ==
    IF NullTest(c) THEN Truth(c.op \in {"$isNull", "$eq"} <=> v = Null)
    ELSE IF c.op = "$in" THEN SqlIn(v, c.values)
    ELSE IF c.op = "$nin" THEN Not(SqlIn(v, c.values))
    ELSE IF v = Null THEN "unknown"
    ELSE Truth(Holds(c, v))

\* ValueError, and the ArgumentError of SQLAlchemy for an order of None.
SqlRefuses(c) ==
    \/ c.field \notin Fields
    \/ c.op \in Lists /\ c.type # "list"
    \/ c.op \in Patterns /\ c.type # "str"
    \/ c.op \in Ordering /\ IsNull(c)

SqlCondition(c) == IF SqlRefuses(c) THEN "refused" ELSE SqlEvaluates(c, row[c.field])

SqlGroup(op, parts) ==
    LET decisive == IF op = "$and" THEN "false" ELSE "true" IN
    IF parts = {} \/ "refused" \in parts THEN "refused"
    ELSE IF decisive \in parts THEN decisive
    ELSE IF "unknown" \in parts THEN "unknown"
    ELSE Not(decisive)

-----------------------------------------------------------------------------
(* Mongo. *)

MongoEvaluates(c, v) ==
    \/ c.op = "$isNull" /\ v = Null
    \/ c.op = "$isNotNull" /\ v # Null
    \/ c.op \in {"$eq", "$in"} /\ v \in c.values
    \/ c.op \in {"$ne", "$nin"} /\ v \notin c.values
    \/ /\ c.op \in Patterns /\ v # Null
       /\ Regex(c.op, CompileLikePattern(c.pattern), Text[v])
    \/ (v = Null <=> IsNull(c)) /\ Compares(c.op, v, ValueOf(c))

\* ValueError for a field, TypeError for list() of a number or None.
MongoRefuses(c) ==
    \/ c.field \notin Fields
    \/ c.op \in Lists /\ c.type \notin {"list", "str"}

MongoCondition(c) ==
    IF MongoRefuses(c) THEN "refused" ELSE Truth(MongoEvaluates(c, row[c.field]))

\* Mutant: every group is compiled to $and.
MongoAnd(op, parts) ==
    IF "refused" \in parts THEN "refused" ELSE Truth("false" \notin parts)

\* An empty group is the filter {}, which every document matches.
MongoGroup(op, parts) ==
    IF "refused" \in parts THEN "refused"
    ELSE Truth(\/ parts = {}
               \/ op = "$and" /\ "false" \notin parts
               \/ op = "$or" /\ "true" \in parts)

Nor(t) == Not(t)

-----------------------------------------------------------------------------
(* What a tree says of a row without nulls, in two truth values. *)

Whole(r) == \A f \in DOMAIN r : r[f] # Null

NullFree(c) == c.op \in NullTests \cup Patterns \/ Null \notin c.values

Says(c, v) ==
    \/ c.op = "$isNotNull"
    \/ c.op = "$in" /\ v \in c.values
    \/ c.op = "$nin" /\ v \notin c.values
    \/ Holds(c, v)

ConditionSays(c) == Truth(c.field \in Fields /\ row[c.field] # Null /\ Says(c, row[c.field]))

GroupSays(op, parts) == Truth(IF op = "$and" THEN "false" \notin parts ELSE "true" \in parts)

-----------------------------------------------------------------------------
(* The calls of compile_filter. *)

Init ==
    /\ row \in Rows
    /\ searches \in BOOLEAN
    /\ results = <<>>
    /\ sql = "pending" /\ mongo = "pending"

\* The call takes the last n results, its children's, and returns result.
Return(n, result) ==
    /\ sql = "pending" /\ mongo = "pending"
    /\ Len(results) - n < MaxOpen
    /\ results' = Append(SubSeq(results, 1, Len(results) - n), result)
    /\ UNCHANGED <<row, searches, sql, mongo>>

ConditionResult(c) ==
    [sql |-> SqlCondition(c), mongo |-> MongoCondition(c),
     says |-> ConditionSays(c), nullFree |-> NullFree(c), search |-> FALSE]

CompileCondition(c) == Return(0, ConditionResult(c))

SearchResult(found) ==
    [sql |-> IF searches THEN found ELSE "refused", mongo |-> "refused",
     says |-> Truth(found = "true"), nullFree |-> TRUE, search |-> TRUE]

\* The search function of the repository finds the row, or not; of a null it
\* may not know.  Mongo has no search: TypeError.
CompileSearch(found) ==
    /\ Whole(row) => found # "unknown"
    /\ Return(0, SearchResult(found))

GroupResult(op, children) ==
    [sql |-> SqlGroup(op, {r.sql : r \in children}),
     mongo |-> MongoGroup(op, {r.mongo : r \in children}),
     says |-> GroupSays(op, {r.says : r \in children}),
     nullFree |-> \A r \in children : r.nullFree,
     search |-> \E r \in children : r.search]

CompileGroup(op, n) ==
    Return(n, GroupResult(op, {results[i] : i \in (Len(results) - n + 1)..Len(results)}))

NegationResult(r) ==
    [r EXCEPT !.sql = Not(r.sql), !.mongo = Nor(r.mongo), !.says = Not(r.says)]

CompileNegation ==
    results # <<>> /\ Return(1, NegationResult(results[Len(results)]))

-----------------------------------------------------------------------------
(* find: the query is run once the call for its root returned, or there is  *)
(* no query.                                                               *)

Answer(t) == CASE t = "true" -> "returned"
               [] t = "refused" -> "refused"
               [] OTHER -> "left out"

AnswerOf(t) == IF results = <<>> THEN "returned" ELSE Answer(t)

FindSql ==
    /\ sql = "pending" /\ Len(results) <= 1
    /\ sql' = AnswerOf(results[1].sql)
    /\ UNCHANGED <<row, searches, results, mongo>>

FindMongo ==
    /\ mongo = "pending" /\ Len(results) <= 1
    /\ mongo' = AnswerOf(results[1].mongo)
    /\ UNCHANGED <<row, searches, results, sql>>

Answered == "pending" \notin {sql, mongo} /\ UNCHANGED vars

Next ==
    \/ \E c \in Conditions : CompileCondition(c)
    \/ \E found \in Truths : CompileSearch(found)
    \/ \E op \in {"$and", "$or"}, n \in 0..Len(results) : CompileGroup(op, n)
    \/ CompileNegation
    \/ FindSql \/ FindMongo
    \/ Answered

Spec == Init /\ [][Next]_vars

-----------------------------------------------------------------------------
(* Properties. *)

TypeOK ==
    /\ row \in Rows /\ searches \in BOOLEAN
    /\ results \in Seq(Result)
    /\ {sql, mongo} \subseteq {"pending", "returned", "left out", "refused"}

\* The same tree never selects a row in SQL that it does not select in Mongo,
\* nulls, negations and lists with nulls included: what SQL leaves unknown,
\* Mongo decides, and what SQL decides, Mongo decides alike.  A tree that SQL
\* accepts Mongo refuses for a search only.
SqlSelectsNoMore ==
    sql = "returned" =>
        \/ mongo \in {"pending", "returned"}
        \/ mongo = "refused" /\ \E i \in DOMAIN results : results[i].search

\* Of a row without nulls, and for a tree without nulls, both adapters do what
\* the tree says (dsl.md: one format for SQLAlchemy and for other backends).
SameWithoutNulls ==
    Whole(row) /\ sql \notin {"pending", "refused"} =>
        \A i \in DOMAIN results : results[i].nullFree =>
            /\ sql = Answer(results[i].says)
            /\ mongo \notin {"pending", "refused"} => mongo = Answer(results[i].says)

-----------------------------------------------------------------------------
(* The inductive invariant behind them. *)

\* The two conditions that compile_filter returned for a tree agree.
Agrees(r) ==
    /\ r.sql = "true" => r.mongo \in {"true", "refused"}
    /\ r.sql = "false" => r.mongo \in {"false", "refused"}
    /\ r.sql # "refused" /\ ~r.search => r.mongo # "refused"

\* Without nulls they are what the tree says.
MeansIt(r) ==
    r.nullFree /\ r.sql # "refused" =>
        r.sql = r.says /\ r.mongo \in {r.says, "refused"}

Sound(r) == Agrees(r) /\ (Whole(row) => MeansIt(r))

\* Every call of compile_filter, whatever part of a tree it compiled, returned
\* conditions that agree, and each adapter answers with its own of the root.
EveryCallSound ==
    /\ TypeOK
    /\ \A i \in DOMAIN results : Sound(results[i])
    /\ sql # "pending" =>
          Len(results) <= 1 /\ sql = AnswerOf(results[1].sql)
    /\ mongo # "pending" =>
          Len(results) <= 1 /\ mongo = AnswerOf(results[1].mongo)
=============================================================================

------------------------------ MODULE DslProofs ------------------------------
(***************************************************************************)
(* Proofs about DslFilter: whatever tree a request brings, of any depth and *)
(* over any values, the two adapters agree on a row as far as               *)
(* SqlSelectsNoMore and SameWithoutNulls say.                              *)
(*                                                                         *)
(* The argument is structural induction over the tree, which the steps of   *)
(* the model turn into induction over time: the result of a call is sound   *)
(* when the results of the calls it made are (EveryCallSound).             *)
(***************************************************************************)
EXTENDS DslFilter, SequenceTheorems, TLAPS

-----------------------------------------------------------------------------
(* Truth values. *)

LEMMA TruthValue ==
    ASSUME NEW b \in BOOLEAN
    PROVE  /\ Truth(b) \in {"true", "false"}
           /\ Truth(b) = "true" <=> b
           /\ Truth(b) = "false" <=> ~b
  BY DEF Truth

LEMMA NotValue ==
    /\ Not("true") = "false" /\ Not("false") = "true"
    /\ Not("unknown") = "unknown" /\ Not("refused") = "refused"
  BY DEF Not

LEMMA NorValue == \A t : Nor(t) = Not(t)
  BY DEF Nor

-----------------------------------------------------------------------------
(* _compile_like_pattern: the regex matches what the pattern matches. *)

\* A part of the regex, %, _ or a character, matches a cut of the text iff the
\* part of the pattern does that it was compiled from.
LEMMA SamePart ==
    ASSUME NEW op, NEW pattern \in Seq(STRING \ {AnyChar, "\\"}), NEW text,
           NEW i \in DOMAIN pattern, NEW from \in Nat, NEW to \in Nat, from <= to
    PROVE  RegexPart(op, CompileLikePattern(pattern)[i], text, from, to)
             <=> LikePart(op, pattern[i], text, from, to)
<1> DEFINE part == CompileLikePattern(pattern)[i]
<1>1. /\ part.char = (IF pattern[i] \in {"%", "_"} THEN AnyChar ELSE pattern[i])
      /\ part.star <=> pattern[i] = "%"
  BY DEF CompileLikePattern
<1>2. pattern[i] # AnyChar
  OBVIOUS
<1>3. CASE pattern[i] = "%"
  BY <1>1, <1>3 DEF RegexPart, LikePart
<1>4. CASE pattern[i] # "%" /\ to = from + 1
  <2>1. (from + 1)..to = {to}
    BY <1>4
  <2>2. RegexPart(op, part, text, from, to)
          <=> part.char = AnyChar \/ Same(op, part.char, text[to])
    BY <1>1, <1>4, <2>1 DEF RegexPart
  <2> QED
    BY <1>1, <1>2, <1>4, <2>2 DEF LikePart
<1>5. CASE pattern[i] # "%" /\ to # from + 1
  BY <1>1, <1>5 DEF RegexPart, LikePart
<1> QED
  BY <1>3, <1>4, <1>5

\* The regex that _compile_like_pattern makes of a pattern matches a text of one
\* line iff LIKE does, whatever wildcards and characters the pattern has.
THEOREM SamePattern ==
    ASSUME NEW op, NEW pattern \in Seq(STRING \ {AnyChar, "\\"}), NEW text,
           Len(text) \in Nat
    PROVE  Regex(op, CompileLikePattern(pattern), text) <=> Like(op, pattern, text)
<1> DEFINE parts == CompileLikePattern(pattern)
<1>1. /\ Len(parts) = Len(pattern) /\ Len(pattern) \in Nat
      /\ DOMAIN pattern = 1..Len(pattern)
  <2>1. Len(pattern) \in Nat /\ DOMAIN pattern = 1..Len(pattern)
    OBVIOUS
  <2>2. DOMAIN parts = 1..Len(pattern)
    BY <2>1 DEF CompileLikePattern
  <2>3. parts \in Seq({parts[i] : i \in 1..Len(pattern)})
    <3> DEFINE S == {parts[i] : i \in 1..Len(pattern)}
    <3>1. parts = [i \in 1..Len(pattern) |-> parts[i]]
      BY <2>1 DEF CompileLikePattern
    <3> HIDE DEF parts
    <3>2. parts \in [1..Len(pattern) -> S]
      BY <3>1
    <3> HIDE DEF S
    <3>3. parts \in Seq(S)
      BY <2>1, <3>2, SeqDef
    <3> QED
      BY <3>3 DEF S
  <2> HIDE DEF parts
  <2> QED
    BY <2>1, <2>2, <2>3, LenProperties
<1>2. Cuts(parts, text) = Cuts(pattern, text)
  BY <1>1 DEF Cuts
<1>3. ASSUME NEW cut \in Cuts(pattern, text), NEW i \in 1..Len(pattern)
      PROVE  RegexPart(op, parts[i], text, cut[i - 1], cut[i])
               <=> LikePart(op, pattern[i], text, cut[i - 1], cut[i])
  <2>1. i - 1 \in 0..Len(pattern) /\ i \in 0..Len(pattern) /\ i \in DOMAIN pattern
    BY <1>1
  <2>2. cut \in [0..Len(pattern) -> 0..Len(text)] /\ cut[i - 1] <= cut[i]
    BY <1>3 DEF Cuts
  <2>3. cut[i - 1] \in Nat /\ cut[i] \in Nat
    BY <2>1, <2>2
  <2> QED
    BY <2>1, <2>2, <2>3, SamePart
<1> HIDE DEF parts
<1>4. Regex(op, parts, text) <=>
        \E cut \in Cuts(pattern, text) : \A i \in 1..Len(pattern) :
            RegexPart(op, parts[i], text, cut[i - 1], cut[i])
  BY <1>1, <1>2 DEF Regex
<1>5. \A cut \in Cuts(pattern, text) :
        (\A i \in 1..Len(pattern) :
            RegexPart(op, parts[i], text, cut[i - 1], cut[i]))
          <=> \A i \in 1..Len(pattern) :
                LikePart(op, pattern[i], text, cut[i - 1], cut[i])
  BY <1>3
<1> QED
  BY <1>4, <1>5 DEF Like, parts

-----------------------------------------------------------------------------
(* Conditions. *)

\* The value that a row has for a field, and its text.
LEMMA RowValue ==
    ASSUME NEW c \in Conditions, row \in Rows, c.field \in Fields
    PROVE  /\ row[c.field] \in Values \cup {Null}
           /\ Whole(row) => row[c.field] # Null
  BY DslAssumption DEF Whole

\* SQL in its three truth values and Mongo in its two: when SQL decides a
\* condition that it accepts, Mongo decides it alike.
LEMMA SqlDecidesAsMongo ==
    ASSUME NEW c \in Conditions, NEW v \in Values \cup {Null}, ~SqlRefuses(c)
    PROVE  /\ SqlEvaluates(c, v) \in Truths
           /\ SqlEvaluates(c, v) = "true" => MongoEvaluates(c, v)
           /\ SqlEvaluates(c, v) = "false" => ~MongoEvaluates(c, v)
<1> DEFINE sqlv == SqlEvaluates(c, v)
           mongov == MongoEvaluates(c, v)
<1>1. CASE c.op \in NullTests
  <2>1. sqlv = Truth(c.op = "$isNull" <=> v = Null)
    BY <1>1 DEF SqlEvaluates, NullTest, NullTests
  <2>2. mongov <=> (c.op = "$isNull" <=> v = Null)
    BY <1>1 DEF MongoEvaluates, NullTests, Patterns, Compares
  <2> QED
    BY <2>1, <2>2 DEF Truth, Truths
<1>2. CASE c.op \in {"$eq", "$ne"}
  <2>1. mongov <=> (c.op = "$eq" <=> v \in c.values)
    BY <1>2 DEF MongoEvaluates, Patterns, Compares
  <2>2. CASE IsNull(c)
    <3>1. sqlv = Truth(c.op = "$eq" <=> v = Null)
      BY <1>2, <2>2 DEF SqlEvaluates, NullTest, NullTests
    <3>2. v \in c.values <=> v = Null
      BY <2>2 DEF IsNull
    <3> QED
      BY <2>1, <3>1, <3>2 DEF Truth, Truths
  <2>3. CASE ~IsNull(c) /\ v # Null
    <3>1. sqlv = Truth(Holds(c, v))
      BY <1>2, <2>3 DEF SqlEvaluates, NullTest, NullTests
    <3>2. Holds(c, v) <=> (c.op = "$eq" <=> v \in c.values)
      BY <1>2 DEF Holds, Patterns, Compares
    <3> QED
      BY <2>1, <3>1, <3>2 DEF Truth, Truths
  <2>4. CASE ~IsNull(c) /\ v = Null
    BY <1>2, <2>4 DEF SqlEvaluates, NullTest, NullTests, Truths
  <2> QED
    BY <2>2, <2>3, <2>4
<1>3. CASE c.op \in Lists
  <2>1. mongov <=> (c.op = "$in" <=> v \in c.values)
    BY <1>3 DEF MongoEvaluates, Lists, Patterns, Compares
  <2>2. sqlv = IF c.op = "$in" THEN SqlIn(v, c.values) ELSE Not(SqlIn(v, c.values))
    BY <1>3 DEF SqlEvaluates, NullTest, NullTests, Lists
  <2>3. /\ SqlIn(v, c.values) \in Truths
        /\ SqlIn(v, c.values) = "true" => v \in c.values
        /\ SqlIn(v, c.values) = "false" => v \notin c.values
    BY DEF SqlIn, Truths
  <2> QED
    BY <2>1, <2>2, <2>3, NotValue DEF Truths
<1>4. CASE c.op \in Ordering \cup Patterns
  <2>1. CASE v = Null
    BY <1>4, <2>1 DEF SqlEvaluates, NullTest, NullTests, Ordering, Patterns, Truths
  <2>2. CASE v # Null
    <3>1. sqlv = Truth(Holds(c, v))
      BY <1>4, <2>2 DEF SqlEvaluates, NullTest, NullTests, Ordering, Patterns
    <3>2. CASE c.op \in Patterns
      <4>1. Regex(c.op, CompileLikePattern(c.pattern), Text[v])
              <=> Like(c.op, c.pattern, Text[v])
        <5>1. /\ Text[v] \in Seq(STRING \ {"\n"})
              /\ c.pattern \in Seq(STRING \ {AnyChar, "\\"})
          BY DslAssumption, <2>2
        <5>2. Len(Text[v]) \in Nat
          BY <5>1, LenProperties
        <5> QED
          BY <5>1, <5>2, SamePattern
      <4>2. mongov <=> Regex(c.op, CompileLikePattern(c.pattern), Text[v])
        BY <2>2, <3>2 DEF MongoEvaluates, Patterns, Compares
      <4>3. Holds(c, v) <=> Like(c.op, c.pattern, Text[v])
        BY <3>2 DEF Holds, Patterns, Compares
      <4> QED
        BY <3>1, <4>1, <4>2, <4>3 DEF Truth, Truths
    <3>3. CASE c.op \in Ordering
      <4>1. mongov <=> Compares(c.op, v, ValueOf(c))
        BY <2>2, <3>3 DEF MongoEvaluates, SqlRefuses, Ordering, Patterns
      <4>2. Holds(c, v) <=> Compares(c.op, v, ValueOf(c))
        BY <3>3 DEF Holds, Ordering, Patterns
      <4> QED
        BY <3>1, <4>1, <4>2 DEF Truth, Truths
    <3> QED
      BY <1>4, <3>2, <3>3
  <2> QED
    BY <2>1, <2>2
<1> QED
  BY DslAssumption, <1>1, <1>2, <1>3, <1>4

\* Of a value that is not null, and without nulls, both say what it says.
LEMMA NullFreeMeansIt ==
    ASSUME NEW c \in Conditions, NEW v \in Values, NullFree(c)
    PROVE  /\ SqlEvaluates(c, v) = Truth(Says(c, v))
           /\ ~SqlRefuses(c) => (MongoEvaluates(c, v) <=> Says(c, v))
<1> DEFINE sqlv == SqlEvaluates(c, v)
<1>1. v # Null
  BY DslAssumption
<1>2. sqlv = Truth(Says(c, v))
  <2>1. CASE c.op \in NullTests
    <3>1. sqlv = Truth(c.op = "$isNotNull")
      BY <1>1, <2>1 DEF SqlEvaluates, NullTest, NullTests
    <3>2. Says(c, v) <=> c.op = "$isNotNull"
      BY <2>1 DEF Says, Holds, NullTests, Patterns, Compares
    <3> QED
      BY <3>1, <3>2 DEF Truth
  <2>2. CASE c.op \in Lists
    <3>1. SqlIn(v, c.values) = Truth(v \in c.values)
      BY <1>1, <2>2 DEF SqlIn, NullFree, Lists, NullTests, Patterns, Truth
    <3>2. sqlv = IF c.op = "$in" THEN SqlIn(v, c.values) ELSE Not(SqlIn(v, c.values))
      BY <2>2 DEF SqlEvaluates, NullTest, NullTests, Lists
    <3>3. Says(c, v) <=> (c.op = "$in" <=> v \in c.values)
      BY <2>2 DEF Says, Holds, Lists, Patterns, Compares
    <3> QED
      BY <3>1, <3>2, <3>3 DEF Truth, Not
  <2>3. CASE c.op \in {"$eq", "$ne"} \cup Ordering \cup Patterns
    <3>1. Says(c, v) <=> Holds(c, v)
      BY <2>3 DEF Says, Ordering, Patterns
    <3>2. ~NullTest(c)
      BY <2>3 DEF NullTest, NullTests, IsNull, NullFree, Ordering, Patterns
    <3>3. sqlv = Truth(Holds(c, v))
      BY <1>1, <2>3, <3>2 DEF SqlEvaluates, Ordering, Patterns
    <3> QED
      BY <3>1, <3>3 DEF Truth
  <2> QED
    BY DslAssumption, <2>1, <2>2, <2>3
<1>3. ASSUME ~SqlRefuses(c) PROVE MongoEvaluates(c, v) <=> Says(c, v)
  BY <1>2, <1>3, SqlDecidesAsMongo DEF Truth
<1> QED
  BY <1>2, <1>3

\* What both compilers return for a condition is sound.
LEMMA ConditionSound ==
    ASSUME NEW c \in Conditions, row \in Rows
    PROVE  ConditionResult(c) \in Result /\ Sound(ConditionResult(c))
<1> DEFINE r == ConditionResult(c)
           v == row[c.field]
<1>1. /\ r.sql = SqlCondition(c) /\ r.mongo = MongoCondition(c)
      /\ r.says = ConditionSays(c) /\ r.nullFree = NullFree(c) /\ r.search = FALSE
      /\ r = [sql |-> r.sql, mongo |-> r.mongo, says |-> r.says,
              nullFree |-> r.nullFree, search |-> r.search]
  BY DEF ConditionResult
<1>2. r.says \in {"true", "false"} /\ r.nullFree \in BOOLEAN
  BY <1>1 DEF ConditionSays, Truth, NullFree
<1>3. CASE SqlRefuses(c)
  <2>1. r.sql = "refused"
    BY <1>1, <1>3 DEF SqlCondition
  <2>2. r.mongo \in {"true", "false", "refused"}
    BY <1>1 DEF MongoCondition, Truth
  <2>3. r \in Result
    BY <1>1, <1>2, <2>1, <2>2 DEF Result
  <2> QED
    BY <2>1, <2>3 DEF Sound, Agrees, MeansIt
<1>4. CASE ~SqlRefuses(c)
  <2>1. c.field \in Fields /\ ~MongoRefuses(c)
    BY <1>4 DEF SqlRefuses, MongoRefuses
  <2>2. v \in Values \cup {Null} /\ (Whole(row) => v # Null)
    BY <2>1, RowValue
  <2>3. r.sql = SqlEvaluates(c, v) /\ r.mongo = Truth(MongoEvaluates(c, v))
    BY <1>1, <1>4, <2>1 DEF SqlCondition, MongoCondition
  <2>4. /\ SqlEvaluates(c, v) \in Truths
        /\ SqlEvaluates(c, v) = "true" => MongoEvaluates(c, v)
        /\ SqlEvaluates(c, v) = "false" => ~MongoEvaluates(c, v)
    BY <1>4, <2>2, SqlDecidesAsMongo
  <2>5. r.mongo \in {"true", "false"}
    BY <2>3 DEF Truth
  <2>6. r \in Result
    BY <1>1, <1>2, <2>3, <2>4, <2>5 DEF Result
  <2>7. Agrees(r)
    BY <2>3, <2>4, <2>5 DEF Agrees, Truth
  <2>8. ASSUME Whole(row), r.nullFree PROVE r.sql = r.says /\ r.mongo = r.says
    <3>1. NullFree(c)
      BY <1>1, <2>8
    <3>2. v \in Values /\ v # Null
      BY <2>2, <2>8
    <3>3. /\ SqlEvaluates(c, v) = Truth(Says(c, v))
          /\ MongoEvaluates(c, v) <=> Says(c, v)
      BY <1>4, <3>1, <3>2, NullFreeMeansIt
    <3>4. r.says = Truth(Says(c, v))
      BY <1>1, <2>1, <3>2 DEF ConditionSays, Truth
    <3> QED
      BY <2>3, <3>3, <3>4 DEF Truth
  <2> QED
    BY <2>6, <2>7, <2>8 DEF Sound, MeansIt
<1> QED
  BY <1>3, <1>4
-----------------------------------------------------------------------------
(* Searches, negations and groups. *)

LEMMA SearchSound ==
    ASSUME NEW found \in Truths, Whole(row) => found # "unknown"
    PROVE  SearchResult(found) \in Result /\ Sound(SearchResult(found))
<1> DEFINE r == SearchResult(found)
<1>1. r.says = Truth(found = "true") /\ r.mongo = "refused" /\ r.search
      /\ r.sql \in {found, "refused"}
  BY DEF SearchResult
<1>2. r \in Result
  BY DEF SearchResult, Result, Truth, Truths
<1>3. Whole(row) => r.sql \in {r.says, "refused"}
  BY <1>1 DEF Truth, Truths
<1> HIDE DEF r
<1>4. Agrees(r)
  BY <1>1 DEF Agrees
<1>5. Whole(row) => MeansIt(r)
  BY <1>1, <1>3 DEF MeansIt
<1> QED
  BY <1>2, <1>4, <1>5 DEF Sound, r

\* A negation swaps what SQL and Mongo decide, and keeps what SQL leaves unknown.
LEMMA NegationSound ==
    ASSUME NEW r \in Result, Sound(r)
    PROVE  NegationResult(r) \in Result /\ Sound(NegationResult(r))
<1> DEFINE s == NegationResult(r)
<1>1. /\ s.sql = Not(r.sql) /\ s.mongo = Not(r.mongo) /\ s.says = Not(r.says)
      /\ s.nullFree = r.nullFree /\ s.search = r.search
  BY NorValue DEF NegationResult, Result
<1>2. /\ r.sql \in {"true", "false", "unknown", "refused"}
      /\ r.mongo \in {"true", "false", "refused"} /\ r.says \in {"true", "false"}
  BY DEF Result, Truths
<1>3. s \in Result
  <2>1. /\ Not(r.sql) \in Truths \cup {"refused"}
        /\ Nor(r.mongo) \in {"true", "false", "refused"}
        /\ Not(r.says) \in {"true", "false"}
    BY <1>2, NotValue, NorValue DEF Truths
  <2> QED
    BY <2>1 DEF NegationResult, Result
<1> HIDE DEF s
<1>4. Agrees(s)
  BY <1>1, <1>2, NotValue DEF Sound, Agrees
<1>5. MeansIt(r) => MeansIt(s)
  BY <1>1, <1>2, NotValue DEF MeansIt
<1> QED
  BY <1>3, <1>4, <1>5 DEF Sound, s

\* A group of sound results is sound: when SQL decides it, a child that decides
\* it for SQL decides it for Mongo, or no child is left unknown.
LEMMA GroupSound ==
    ASSUME NEW op \in {"$and", "$or"}, NEW children \in SUBSET Result,
           \A r \in children : Sound(r)
    PROVE  GroupResult(op, children) \in Result /\ Sound(GroupResult(op, children))
<1> DEFINE g == GroupResult(op, children)
           sqls == {r.sql : r \in children}
           mongos == {r.mongo : r \in children}
           says == {r.says : r \in children}
           decisive == IF op = "$and" THEN "false" ELSE "true"
           other == IF op = "$and" THEN "true" ELSE "false"
<1>1. /\ g.sql = SqlGroup(op, sqls) /\ g.mongo = MongoGroup(op, mongos)
      /\ g.says = GroupSays(op, says)
      /\ g.nullFree = (\A r \in children : r.nullFree)
      /\ g.search = (\E r \in children : r.search)
  BY DEF GroupResult
<1>2. /\ sqls \subseteq {"true", "false", "unknown", "refused"}
      /\ mongos \subseteq {"true", "false", "refused"}
      /\ says \subseteq {"true", "false"}
  BY DEF Result, Truths
<1>3. /\ decisive \in {"true", "false"} /\ other = Not(decisive)
      /\ other \in {"true", "false"} /\ decisive # other
  BY NotValue
<1>4. g.sql = IF children = {} \/ "refused" \in sqls THEN "refused"
              ELSE IF decisive \in sqls THEN decisive
              ELSE IF "unknown" \in sqls THEN "unknown" ELSE other
  <2>1. sqls = {} <=> children = {}
    OBVIOUS
  <2> QED
    BY <1>1, <1>3, <2>1 DEF SqlGroup
<1>5. g.mongo = IF "refused" \in mongos THEN "refused"
                ELSE IF children = {} THEN "true"
                ELSE IF decisive \in mongos THEN decisive ELSE other
  <2>1. mongos = {} <=> children = {}
    OBVIOUS
  <2>2. mongos # {} /\ "refused" \notin mongos =>
          "true" \in mongos \/ "false" \in mongos
    BY <1>2
  <2> HIDE DEF mongos
  <2> QED
    BY <1>1, <2>1, <2>2 DEF MongoGroup, Truth
<1>6. children # {} => g.says = IF decisive \in says THEN decisive ELSE other
  <2>1. children # {} => "true" \in says \/ "false" \in says
    BY <1>2
  <2> HIDE DEF says
  <2> QED
    BY <1>1, <2>1 DEF GroupSays, Truth
<1>7. g \in Result
  <2>1. /\ g.sql \in Truths \cup {"refused"} /\ g.mongo \in {"true", "false", "refused"}
        /\ g.says \in {"true", "false"}
    BY <1>1, <1>3, <1>4, <1>5 DEF Truths, GroupSays, Truth
  <2>2. g = [sql |-> g.sql, mongo |-> g.mongo, says |-> g.says,
             nullFree |-> g.nullFree, search |-> g.search]
    BY DEF GroupResult
  <2>3. g.nullFree \in BOOLEAN /\ g.search \in BOOLEAN
    BY <1>1
  <2> HIDE DEF g
  <2> QED
    BY <2>1, <2>2, <2>3 DEF Result
<1> HIDE DEF g, decisive, other
<1>8. ASSUME g.sql = decisive PROVE g.mongo \in {decisive, "refused"}
  <2>1. PICK r \in children : r.sql = decisive
    BY <1>3, <1>4, <1>8
  <2>2. r.mongo \in {decisive, "refused"}
    BY <1>3, <2>1 DEF Sound, Agrees
  <2>3. r.mongo \in mongos
    OBVIOUS
  <2> HIDE DEF mongos
  <2> QED
    BY <1>3, <1>5, <2>2, <2>3
<1>9. ASSUME g.sql = other PROVE g.mongo \in {other, "refused"}
  <2>1. children # {} /\ \A r \in children : r.sql = other
    BY <1>2, <1>3, <1>4, <1>9
  <2>2. \A r \in children : r.mongo \in {other, "refused"}
    BY <1>3, <2>1 DEF Sound, Agrees
  <2>3. decisive \notin mongos
    BY <1>3, <2>2
  <2> HIDE DEF mongos
  <2> QED
    BY <1>5, <2>1, <2>3
<1>10. ASSUME g.sql # "refused", ~g.search PROVE g.mongo # "refused"
  <2>1. \A r \in children : r.sql # "refused" /\ ~r.search
    BY <1>1, <1>4, <1>10
  <2>2. "refused" \notin mongos
    BY <2>1 DEF Sound, Agrees
  <2> HIDE DEF mongos
  <2> QED
    BY <1>3, <1>5, <2>2
<1>11. Agrees(g)
  <2>1. g.sql \in {"true", "false"} => g.sql \in {decisive, other}
    BY DEF decisive, other
  <2>2. g.sql \in {"true", "false"} => g.mongo \in {g.sql, "refused"}
    BY <1>8, <1>9, <2>1
  <2> QED
    BY <1>10, <2>2 DEF Agrees
<1>12. ASSUME Whole(row), g.nullFree, g.sql # "refused"
       PROVE  g.sql = g.says /\ g.mongo \in {g.says, "refused"}
  <2>1. children # {} /\ \A r \in children : r.sql # "refused" /\ r.nullFree
    BY <1>1, <1>4, <1>12
  <2>2. \A r \in children : r.sql = r.says
    BY <1>12, <2>1 DEF Sound, MeansIt
  <2>3. sqls = says
    BY <2>2
  <2>4. g.sql = IF decisive \in says THEN decisive ELSE other
    BY <1>2, <1>4, <2>1, <2>3
  <2>5. g.sql = g.says
    BY <1>6, <2>1, <2>4
  <2>6. g.sql \in {decisive, other}
    BY <2>4
  <2> QED
    BY <1>8, <1>9, <2>5, <2>6
<1> QED
  BY <1>7, <1>11, <1>12 DEF Sound, MeansIt, g
-----------------------------------------------------------------------------
(* The steps. *)

\* A call that returns a sound result, in place of its children's, leaves sound
\* results only.
LEMMA ReturnSound ==
    ASSUME EveryCallSound, NEW n \in 0..Len(results), NEW r \in Result, Sound(r),
           Return(n, r)
    PROVE  EveryCallSound'
<1> DEFINE front == SubSeq(results, 1, Len(results) - n)
<1>1. /\ results \in Seq(Result) /\ Len(results) \in Nat
      /\ DOMAIN results = 1..Len(results)
      /\ \A i \in DOMAIN results : Sound(results[i])
  <2>1. results \in Seq(Result)
    BY DEF EveryCallSound, TypeOK
  <2>2. \A i \in DOMAIN results : Sound(results[i])
    BY DEF EveryCallSound
  <2> QED
    BY <2>1, <2>2, LenProperties
<1>2. /\ front \in Seq(Result) /\ Len(front) = Len(results) - n
      /\ \A i \in 1..Len(front) : front[i] = results[i]
  <2>1. \A i \in 1..(Len(results) - n) : results[i] \in Result
    BY <1>1, ElementOfSeq
  <2>2. Len(results) - n \in Nat /\ 1 \in Int
    BY <1>1
  <2>3. /\ front \in Seq(Result)
        /\ Len(front) = IF 1 <= Len(results) - n THEN (Len(results) - n) - 1 + 1 ELSE 0
        /\ \A i \in 1..((Len(results) - n) - 1 + 1) : front[i] = results[1 + i - 1]
    BY <2>1, <2>2, SubSeqProperties
  <2> HIDE DEF front
  <2> QED
    BY <2>2, <2>3
<1>3. results' = Append(front, r) /\ UNCHANGED <<row, searches, sql, mongo>>
      /\ sql = "pending" /\ mongo = "pending"
  BY DEF Return
<1> HIDE DEF front
<1>4. /\ results' \in Seq(Result) /\ DOMAIN results' = 1..(Len(front) + 1)
      /\ \A i \in 1..Len(front) : results'[i] = front[i]
      /\ results'[Len(front) + 1] = r
  BY <1>2, <1>3
<1>5. \A i \in DOMAIN results' : Sound(results'[i])
  <2> SUFFICES ASSUME NEW i \in DOMAIN results' PROVE Sound(results'[i])
    OBVIOUS
  <2>1. CASE i \in 1..Len(front)
    <3>1. i \in DOMAIN results /\ results'[i] = results[i]
      BY <1>1, <1>2, <1>4, <2>1
    <3> QED
      BY <1>1, <3>1
  <2>2. CASE i = Len(front) + 1
    BY <1>4, <2>2
  <2> QED
    BY <1>2, <1>4, <2>1, <2>2
<1>6. \A x : Sound(x)' <=> Sound(x)
  BY <1>3 DEF Sound, Agrees, MeansIt, Whole
<1>7. TypeOK'
  BY <1>3, <1>4 DEF EveryCallSound, TypeOK
<1>8. (\A i \in DOMAIN results : Sound(results[i]))'
  BY <1>3, <1>5 DEF Sound, Agrees, MeansIt, Whole
<1> QED
  BY <1>3, <1>7, <1>8 DEF EveryCallSound

LEMMA AnswerType ==
    \A t : AnswerOf(t) \in {"returned", "left out", "refused"}
  BY DEF AnswerOf, Answer

LEMMA InitSound == Init => EveryCallSound
  BY DEF Init, EveryCallSound, TypeOK

LEMMA NextSound == EveryCallSound /\ [Next]_vars => EveryCallSound'
<1> SUFFICES ASSUME EveryCallSound, [Next]_vars PROVE EveryCallSound'
  OBVIOUS
<1>1. /\ results \in Seq(Result) /\ Len(results) \in Nat /\ row \in Rows
      /\ \A i \in 1..Len(results) : results[i] \in Result /\ Sound(results[i])
  <2>1. results \in Seq(Result) /\ row \in Rows
    BY DEF EveryCallSound, TypeOK
  <2>2. /\ Len(results) \in Nat /\ DOMAIN results = 1..Len(results)
        /\ \A i \in 1..Len(results) : results[i] \in Result
    BY <2>1, LenProperties, ElementOfSeq
  <2>3. \A i \in DOMAIN results : Sound(results[i])
    BY DEF EveryCallSound
  <2> QED
    BY <2>1, <2>2, <2>3
<1>2. ASSUME NEW c \in Conditions, CompileCondition(c) PROVE EveryCallSound'
  BY <1>1, <1>2, ConditionSound, ReturnSound DEF CompileCondition
<1>3. ASSUME NEW found \in Truths, CompileSearch(found) PROVE EveryCallSound'
  BY <1>1, <1>3, SearchSound, ReturnSound DEF CompileSearch
<1>4. ASSUME NEW op \in {"$and", "$or"}, NEW n \in 0..Len(results), CompileGroup(op, n)
      PROVE  EveryCallSound'
  <2> DEFINE children == {results[i] : i \in (Len(results) - n + 1)..Len(results)}
  <2>1. children \in SUBSET Result /\ \A r \in children : Sound(r)
    BY <1>1
  <2>2. Return(n, GroupResult(op, children))
    BY <1>4 DEF CompileGroup
  <2> HIDE DEF children
  <2> QED
    BY <2>1, <2>2, GroupSound, ReturnSound
<1>5. ASSUME CompileNegation PROVE EveryCallSound'
  <2>1. Len(results) \in 1..Len(results) /\ 1 \in 0..Len(results)
    BY <1>1, <1>5 DEF CompileNegation
  <2> QED
    BY <1>1, <1>5, <2>1, NegationSound, ReturnSound DEF CompileNegation
<1>6. CASE FindSql
  <2>1. /\ sql' = AnswerOf(results[1].sql) /\ Len(results) <= 1
        /\ UNCHANGED <<row, searches, results, mongo>>
    BY <1>6 DEF FindSql
  <2>2. TypeOK'
    BY <2>1, AnswerType DEF EveryCallSound, TypeOK
  <2>3. (\A i \in DOMAIN results : Sound(results[i]))'
    BY <2>1 DEF EveryCallSound, Sound, Agrees, MeansIt, Whole
  <2>4. \A t : AnswerOf(t)' = AnswerOf(t)
    BY <2>1 DEF AnswerOf, Answer
  <2> QED
    BY <2>1, <2>2, <2>3, <2>4 DEF EveryCallSound
<1>7. CASE FindMongo
  <2>1. /\ mongo' = AnswerOf(results[1].mongo) /\ Len(results) <= 1
        /\ UNCHANGED <<row, searches, results, sql>>
    BY <1>7 DEF FindMongo
  <2>2. TypeOK'
    BY <2>1, AnswerType DEF EveryCallSound, TypeOK
  <2>3. (\A i \in DOMAIN results : Sound(results[i]))'
    BY <2>1 DEF EveryCallSound, Sound, Agrees, MeansIt, Whole
  <2>4. \A t : AnswerOf(t)' = AnswerOf(t)
    BY <2>1 DEF AnswerOf, Answer
  <2> QED
    BY <2>1, <2>2, <2>3, <2>4 DEF EveryCallSound
<1>8. CASE UNCHANGED vars
  BY <1>8
  DEF vars, EveryCallSound, TypeOK, Sound, Agrees, MeansIt, Whole, AnswerOf, Answer
<1> QED
  BY <1>2, <1>3, <1>4, <1>5, <1>6, <1>7, <1>8 DEF Next, Answered

\* Every call of compile_filter returns conditions that agree and, without
\* nulls, mean what the tree says.
THEOREM CallsSound == Spec => []EveryCallSound
  BY InitSound, NextSound, PTL DEF Spec

\* For every tree, row and value: a row that SQL selects Mongo selects, or it
\* refuses the tree for a search.
THEOREM SqlSelectsNoMoreHolds == Spec => []SqlSelectsNoMore
<1>1. EveryCallSound => SqlSelectsNoMore
  <2> SUFFICES ASSUME EveryCallSound, sql = "returned", mongo # "pending"
               PROVE  \/ mongo = "returned"
                      \/ mongo = "refused" /\ \E i \in DOMAIN results : results[i].search
    BY DEF SqlSelectsNoMore
  <2>1. /\ Len(results) <= 1 /\ results \in Seq(Result)
        /\ AnswerOf(results[1].sql) = "returned" /\ mongo = AnswerOf(results[1].mongo)
        /\ \A i \in DOMAIN results : Sound(results[i])
    BY DEF EveryCallSound, TypeOK
  <2>2. CASE results = <<>>
    BY <2>1, <2>2 DEF AnswerOf
  <2>3. CASE results # <<>>
    <3>1. 1 \in DOMAIN results
      BY <2>1, <2>3
    <3>2. results[1].sql = "true" /\ mongo = Answer(results[1].mongo)
      BY <2>1, <2>3 DEF AnswerOf, Answer
    <3>3. /\ results[1].mongo \in {"true", "refused"}
          /\ results[1].mongo = "refused" => results[1].search
      BY <2>1, <3>1, <3>2 DEF Sound, Agrees
    <3> QED
      BY <3>1, <3>2, <3>3 DEF Answer
  <2> QED
    BY <2>2, <2>3
<1> QED
  BY <1>1, CallsSound, PTL

\* For every tree without nulls and every row without nulls: both adapters do
\* what the tree says.
THEOREM SameWithoutNullsHolds == Spec => []SameWithoutNulls
<1>1. EveryCallSound => SameWithoutNulls
  <2> SUFFICES ASSUME EveryCallSound, Whole(row), sql \notin {"pending", "refused"},
                      NEW i \in DOMAIN results, results[i].nullFree
               PROVE  /\ sql = Answer(results[i].says)
                      /\ mongo \notin {"pending", "refused"}
                           => mongo = Answer(results[i].says)
    BY DEF SameWithoutNulls
  <2>1. /\ Len(results) <= 1 /\ results \in Seq(Result)
        /\ sql = AnswerOf(results[1].sql)
        /\ mongo # "pending" => mongo = AnswerOf(results[1].mongo)
        /\ Sound(results[i])
    BY DEF EveryCallSound, TypeOK
  <2>2. i = 1 /\ results # <<>>
    BY <2>1
  <2>3. /\ sql = Answer(results[i].sql)
        /\ mongo # "pending" => mongo = Answer(results[i].mongo)
    BY <2>1, <2>2 DEF AnswerOf
  <2>4. results[i].sql # "refused"
    BY <2>3 DEF Answer
  <2>5. results[i].sql = results[i].says /\ results[i].mongo \in {results[i].says, "refused"}
    BY <2>1, <2>4 DEF Sound, MeansIt
  <2> QED
    BY <2>3, <2>5 DEF Answer
<1> QED
  BY <1>1, CallsSound, PTL
=============================================================================

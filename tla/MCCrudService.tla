--------------------------- MODULE MCCrudService ---------------------------
EXTENDS CrudService, TLC

CONSTANTS r1, r2, r3

\* Two updates with one request of every other kind, three updates, and two
\* creations of one id.
MCWorkloads ==
    {r1 :> "update" @@ r2 :> "update" @@ r3 :> k :
        k \in {"create", "read", "remove", "update"}}
    \cup {r1 :> "create" @@ r2 :> "create" @@ r3 :> "update"}

Setup(stack, publishing) == [levels |-> stack, publisher |-> publishing]

\* Every stack of caches, and a parallel publisher.
MCSetups == {Setup(stack, "sequence") : stack \in SUBSET {"local", "redis"}}
            \cup {Setup({}, "parallel")}
RedisOnly == {Setup({"redis"}, "sequence")}
LocalOnly == {Setup({"local"}, "sequence")}

\* r1 has two events to publish.
MCEventCount == [r \in Requests |-> IF r = r1 THEN 2 ELSE 1]
OneEvent == [r \in Requests |-> 1]

MCReaders == {r1 :> "update" @@ r2 :> "update" @@ r3 :> "read"}
MCWriters == {[r \in Requests |-> "update"]}
=============================================================================

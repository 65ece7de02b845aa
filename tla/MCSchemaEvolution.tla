------------------------- MODULE MCSchemaEvolution -------------------------
(* One table that goes through every kind of change, and one that comes    *)
(* and goes: columns 1 (id) and 2.                                         *)
EXTENDS SchemaEvolution

Id == [type |-> "bigint", pointer |-> FALSE, null |-> FALSE, default |-> "none",
       identity |-> FALSE, pk |-> TRUE, unique |-> FALSE, index |-> "none"]
Text == [Id EXCEPT !.type = "text", !.pk = FALSE]

Nullable == [Text EXCEPT !.pointer = TRUE, !.null = TRUE]
Varchar == [Text EXCEPT !.type = "varchar"]

Tables1 ==
    {1 :> Id} \cup
    {(1 :> Id) @@ (2 :> column) :
        column \in {Nullable,
                    [Varchar EXCEPT !.default = "1", !.unique = TRUE, !.index = "partial"],
                    [Text EXCEPT !.type = "date", !.index = "plain"]}}
    \cup {(1 :> [Id EXCEPT !.pk = FALSE]) @@ (2 :> [Text EXCEPT !.pk = TRUE]),
          2 :> [Text EXCEPT !.pk = TRUE],
          2 :> Nullable}

AllModels ==
    {<<>>} \cup {1 :> t : t \in Tables1}
    \cup {2 :> ((1 :> [Id EXCEPT !.identity = TRUE]) @@ (2 :> Varchar)),
          (1 :> ((1 :> Id) @@ (2 :> Nullable))) @@ (2 :> (1 :> Id))}
=============================================================================

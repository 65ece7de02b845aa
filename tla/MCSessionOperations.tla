------------------------ MODULE MCSessionOperations -------------------------
(***************************************************************************)
(* Two companies, two users, and tables with every way to delete.          *)
(***************************************************************************)
EXTENDS SessionOperations, TLC

CONSTANTS c1, c2, u1, u2, i1, i2, m1, m2

Scopes == {"company", "user"}
Values == {c1, c2, u1, u2}
ValuesOf == [k \in Scopes |-> IF k = "user" THEN {u1, u2} ELSE {c1, c2}]
Ids == {i1, i2}
Models == {m1, m2}

Request(company, user, level) ==
    [values |-> [k \in Scopes |-> IF k = "user" THEN user ELSE company], policy |-> level]

\* A user of each company under every policy, and a context with nothing in it.
AllRequests ==
    {Request(c1, u1, level) : level \in Level} \cup {Request(c2, u2, level) : level \in Level}
        \cup {Request(Nil, Nil, "default")}

\* One chunk, and a second one that is shorter and meets a struct again.
ItemLists == {<<m1, m2>>, <<m2, m1>>, <<m1, m2, m1>>, <<m2, m1, m2>>}

SwapCompanies == c1 :> c2 @@ c2 :> c1 @@ u1 :> u2 @@ u2 :> u1
Symmetric == {SwapCompanies} \cup Permutations(Ids) \cup Permutations(Models)

Notes == [scopes |-> {"company"}, audit |-> {}, removal |-> "none"]
Drafts == [scopes |-> {"company", "user"}, audit |-> {}, removal |-> "tag"]
Entities == [scopes |-> {"company"}, audit |-> AuditColumn, removal |-> "audit"]

AllTables == {Notes, Drafts, Entities}
=============================================================================

---------------------------- MODULE MCSeedRunner ----------------------------
(* Roles (2) and permissions (1), seeded from two releases of a program.   *)
EXTENDS SeedRunner

CONSTANTS admin, user, old, new, p1, p2

Record(i, k, v) == [id |-> i, key |-> k, value |-> v]

Roles == [name |-> 2, deps |-> {}, items |-> <<Record(1, admin, old), Record(2, user, old)>>]
Permissions == [name |-> 1, deps |-> {2}, items |-> <<Record(1, admin, new)>>]
NewRoles == [name |-> 2, deps |-> {}, items |-> <<Record(2, user, new), Record(3, admin, new)>>]
Report == [name |-> 3, deps |-> {1}, items |-> <<>>]
Cyclic == [name |-> 2, deps |-> {1}, items |-> <<Record(1, admin, old)>>]

AllPrograms == {<<Roles, Report, Permissions>>, <<Permissions, NewRoles>>, <<Permissions>>,
                <<Roles, Permissions, Cyclic>>}
Keys == {admin, user}
Values == {old, new}
Processes == {p1, p2}
Symmetric == Permutations(Processes)
=============================================================================

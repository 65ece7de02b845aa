---------------------------- MODULE AccessPolicy ----------------------------
(***************************************************************************)
(* The policy engine of package access: what Apply decides from the request *)
(* context, the table and the operation, before any SQL is written.        *)
(*                                                                         *)
(* A context ac has a value, or Nil, for the user and for every kind of    *)
(* scope (company, tenant, user, ...), and a policy level.  A table has    *)
(* scope columns, audit columns for users, and a way to delete.            *)
(***************************************************************************)
CONSTANTS Scope,   \* the kinds of scope columns, "company" and "user" among them
          Nil      \* no value

ASSUME ScopeAssumption == {"company", "user"} \subseteq Scope

Level == {"default", "ignore_company", "ignore_rls", "system"}

AuditColumn == {"created_by", "updated_by", "deleted_by"}

\* "none": DELETE.  "tag": a column tagged soft_delete.  "audit": the DeletedAt
\* of the Audit trait.
Removal == {"none", "tag", "audit"}

Table == [scopes : SUBSET Scope, audit : SUBSET AuditColumn, removal : Removal]

AllowsScope(policy, kind) ==
    \/ policy = "default"
    \/ policy = "ignore_company" /\ kind # "company"

EnforcesSoftDelete(ac) == ac.policy # "system"
EnforcesAudit(ac) == ac.policy # "system"

SoftDeletes(table) == table.removal # "none"

ActiveScopes(ac, table) == {k \in table.scopes : AllowsScope(ac.policy, k)}

\* The audit columns for which an operation wants to know the user.
AuditedBy(op) ==
    CASE op = "insert" -> AuditColumn
      [] op = "update" -> {"updated_by"}
      [] op = "delete" -> {"deleted_by"}
      [] OTHER -> {}

HasScope(ac, table) == \A k \in ActiveScopes(ac, table) : ac.values[k] # Nil

\* validateContextForOperation: the MissingContextError.
Denied(ac, table, op) ==
    \/ ~ HasScope(ac, table)
    \/ /\ EnforcesAudit(ac)
       /\ table.audit \cap AuditedBy(op) # {}
       /\ ac.values["user"] = Nil

\* The predicates of Apply, as the value each scope column has to have.
Predicates(ac, table, op) ==
    [k \in (IF op \in {"query", "delete"} THEN ActiveScopes(ac, table) ELSE {}) |-> ac.values[k]]

\* Mutant: every scope column gets the user.
ScopeWritesUser(ac, table, op) ==
    [k \in (IF op = "insert" THEN ActiveScopes(ac, table) ELSE {}) |-> ac.values["user"]]

\* The columns that Apply writes: scopes on insert, users on insert and update,
\* and nothing on delete.
ScopeWrites(ac, table, op) ==
    [k \in (IF op = "insert" THEN ActiveScopes(ac, table) ELSE {}) |-> ac.values[k]]

AuditWrites(ac, table, op) ==
    [f \in (IF EnforcesAudit(ac) /\ op \in {"insert", "update"}
            THEN table.audit \cap AuditedBy(op) ELSE {}) |-> ac.values["user"]]

-----------------------------------------------------------------------------
\* access.WithPolicy
WithPolicy(ac, level) == [ac EXCEPT !.policy = level]

\* DB.WithContext and Session.WithDeleted
DbSession(ac) == [ac |-> ac, withDeleted |-> FALSE]
SessionWithDeleted(s) == [s EXCEPT !.withDeleted = TRUE]
=============================================================================

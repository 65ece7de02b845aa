CONSTANTS
    o1 = o1
    o2 = o2
    users = users
    users_name = users_name
    users_email_key = users_email_key
    NoFile = NoFile
    Operator <- Operators
    Table <- Tables
    Part <- Parts
    Constraint <- Constraints
    TableOf <- TableOfPart
    MaxFile = 2
SPECIFICATION Spec
INVARIANTS TypeOK ExecutedInOrder SchemaFollowsRegistry
SYMMETRY OperatorSymmetry

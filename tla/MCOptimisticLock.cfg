CONSTANTS
    c1 = c1
    c2 = c2
    r1 = r1
    r2 = r2
    None = None
    Client <- Clients
    Row <- TwoRows
    Existing <- NoRow
    Removal <- RemovalPerTable
    MaxWrite = 3
SPECIFICATION Spec
INVARIANTS TypeOK VersionIdentifiesContent
PROPERTIES NoLostUpdate CommittedVersionGrows
SYMMETRY ClientSymmetry

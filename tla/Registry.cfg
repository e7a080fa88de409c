SPECIFICATION TransferSpec
CONSTANTS
    a1 = a1  a2 = a2  n1 = n1  n2 = n2  x1 = x1  u1 = u1  u2 = u2  e1 = e1 
    None = None
    Unset = Unset
    Garbage = Garbage
    Servers = {a1, a2}
    Names = {n1, n2}
    Secrets = {p1}
    Keys = {k1, k2}
    Clients = {c1, c2}
    Jobs = {j1}
    Schedules = {x1}
    Users = {u1, u2}
    Emails = {e1}
    Importers = {i1, i2}
    Files <- SomeFiles
    MaxOperations = 4
SYMMETRY Alike
CHECK_DEADLOCK FALSE
INVARIANTS
    ConfigTypeOK
    FlagTellsCipher
    BindFaithful
    CountsAreCommitted
    ImportInHalves
    ImportComplete
    ExportCovers
PROPERTIES
    PasswordChangesOnPurpose

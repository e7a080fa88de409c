SPECIFICATION Spec
CONSTANTS
    v1 = v1  v2 = v2  n1 = n1  n2 = n2  n3 = n3  s1 = s1  s2 = s2  s3 = s3  w1 = w1  w2 = w2  h1 = h1
    h2 = h2  b1 = b1  b2 = b2  b3 = b3  r1 = r1  r2 = r2
    None = None
    Types = {"full"}
    Servers = {v1}
    Names = {n1, n2, n3}
    NameOf <- OwnName
    Schedules = {s1}
    ServerOf <- SharedServer
    TypeOf <- FullType
    Loaded = {s1}
    Workers = {w1}
    Handlers = {h1}
    BackupIds = {b1}
    RestoreIds = {}
    MaxSecond = 1
    Budget <- NoFaults
SYMMETRY Interchangeable
CHECK_DEADLOCK FALSE
INVARIANTS
    DeletedHasNoFile

SPECIFICATION LdifSpec
CONSTANTS
    top = top  child = child  other = other  cn = cn  x = x  y = y
    None = None
    Root = Root
    Dns = {top, child, other}
    Parent <- Tree
    Sources <- AllSources
    Targets <- EmptyTarget
    MaxRuns = 1
CHECK_DEADLOCK FALSE
INVARIANT BinaryComesBack

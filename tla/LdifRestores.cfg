SPECIFICATION LdifSpec
CONSTANTS
    top = top  child = child  other = other  cn = cn  x = x  y = y
    None = None
    Root = Root
    Dns = {top, child, other}
    Parent <- Tree
    Sources <- AllSources
    Targets <- AllTargets
    MaxRuns = 2
CHECK_DEADLOCK FALSE
INVARIANTS
    LdifTypeOK
    PlainComesBack
    CountIsAdded
    RepeatReaches
    LdifInv

CONSTANTS
    KS = KS  KP = KP
    KwSub <- KS
    KwPkg <- KP
    NameChars = {"a", "b", "-", "."}
    Delims = {" ", ",", ":"}
    Others = {}
    Subs <- MCSubs
    MaxLen = 4
SPECIFICATION Spec
CHECK_DEADLOCK FALSE
INVARIANTS
    NoMissedMatch

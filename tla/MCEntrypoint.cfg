CONSTANTS
    MaxLen = 6
    UID = "u"
SPECIFICATION Spec
INVARIANT EntrypointConfined

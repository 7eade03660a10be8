CONSTANTS
    a = a
    b = b
    c = c
    WS = {a, b, c}
    WithCreds = {a, b}
    NoDir = NoDir
    NotFetched = NotFetched
SPECIFICATION Spec
INVARIANT OwnCredentials

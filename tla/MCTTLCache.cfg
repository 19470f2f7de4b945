SPECIFICATION Spec
CONSTANTS
    Requests = {r1, r2, r3}
    Keys = {status}
    Dropped = {status}
    Key <- OneKey
    MaxVersion = 1
INVARIANTS
    NeverOlder
PROPERTY
    EveryoneAnswered

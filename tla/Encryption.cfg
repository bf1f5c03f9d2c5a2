SPECIFICATION Spec
CONSTANTS
    m1 = m1
    m2 = m2
    k1 = k1
    k2 = k2
    Messages <- MCMessages
    Keys <- MCKeys
    KeysOf <- MCKeysOf
    OpenKeys <- MCOpenKeys
    None = None
    TTL = 1
    MaxTasks = 4
INVARIANTS
    TypeOK
    PassphraseForgotten
    WaitsForAsked
PROPERTIES
    DecryptionSettles

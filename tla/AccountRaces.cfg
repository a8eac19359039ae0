SPECIFICATION ApiKeysSpec
CONSTANTS
    ann = ann  bob = bob  gh = gh
    Registered = {ann, bob}  Identities = {gh}  NoIdentity = NoIdentity
    InitiallyVerified = {ann}
    InitialLinks <- Mailed  InitialMerges <- Asked
    Kinds <- AllKinds
    Callers = {s1, s2}  MaxCalls = 3  MaxAttempts = 2
    InitialPasskeys = {ann}  InitialCodes <- OneCode
    MaxAssertions = 1  CodeCount = 1
    InitialKeys <- NoKeys  MaxActive = 1
    Writers = {w1, w2}  MaxTasks = 3  MaxTogether = 2
SYMMETRY Slots
INVARIANTS OneLiveLink ResetsMatchLinks ErasedHoldsNoKey GatedSessions LinkedByOwner CredentialOpensOnce KeysWithinCap OnlyVerifiedWrite
CHECK_DEADLOCK FALSE

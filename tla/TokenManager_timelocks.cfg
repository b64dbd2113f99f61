SPECIFICATION Spec
CONSTANTS
    vaultLock = vaultLock
    feedLock = feedLock
    shortsLock = shortsLock
    alice = alice
    bob = bob
    tokenManager = tokenManager
    Timelocks = {vaultLock, feedLock, shortsLock}
    PriceFeedTimelocks = {feedLock}
    ShortsTrackerTimelocks = {shortsLock}
    Accounts = {vaultLock, feedLock, shortsLock, alice, bob, tokenManager}
    InitialBuffer <- MCBuffers
    MaxBuffer = 2
    Buffers <- MCRaises
    FirstAdmin = alice
    Proposed <- MCProposed
    StartTime = 1
    MaxTime = 3
    SignerLists <- MCSignerLists
    managerAdmin = alice
    MinAuthorizations = 2
    Wanted <- MCWanted
    MaxNonce = 2
CHECK_DEADLOCK FALSE
PROPERTIES
    DelayedControl
    QuorumDecides

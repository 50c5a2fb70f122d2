SPECIFICATION ControlPlaneSpec
CONSTANTS
    Upgrades = {u1, u2}
    PollAttempts = 2
    NoRevision = NoRevision
    Documents <- MCDocuments
    KbRequests <- MCThree
    MaxOverlapping = 2
    MaxJobs = 2
    PageSize = 2
    RegRequests <- MCFour
    MaxOverlappingEdits = 3
    MaxVersion = 3
    MaxRegCrashes = 1
    GraphAgents = {"a", "b", "c"}
    Savers = {w1, w2}
    MaxSaves = 4
    MaxOverlappingSaves = 3
    Nodes = {"a", "b", "c"}
    Containers = {k1}
    Configurations = {x, y}
    MaxSaved = 3
    Turns = {q1, q2}
    Runtimes = {k1, k2}
    LastMonth = 2
    Budget = 1
    PolicyRequests <- MCThree
    MaxOverlappingWrites = 2
    MaxGuardrails = 2
    Approvals = {p1, p2}
    MaxMissing = 2
    MaxSubAgents = 2
    Events = {e1, e2, e3, e4}
    NoEvent = NoEvent
    Attempts <- MCThree
    MaxAttemptsOverlapping = 2
    WorkflowPaths = {g, h}
    NoCommit = NoCommit
    MaxKeys = 3
    CredentialRequests <- MCFour
    RevealsPerHour = 1
    LibraryAgents = {"a", "b"}
    LibrarySkills = {"s"}
    LibraryRequests <- MCSeven
    MaxOverlappingCalls = 3
    PlayTurns <- MCThree
    OverlappingPlays = 2
    NoTurns = NoTurns
    CatalogTools = {"a", "b"}
    Payloads <- MCPayloads
    Unset = Unset
    MaxConfigs = 3
INVARIANTS
    ControlPlaneTypeOK
    UpgradeOutcomeIsServed
    IndexIsVetted
    OneJobAtATime
    CurrentVersionReadable
    VersionsFollowAgent
    CheckedGraphAcyclic
    SearchDecides
    ActiveCanRestart
    SpendAccounted
    GuardrailsAccounted
    ApprovedOnce
    ChainForksOnlyByRace
    RepositoryMended
    HandedKeyAccepted
    ReferencesHold
    PlaygroundKept
    ConfigurationReviewed
PROPERTIES
    VersionsImmutable
CHECK_DEADLOCK FALSE

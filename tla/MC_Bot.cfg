\* Two items polled one at a time, intervals of one and two minutes.
CONSTANTS
    BoolKeys = {AutoTrackEnabled}
    IntKeys = {PollMinutes, AutoTrackMinutes}
    Numbers = {2}
    Default <- SomeDefaults
    True = True
    False = False
    Word = Word
    NoRow = NoRow
    Items = {i1, i2}
    BatchSize = 1
    PollMinutes = PollMinutes
    AutoTrackMinutes = AutoTrackMinutes
    AutoTrackEnabled = AutoTrackEnabled
    Rounds = 3
    Delta = 9
    DhN = 131071
    DhG = 3
    ServerSecret = 23
    Secrets <- SomeSecrets
    RandomPrefixes <- SomePrefixes
    Credentials <- SomeCredentials
    Base = 8
    Schemas <- SomeSchemas
    Samples <- SomeSamples
SPECIFICATION Spec
INVARIANTS
    TypeOK
    
    BridgedToRunning
    LoginKeyAccepted
    SessionReadsPackets
PROPERTIES
    
    UnreadableByPutOnly
    BridgedCallsReturn
    PolledAgain

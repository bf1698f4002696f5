SPECIFICATION Spec
CONSTANTS
    app = app
    again = again
    a1 = a1
    a2 = a2
    web = web
    shell = shell
    dp = dp
    dk = dk
    da = da
    k1 = k1
    k2 = k2
    g1 = g1
    g2 = g2
    f1 = f1
    f2 = f2
    f3 = f3
    s1 = s1
    s2 = s2
    salt = salt
    None = None
    Processes <- MCProcesses
    Attempts <- MCAttempts
    In <- MCIn
    To <- MCTo
    Corrections = {{}, {a2}}
    Ids <- MCIds
    Destinations <- MCDestinations
    Way <- MCWay
    KeptAtFirst <- MCKept
    At <- MCAt
    HostKeys = {k1, k2}
    Trusted <- MCTrusted
    ConfigLines <- MCConfigLines
    Session = s1
    AgentKeys <- MCAgentKeys
    UsualFiles <- MCUsualFiles
    FilesThere = {f1, f2, f3}
    Encrypted = {dk, f1}
    MaxCommands = 3
    MaxEnds = 1
INVARIANTS
    ListIsOnDisk
    SecretsSurvive
    NoKeyUnasked
    EveryKeyIsTried
CHECK_DEADLOCK FALSE

SPECIFICATION Spec
CONSTANTS
    Parts = {"oauth"}
    MaxOps = 2
    Orgs = {"a", "b"}
    First = "a"
    Me = "me"
    Others = {"u", "v"}
    NoOwner = "none"
    MaxMoves = 1
    Channels = {"own", "other", "third"}
    Own = "own"
    MaxTests = 3
    TestModes = {"log"}
    TestOps = 0
    MaxSaves = 1
    MaxAsks = 4
    Tabs = {"x", "y"}
    Ttl = 1
    MaxTime = 2
    MaxDeploys = 2
    Notices = {"a", "b"}
    Received = {"a"}
    Apps = {"a", "b"}
    Registered = {"a"}
    Grants = {"g"}
    MaxTokens = 3
    Rows = {1, 2, 3}
    Attention = {1, 2}
    Ownerless = {2, 3}
    Incomplete = {3}
    Hits = {1, 2}
    Companies = {"a", "b"}
    Users = {"u", "v"}
    Opened = "a"
    Owner <- MCOwner
    Windows = {15, 1440}
    Hourly = {1440}
    Consumers = {"key", "guest"}
    Tenants = {"key"}
    Unlimited = {"key"}
    Modules = {"fleetops"}
    NpmPackages = {"fleetops", "ember-ui"}
    ComposerPackages = {"fleetops", "core-api"}
    MaxCommands = 0
    MaxInstalls = 2
    MaxCrashes = 0
    Hoisting = {FALSE}
    Hosts = {"localhost", "example"}
    LocalHosts = {"localhost"}
    MaxRuns = 2
INVARIANT ChecksDescribeTheForm
\* The screen is left alone once its requests are spent.
CHECK_DEADLOCK FALSE

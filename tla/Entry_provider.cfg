SPECIFICATION EntrySpec
CONSTANTS
    Parts = {"sign-in"}
    Accounts = {a, b}
    Requests = {r}
    Organizations = {o}
    None = None
    MaxHandshakes = 1
    MaxVisits = 1
    Timers = {0, 1}
    NoTimer = 99
    MaxListens = 3
    Steps = {"a", "b", "c", "d"}
    Entry = "a"
    NextOf <- MCNextOf
    NoStep = "none"
    Guarded = {"c"}
    Fixed = {"b"}
    Runs = {1, 2}
    MaxReloads = 1
    Keys = {"session", "code", "password"}
    Values = {{"v"}, {"w"}}
    Sensitive = {"password"}
    Intents = {"i", "j"}
    Vouched = {"i"}
    MaxSubmits = 2
    MaxResends = 1
PROPERTIES
    ChallengedAreAsked

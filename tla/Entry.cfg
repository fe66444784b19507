SPECIFICATION EntrySpec
CONSTANTS
    Parts = {"sign-in", "install", "onboard", "context", "sign-up"}
    Accounts = {a, b}
    Requests = {r}
    Organizations = {o}
    None = None
    MaxHandshakes = 2
    MaxVisits = 1
    Timers = {0, 1}
    NoTimer = 99
    MaxListens = 3
    Steps = {"a", "b", "c", "d"}
    Entry = "a"
    NextOf <- MCNextOf
    NoStep = "none"
    Guarded = {"c"}
    Fixed = {"b"}
    Runs = {1, 2}
    MaxReloads = 1
    Keys = {"session", "code", "password"}
    Values = {{"v"}, {"w"}}
    Sensitive = {"password"}
    Intents = {"i", "j"}
    Vouched = {"i"}
    MaxSubmits = 2
    MaxResends = 1
INVARIANTS
    TypeOK
    PagesKnowWhoTheyAreFor
    CodesRedeemedOnce
    ListensOnce
    OnboardingRemembers
PROPERTIES
    RequestIsKept
    ExchangeEnds
    CallsEnd
\* An installed console, and a finished onboarding, are left alone.
CHECK_DEADLOCK FALSE

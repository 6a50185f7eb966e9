SPECIFICATION Spec
CONSTANTS
    OldNodes <- OneNode
    NewNodes = {2}
    OldAccounts = {1}
    NewAccounts = {2}
    Pages = {1, 2}
    Slots = {s1, s2}
    MaxEvents = 1
    MaxFailures = 1
    Roles = {"operator", "viewer"}
    Sections = {"overview", "nodes", "users", "logsAudit"}
    LogNodes = {n1, n2}
    Agents = {n1}
    Administrators = {a, b}
    MaxNodes = 5
    MaxUsers = 8
    Entered <- SomeNumbers
    Default <- SmallDefault
    NotANumber = NotANumber
    None = None
SYMMETRY SlotSymmetry
INVARIANTS
    TypeOK
    OnlyRacesShareAddresses
    BusyIsOwned
    SecretStays
    LabelMatchesRows
    SaveIsOwn
    SubscriptionIsOwn
    AutoOnlyInAuto
    LogsMatchSource
    SignedOutIsForgotten
    MockCountsFit
    MockPagesCover

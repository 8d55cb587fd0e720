SPECIFICATION LifeSpec
CHECK_DEADLOCK FALSE
CONSTANTS
    Accounts = {alice}
    AppAccounts = {app}
    Hashes = {"h", ""}
    Devices = {"d", ""}
    InitArgs <- MCInitArgs
    KmsIds = {kms}
    Rewrites <- MCRewrites
    AppFeatures = {"ALL"}
    Shipped = Shipped
    Codes = {other}
    NoCode = NoCode
    Durations = {0, 2}
    NoDuration = NoDuration
    Instants = {0, 1, 2, 3}
    NoApp = NoApp
    NoWatch = NoWatch
INVARIANTS LifeTypeOK NoticeKept
PROPERTIES OrphanFrozen

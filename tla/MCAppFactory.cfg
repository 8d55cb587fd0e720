SPECIFICATION FairRegistrationSpec
CONSTANTS
    Accounts = {owner}
    OwnerId = owner
    KmsRoles = {"Owner"}
    Features = {"ALL"}
    Hashes = {"h", ""}
    Devices = {"d", ""}
    InitArgs <- MCInitArgs
    KmsIds = {kms}
    Rewrites = {}
    AppFeatures = {}
    Kms = kms
    Codes = {}
    Shipped = Shipped
    NoCode = NoCode
    Durations = {}
    NoDuration = NoDuration
    NoApp = NoApp
    AppAccounts <- MCAppAccounts
    AppIds <- MCAppIds
    KmsId <- MCKmsId
    CallIds = {c1, c2}
    MaxIdLength = 4
    Deposits = {1, 3}
    StorageCost = 2
    PageLimit = 1
    NoCall = NoCall
INVARIANTS FactoryTypeOK CreatedByWinner RegisteredSound DepositConserved PagesFit
PROPERTIES PauseDrains Settles ImplementsRegistry

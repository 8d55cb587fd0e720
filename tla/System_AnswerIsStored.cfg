SPECIFICATION FairSystemSpec
CHECK_DEADLOCK FALSE
CONSTANTS
    Accounts = {owner}
    OwnerId = owner
    KmsRoles = {"Owner"}
    Features = {"ALL"}
    Hashes = {"h"}
    Devices = {"d"}
    InitArgs <- MCInitArgs
    KmsIds = {kms, other_kms}
    Rewrites <- MCRewrites
    AppFeatures = {}
    Kms = kms
    Codes = {other}
    Shipped = Shipped
    NoCode = NoCode
    Durations = {}
    NoDuration = NoDuration
    NoApp = NoApp
    AppAccounts <- MCAppAccounts
    AppIds <- MCAppIds
    KmsId <- MCKmsId
    CallIds = {c1}
    MaxIdLength = 4
    Deposits = {3}
    StorageCost = 2
    PageLimit = 1
    NoCall = NoCall
    EmbeddedTcbInfo <- MCEmbedded
    Separator = Separator
    SeparatorFirst = {}
    BadHex = BadHex
    NotString = NotString
    NotJson = NotJson
    RequestIds = {r1}
    QuoteHexes <- MCQuoteHexes
    Collaterals <- MCCollaterals
    TcbInfos <- MCTcbInfos
    HonestInputs = {}
    PublicKeys <- MCPublicKeys
    HashStrings <- MCHashStrings
    Instants = {0}
    NoRequest = NoRequest
    NoGrant = NoGrant
    GatewayIds = {}
    KeyPairs <- MCKeyPairs
    Quotes = {"q"}
    Eventlogs = {"e"}
    OsImages = {"os"}
    AggregatedMrs = {}
    KmsDevices = {}
    NoInfo = NoInfo
    NoGateway = NoGateway
    MaxAdminCalls = 1
PROPERTY AnswerIsStored

SPECIFICATION KeySpec
CONSTANTS
    Accounts = {owner}
    OwnerId = owner
    KmsRoles = {"Owner"}
    Features = {"ALL", "request_kms_root_key"}
    EmbeddedTcbInfo <- MCEmbedded
    Separator = Separator
    SeparatorFirst <- MCSeparatorFirst
    BadHex = BadHex
    NotString = NotString
    NotJson = NotJson
    RequestIds = {r1}
    QuoteHexes <- MCQuoteHexes
    Collaterals <- MCCollaterals
    TcbInfos <- MCTcbInfos
    PublicKeys <- MCPublicKeys
    HonestInputs <- MCHonestInputs
    HashStrings <- MCHashStrings
    Instants = {0, 999, 1000, 2000}
    NoRequest = NoRequest
    NoGrant = NoGrant
INVARIANT ViewAgrees

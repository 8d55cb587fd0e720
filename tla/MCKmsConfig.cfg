SPECIFICATION KmsConfigSpec
CONSTANTS
    Accounts = {alice}
    OwnerId = alice
    KmsRoles = {"Owner", "PauseManager", "UnpauseManager"}
    Features = {"ALL", "register_app"}
    GatewayIds = {g}
    KeyPairs <- MCKeyPairs
    Quotes = {"q1", "q2"}
    Eventlogs = {"e1"}
    OsImages = {"os", ""}
    AggregatedMrs = {"mr", ""}
    KmsDevices = {"dev", ""}
    NoInfo = NoInfo
    NoGateway = NoGateway
INVARIANTS ConfigTypeOK InfoTraceable
PROPERTIES PauseLatches

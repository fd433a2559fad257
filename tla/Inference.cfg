SPECIFICATION InferenceSpec
CONSTANTS
    Calls = {c1, c2}
    Conns = {k1}
    None = None
    ProviderNames = {"p"}
    Models = {"m1"}
    Contents <- MCContents
    KeyOrder <- MCKeyOrder
    ValidEnvKeys = {"OPENAI_API_KEY"}
    Traffic <- MCTraffic
    Sources = {"file", "cluster", "none"}
    FileConfigs <- MCFileConfigs
    HasTls = TRUE
    MaxRequests = 3
    MaxTraffic = 1
PROPERTIES RoutesConverge RequestsAnswered ProviderKeepsIdentity
CHECK_DEADLOCK FALSE

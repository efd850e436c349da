SPECIFICATION OptionsSpec
CONSTANTS
    own = own
    bare = bare
    NoCredentials = NoCredentials
    Credentials <- MCCredentials
    GivenEntity <- MCGivenEntity
    Options <- MCOptions
    Configs <- MCConfigs
    MaxDials = 3
INVARIANTS
    CallsCarryExternalToken
    CredentialsReachTheirServer
    EntityIsAsGiven
    ServersAreAsAsked
CHECK_DEADLOCK FALSE

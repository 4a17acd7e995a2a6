SPECIFICATION CallsSpec
CONSTANTS
    Clients = {c1}
    None = None
    SecretConfigured = FALSE
    Issuer = "lakehouse"
    Expiry = 2
    MaxRestarts = 1
INVARIANTS
    CallsTypeOK
    AcceptedIsAuthentic
    IssuedIsAccepted
    AdvertisedIsHandled
    SchemasAgree

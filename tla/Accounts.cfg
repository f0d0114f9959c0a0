CONSTANTS
    Ids = {i1, i2}
    Emails = {old, e1}
    Requests = {r1, r2, r3}
    Legacy = {old}
    RequireVerification = TRUE
    NoId = NoId
    NoEmail = NoEmail
    NoToken = NoToken
SPECIFICATION Spec
SYMMETRY Interchangeable
INVARIANTS
    TypeOK
    SessionsMatchIdentity
    LoggedOutStaysOut
PROPERTIES
    LinksAreKept
    ClaimsAreVerified
CHECK_DEADLOCK FALSE

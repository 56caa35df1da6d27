SPECIFICATION Spec
CONSTANTS
    Passwords = {p1, p2}
    NoPassword = NoPassword
    GapLimit = 1
    MaxUsed = 1
    MaxPhrase = 2
    MaxIndex = 3
INVARIANTS
    SecretsKept
    FileKeepsSeed
PROPERTIES
    OnePayment

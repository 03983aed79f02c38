CONSTANTS
    Empty = Empty
    EmailText = {Empty, malformed, ann}
    ValidEmail = {ann}
    PasswordText = {Empty, secret}
    MaxNameLength = 3
SPECIFICATION Spec
INVARIANTS FlaggedIsRefused SentIsComplete

SPECIFICATION UserSpec
CONSTANTS
    Login = {q1, q2}
    Change = {c1, c2}
    Ticket = {k1}
    Password = {p1, p2}
    First = p1
    MaxAttempts = 2
    Nothing = Nothing
CHECK_DEADLOCK FALSE
INVARIANTS
    AttemptsBound
    CredentialsWereCurrent

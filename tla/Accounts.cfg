SPECIFICATION Spec
CONSTANTS
    Workers = {w1, w2}
    Names = {n1, n2, n3}
    Passwords = {p1, p2}
    Tokens = {t1, t2}
    None = None
    MaxUsers = 1
    Lifetime = 3
    UpdateAge = 1
    MaxDelay = 1
    MaxTime = 4
    MaxFaults = 1
SYMMETRY Symmetry
\* The tokens are bounded, so sign-ins stop at last.
CHECK_DEADLOCK FALSE
INVARIANTS
    SessionsAreAuthenticated
    RegistrationCloses
    SignedOutStaysOut
    ActiveSessionLasts

SPECIFICATION Spec
CONSTANTS
    Runs = {r1, r2, r3}
    Projects = {"web"}
    Environments = {"prod"}
    Pins <- TwoPins
    GivenToken = given
    Offered = {"run", "use", "login", "logout", "user create"}
SYMMETRY Symmetric
INVARIANTS ExitTellsEffect TargetIsPinned TokensAreWhole LogoutLasts
CHECK_DEADLOCK FALSE

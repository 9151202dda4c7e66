SPECIFICATION Spec
CONSTANTS
    Emails = {"ann", "bob"}
    ProjectSlugs = {"app"}
    EnvironmentSlugs = {"dev", "prod"}
    SecretKeys = {"key"}
    Values = {"v1"}
    Large = {}
    Batches <- Single
    Lifetimes = {0, 1}
    Histories <- FromFreshOrShared
    MaxNow = 1
INVARIANTS DeadStayDead UniqueNames ConfinedReads

SPECIFICATION Spec
CONSTANTS
    Emails = {"ann"}
    ProjectSlugs = {"app"}
    EnvironmentSlugs = {"dev"}
    SecretKeys = {"key"}
    Values = {"v1", "v2", "big"}
    Large = {"big"}
    Batches <- NoBatches
    Lifetimes = {}
    Histories <- FromSettled
    MaxNow = 0
INVARIANTS MemoryIsReplay AcknowledgedStands RevealedIsRecorded

SPECIFICATION Spec
CONSTANTS
    Emails = {"ann"}
    ProjectSlugs = {"app"}
    EnvironmentSlugs = {"dev"}
    SecretKeys = {"key", "key2"}
    Values = {"v1", "v2", "big"}
    Large = {"big"}
    Batches <- Bulk
    Lifetimes = {}
    Histories <- FromSettled
    MaxNow = 0
PROPERTY PartialBulkStopsWrites

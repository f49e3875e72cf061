CONSTANTS
    JobIds = {j1}
    Execs = {e1, e2}
    Hooks = {h1, h2}
    WebhookAttempts = 2
    BackupAttempts = 2
    MaxStalls = 1
    Requests = {r1, r2}
    Names = {m1}
    None = None
CONSTRAINT OnePart
SPECIFICATION Spec
INVARIANTS
    CompletedBackupListed
    BackupFollowsJob
    ResentOnlyAfterTrouble
    MigrationInStep
PROPERTY JobSettles
CHECK_DEADLOCK FALSE

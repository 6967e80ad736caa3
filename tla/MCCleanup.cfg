\* One run at a time over a session, two notifications and a cart.
SPECIFICATION CleanupSpec
CONSTANTS
    s1 = s1
    n1 = n1
    n2 = n2
    k1 = k1
    None = None
    Row = {s1, n1, n2, k1}
    TableOf <- Tables
    Retention <- Windows
    Ttl = 1
    BatchSize = 1
    MaxBatches = 2
    MaxNow = 2
INVARIANTS
    CleanupInv
PROPERTIES
    RetentionKept
    
CHECK_DEADLOCK FALSE

\* Two tabs, one of them with a second request, which are denied while the first
\* token is current.
SPECIFICATION FairSpec
CONSTANTS
    t1 = t1
    t2 = t2
    r1 = r1
    restore = restore
    Tab = {t1, t2}
    Request = {restore, r1}
    Makes <- OneAndTwo
    MaxToken = 2
INVARIANTS
    RenewalInv
PROPERTIES
    WaitersGoOn
CHECK_DEADLOCK FALSE

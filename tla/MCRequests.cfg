SPECIFICATION MCSpec
CONSTANTS
    t1 = t1
    t2 = t2
    t3 = t3
    t4 = t4
    t5 = t5
    s1 = s1
    s2 = s2
    Tasks = {t1, t2, t3, t4, t5}
    Signals = {s1, s2}
    SignalOf <- MCSignalOf
    MaxConcurrentRequests = 2
    None = None
    Blank = Blank
    Short = Short
    Queries = {q1}
    Brands = {b1}
    Origins = {here, there}
    MaxInputs = 3
    MaxReports = 2
INVARIANTS
    SlotInv
    SearchInv
PROPERTIES
    FirstComeFirstServed
    IsSemaphore
    RequestsSettle
CHECK_DEADLOCK FALSE

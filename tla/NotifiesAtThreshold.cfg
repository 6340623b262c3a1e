SPECIFICATION Spec
CONSTANTS
    c1 = c1
    c2 = c2
    x = x
    y = y
    a1 = a1
    None = None
    Freed = Freed
    SERVERTIME = SERVERTIME
    Half = 2
    Clients = {c1, c2}
    Alarms = {a1}
    Counters = {x}
    Owner <- MCOwner
    Values <- MCValues
    WaitLists <- ComparisonWaitLists
    AlarmRequests <- NoAlarmRequests
    MaxTime <- MCMaxTime
PROPERTY NotifiesAtThreshold
CHECK_DEADLOCK FALSE

SPECIFICATION ConditionSpec
CONSTANTS
    c1 = c1
    c2 = c2
    c3 = c3
    Waiter = {c1, c2, c3}
    MaxNotify = 2
INVARIANTS ListIsExact

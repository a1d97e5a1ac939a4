SPECIFICATION Spec
CONSTANTS
    n1 = n1
    Absent = Absent
    Panels = {n1}
    Limit = 3
    ListTTL = 2
    MaxCount = 4
INVARIANTS
    EvictedLeavesNoTrace

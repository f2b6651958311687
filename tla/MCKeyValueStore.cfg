\* Two keys of one domain, two values, and every fault the code reports.
SPECIFICATION Spec
CONSTANTS
    Key = {k1, k2}
    Domain = {{k1, k2}}
    Value = {v1, v2}
    Absent = Absent
    Torn = Torn
    Faults = {"open", "write", "syncDir", "rename", "unlink"}
INVARIANTS
    TypeOK
PROPERTIES
    ImplementsDurableStore

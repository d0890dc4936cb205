SPECIFICATION Spec
CONSTANTS
    n1 = n1
    n2 = n2
    n3 = n3
    n4 = n4
    None = None
    Network = {n1, n2, n3, n4}
    Open = {n4}
    First = {"ssid"}
    Hasty = TRUE
    Entries = 2
INVARIANT StoredIsPair
CHECK_DEADLOCK FALSE

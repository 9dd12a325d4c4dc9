CONSTANTS
    Types = {"TPP1"}
    Rumble = {}
    Values = {0, 1, 10, 14, 31, 90, 128}
SPECIFICATION Spec
INVARIANT BessRestores

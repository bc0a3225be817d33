CONSTANTS
    big = big
    small = small
    Handles = {big, small}
    Keys = {1, 2}
    Types = {"binary", "document", "js_code_w_scope"}
    Lengths = {1}
    MaxElems <- MCNested
    None = None
SPECIFICATION BsonSpec
INVARIANT LengthsAdd
PROPERTIES WalksInOrder FindsWhatIsThere
CHECK_DEADLOCK FALSE

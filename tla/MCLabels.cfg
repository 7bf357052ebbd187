SPECIFICATION Spec
CONSTANTS
    Links = {a, b}
    Values = {low, high}
    h1 = h1
    h2 = h2
    Handlers = {h1, h2}
    Operations <- TagsTwice
PROPERTIES
    AddedIsNew
    KeepsUnseenTags
    RequestsEnd
CHECK_DEADLOCK FALSE

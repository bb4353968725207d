SPECIFICATION Spec
CONSTANTS
    Items <- MCItems
    Foreign <- MCForeign
    Radix = 4
    Word = 8
    WordDigits = 2
    ElementSize = 2
    kMaxElementNum = 4
    MaxItems = 3
    MaxRoom = 10
INVARIANTS WriteReadBack NoSilentLoss
PROPERTY AcceptsOnlyValues

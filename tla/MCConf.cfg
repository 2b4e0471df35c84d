CONSTANTS
    SERVER = SERVER
    n = n
    s = s
    Names = {n, s}
    IntNames = {n}
    NoDigits = NoDigits
    Values = {NoDigits, 1, 5, 20}
    INT_MAX = 3
    LONG_MAX = 15
    Texts <- MCTexts
    Default <- MCDefault
    NoValue = NoValue
    Vars <- Keys
    Sign <- MCSign
    Size = 2
    MaxLines = 7
    MaxItems = 7
SPECIFICATION Spec
INVARIANTS
    OneBlock
    ChainsWhole
    SettingsFollowNesting
    SettingsRead
CHECK_DEADLOCK FALSE

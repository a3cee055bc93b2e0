SPECIFICATION Spec
CONSTANTS
    a = a
    b = b
    Semicolon = Semicolon
    SignedForms = {info}
    PlainForms = {check}
    Swapped = {info}
    Contents <- MCContents
    Keys = {k1, k2}
    RightKey = k1
    CustomMethods = {"spaceInfo", "payDetail"}
    InvokeMethods = {"queryOrderFee", "payDetail"}
    FirstMethod = "spaceInfo"
    FirstInvoke = "queryOrderFee"
    MaxSigns = 2
    MaxSends <- MCMaxSends
INVARIANTS
    TypeOK
    LastAnswerUnlessCrossed
    RefusedOnlyIfUnready
    SentIsShown

SPECIFICATION WireSpec
CONSTANTS
    Messages <- TwoOfEach
    MaxInFrame = 3
INVARIANTS
    FramesSplit
    FormatsAgree

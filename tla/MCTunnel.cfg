SPECIFICATION Spec
CONSTANTS
    Shapes <- MCShapes
    MaxUp = 2
    MaxDown = 2
    Capacity = 3
INVARIANTS TypeOK InOrder AnswerComplete UploadComplete IInv
PROPERTY AllEnd
CHECK_DEADLOCK FALSE

SPECIFICATION Spec
CONSTANTS
    W = 16
    Numbers <- Edges
    MaxMethods = 1
    MaxExponent = 20
    Block = 8
    Word = 128
    Pieces = {0, 1, 2, 5, 6, 7, 8, 9, 17, 24}
    MaxLength = 42
    MaxFinals = 2
    Bytes = {0, 3, 84, 170, 255}
    Digits = {9, 62}
    MaxBytes = 5
    MaxText = 8
INVARIANTS
    NumbersAreModular
    StringsReadBack
    TextsReadBack
PROPERTIES
    DigestsAreOfTheMessage
\* A function that has returned does nothing more.
CHECK_DEADLOCK FALSE

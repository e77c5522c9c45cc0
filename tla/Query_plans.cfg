\* Every query of the sets over its tables.
SPECIFICATION Spec
CONSTANTS
    IntMax = 2000000
    Texts <- MCTexts
    Dims <- MCDims
    UnitCalled <- MCUnits
    Lane = 1
    DaySeconds = 12
    HourSeconds = 4
    MinuteSeconds = 2
    CutFactor = 2
    Cases <- MCCases
INVARIANTS
    TypeOK
    AnswersRight
    VerdictsRight

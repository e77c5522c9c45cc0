\* A column that is neither grouped nor aggregated.
SPECIFICATION Spec
CONSTANTS
    IntMax = 2000000
    Texts <- MCTexts
    Dims <- MCDims
    UnitCalled <- MCUnits
    Lane = 1
    DaySeconds = 12
    HourSeconds = 4
    MinuteSeconds = 2
    CutFactor = 2
    Cases <- MCCases
INVARIANT
    UngroupedRefused

SPECIFICATION Spec
CONSTANTS
    Threshold1 = 20
    Threshold2 = 50
    FactorTenths = 11
    HeapPivot = 100
    HeapSizes = {64, 90}
    Programs <- MCPrograms
INVARIANTS AcceptedIsSafe RunAgrees ClaimsAreCovered

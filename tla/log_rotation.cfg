SPECIFICATION Spec
CONSTANTS
    Lengths <- MCLengths
    MaxBytes = 3
    Keep = 3
    MaxRecords = 6
    MaxFaults = 2
INVARIANTS TypeOK InOrder SizeIsExact FilesBounded ReportedIsKept

CONSTANTS
    Names <- MCNames
    Disks <- MCDisks
    ReportedUnknown <- MCReportedUnknown
    CtlInputs <- MCCtlInputs
    MediumInputs <- MCMediumInputs
SPECIFICATION Spec
INVARIANT TypeOK
INVARIANT GetMachineDecodes
PROPERTY ASpec

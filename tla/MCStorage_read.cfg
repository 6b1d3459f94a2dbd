CONSTANTS
    Names <- MCNames
    Disks <- MCDisks
    ReportedUnknown <- MCReportedUnknown
    CtlInputs <- MCCtlInputs
    MediumInputs <- MCReadMediumInputs
SPECIFICATION Spec
PROPERTY ASpec

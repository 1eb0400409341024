SPECIFICATION Spec
CONSTANTS
    Grace = 1
    NoTime = NoTime
    Threshold = 2
    Supplementary = {usage}
    Status = status
PROPERTY RepairIsOffered

SPECIFICATION Spec
CONSTANTS
    Machines <- MCMachines
    MaxGsi = 11
PROPERTY
    RtcFires

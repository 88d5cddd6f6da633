SPECIFICATION Spec
CONSTANTS
    Machines <- MCMachines
    MaxGsi = 11
INVARIANTS
    TypeOK
    Quiet
    Routed
PROPERTY
    Served

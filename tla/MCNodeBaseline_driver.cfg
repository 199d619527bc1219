SPECIFICATION Spec
INVARIANT
    SystemdDriver
CONSTANT
    MaxFaults = 3

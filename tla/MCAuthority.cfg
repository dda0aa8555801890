SPECIFICATION Spec
CONSTANTS
    Task = {t1, t2}
    InitTask = t1
    Cap = {CAP_GRANT, CAP_IRQ}
    CAP_GRANT = CAP_GRANT
    Device = {d1, d2}
    Class = {storage}
    ClassOf <- MCClassOf
    NoDevice = NoDevice
    MAX_DEVICE_GRANTS = 2
INVARIANT MappedIsGranted
PROPERTY NoAmplification
CHECK_DEADLOCK FALSE
SYMMETRY MCSymmetry

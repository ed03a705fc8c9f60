SPECIFICATION Spec
CONSTANTS
    Session = {s1, s2, s3}
    MaxDevices = 2
INVARIANT
    PlaysItsOwn

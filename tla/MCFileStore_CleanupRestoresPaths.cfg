CONSTANTS
    Lens <- MCLens
    Long = {3}
    Byte = {0, 1}
    MaxIO = 2
    Absent = Absent
SPECIFICATION Spec
INVARIANT CleanupRestoresPaths

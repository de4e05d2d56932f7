SPECIFICATION Spec
CONSTANTS
    t1 = t1
    t2 = t2
    Empty = Empty
    Tasks = {t1, t2}
    MaxSaves = 3
INVARIANT TypeOK
INVARIANT AloneFileWhole
INVARIANT AloneSaveSucceeds
PROPERTY ImplementsRegister

SPECIFICATION Spec
CONSTANTS
    File = {schema, coreApi}
    Excluded = {coreApi}
    Text = {t1, t2}
    MaxEdits = 4
    None = None
INVARIANTS
    CheckTellsTheTruth

SPECIFICATION Spec
CONSTANTS
    Distiller = {d1, d2}
    PageDelete = {}
    KbDelete = {}
    Slug = {g1}
    Page = {p1}
    Shadow = {s1, s2, s3}
    NoPage = NoPage
    NoSlug = NoSlug
    Faults = {}
    MaxCrashes = 0
INVARIANTS
    NoLostIncrement
SYMMETRY Symm
CHECK_DEADLOCK FALSE

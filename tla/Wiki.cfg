SPECIFICATION FairSpec
CONSTANTS
    Distiller = {d1, d2}
    PageDelete = {x1}
    KbDelete = {x1}
    Slug = {g1}
    Page = {p1, p2}
    Shadow = {s1, s2, s3}
    NoPage = NoPage
    NoSlug = NoSlug
    Faults = {"vectors"}
    MaxCrashes = 1
INVARIANTS
    WikiTypeOK
    HistoryDense
    PublishedIsIndexed
    AckedIsRecorded
PROPERTIES
    LiveVectorsKept
    RequestsEnd
CHECK_DEADLOCK FALSE

\* Three edits of a package that may have a case of two files with a score, a collector, a
\* submission and a save of the other settings: every order of uploading the pair or half of
\* it, deleting one or both, refusing, aging, collecting and judging.  Requests are spent, so
\* the system may stop.
CONSTANTS
    case = case
    in = in
    out = out
    Files = {in, out}
    Cases = {case}
    Needs <- OneCase
    Sections <- Data
    Versions = {1}
    Uploads <- PairOrHalf
    Scores = {5}
    DefaultScore = 10
    Edits = {e1, e2, e3}
    Savers = {s1}
    Collectors = {g1}
    Tasks = {t1}
    NoHash = NoHash
SYMMETRY Symmetric
SPECIFICATION Spec
INVARIANTS StoreInv CurrentIsStored PayloadIsStored ManifestsFit
PROPERTIES RecentIsKept ImplementsEdits
CHECK_DEADLOCK FALSE

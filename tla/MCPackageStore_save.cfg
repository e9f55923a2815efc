\* Two edits and one save of the problem's other settings.
CONSTANTS
    case = case
    in = in
    out = out
    Files = {in, out}
    Cases = {case}
    Needs <- OneCase
    Sections <- Data
    Versions = {1}
    Uploads <- PairOrHalf
    Scores = {}
    DefaultScore = 10
    Edits = {e1, e2}
    Savers = {s1}
    Collectors = {}
    Tasks = {}
    NoHash = NoHash
SYMMETRY Symmetric
SPECIFICATION Spec
PROPERTIES KeepsPromise
CHECK_DEADLOCK FALSE

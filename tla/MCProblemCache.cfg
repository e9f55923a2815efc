\* Two loops, two packages of two files whose locks differ or are the same, and a crash.
CONSTANTS
    p1 = p1
    p2 = p2
    s1 = s1
    s2 = s2
    Packages = {p1, p2}
    Files = {f1, f2}
    Judge = Judge
    Workers = {w1, w2}
    Temps = {t1, t2}
    Stripes = {s1, s2}
    Stripings <- SharedOrNot
    Limited = TRUE
    MaxCrashes = 1
    NoDir = NoDir
    NoWorker = NoWorker
    NoStripe = NoStripe
SPECIFICATION FairSpec
INVARIANTS CacheInv ReadyIsWhole HitIsWhole DownloadIsShared
PROPERTIES Answered

SPECIFICATION Spec
CONSTANTS
    r1 = r1
    r2 = r2
    steel = steel
    cement = cement
    ev = ev
    hpg = hpg
    buy = buy
    thep = thep
    vni = vni
    Blank = Blank
    Nil = Nil
    Words <- MCWords
    Aliases <- MCAliases
    Within = {}
    Reports = {r1, r2}
    Cards <- MCCards
    Payloads <- MCPayloads
    Queries <- MCQueries
    PageQueries <- MCPageQueries
    Limits = {1, 2}
    MaxVersion = 2
INVARIANTS
    TypeOK
    SearchedOnce
    DetailCoherent
    DrillDown
    ListedIsFound
    MentionFound
    PagesComplete
PROPERTIES
    LifecycleSpec

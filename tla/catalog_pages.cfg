SPECIFICATION Spec
CONSTANTS
    m1 = m1
    m2 = m2
    t1 = t1
    p1 = p1
    p2 = p2
    Lost = Lost
    Empty = Empty
    None = None
    Stems <- TwoMemos
    Legacy <- NoMemo
    Topics <- TwoTopics
    Topic <- SameTopic
    Recovered <- SameTopic
    Pages <- TwoPages
    MaxNo = 2
INVARIANTS TypeOK PageShowsEveryMemo SeriesIsCurrent LineageGoesBack
PROPERTIES RegisteredMemosStay

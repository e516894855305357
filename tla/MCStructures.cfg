SPECIFICATION MCSpec
CONSTANTS
    Members = {m1, m2, m3}
    Scores <- MCScores
    Ranks <- MCRanks
SYMMETRY Symmetry
CHECK_DEADLOCK FALSE
INVARIANTS
    DictListAgree
    FetchByScoreExact
    ReplyCountsChange
    
    HllExact
    

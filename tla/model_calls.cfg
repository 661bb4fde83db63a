CONSTANTS
    Clients = {c1, c2}
    SetNames = {s1}
    TagNames = {a, b}
    Rules = {r1, r2}
    Blank = Blank
    MaxVersions = 2
    MaxTags = 2
    Comments <- ShortComments
    MaxRunes = 5
    MinCommentWords = 2
    CallIDs = {id1, id2, id3}
    MaxHistoryMessages = 6
    MaxCalls = 3
    MaxRounds = 3
SYMMETRY Symmetric
SPECIFICATION MCSpec
INVARIANTS StoredSetsValid MatchIsAsShown ReadsAcknowledged
    VerdictIsJustified
    MemoryTypeOK RequestsAccepted HistoryIsRecent
\* The moderator gives one verdict and ends; the rounds are bounded.
CHECK_DEADLOCK FALSE

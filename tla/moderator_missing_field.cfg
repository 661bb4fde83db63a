CONSTANTS
    Comments <- ShortComments
    MaxRunes = 5
    MinCommentWords = 2
SPECIFICATION ModeratorSpec
INVARIANT NoVerdictFromMissingFields
CHECK_DEADLOCK FALSE

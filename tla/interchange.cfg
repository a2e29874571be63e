CONSTANTS
    k1 = k1
    k2 = k2
    short = short
    pass = pass
    aad = aad
    Unset = Unset
    Failed = Failed
    Malformed = Malformed
    Keys = {k1, k2, short}
    GoodKeys = {k1, k2}
    Passes = {pass}
    Aads = {aad}
    Columns = 3
    FieldKey <- MCFieldKey
    HistoryKey <- MCHistoryKey
    EntryKey <- MCEntryKey
    Order <- MCOrder
    Compared = {2}
    EmailColumn = 2
    PhoneColumn = 1
    Char <- MCChar
    Numbers <- MCNumbers
    Header <- MCHeader
    Rank <- MCRank
    Books <- MCBooks
    OtherBooks <- MCOtherBooks

SPECIFICATION InterSpec
INVARIANTS InterTypeOK CsvReadsBack JsonlReadsBack ShortFileHasPrefix OpensForWhoSealed DiffRight IndexReadsBack
CHECK_DEADLOCK FALSE

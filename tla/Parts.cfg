\* Encoder: bytes of 6 bits, words of 2 bytes, floats of 7 bits.
CONSTANTS
    Bits = 6
    WordBytes = 2
    Scale = 5
    Fine = 4
    Mantissa = 128
    MaxExponent = 5
    Top = 600
    Reach = 2048
    Slack = 10
    Samples <- MCSamples
    MaxBatch = 3
    MaxSpare = 2

\* IndexFile: up to and beyond the lengths that both sizes divide.
CONSTANTS
    MaxOld = 10
    MaxNew = 9
    MaxTears = 1

\* QueryDays
CONSTANTS
    Calendars <- MCCalendars
    DayLength = 4
    Horizon = 9
    HotPoints = {1, 4, 9}
    ColdPoints = {1, 3, 5, 6}
    LatePoints = {8}

\* TableCache
CONSTANTS
    Clearers = {1, 2}
    Keys <- MCKeys
    Goals = {"user"}
    Extends <- MCExtends
    ExtendsWord <- MCExtendsWord
    MaxAdded = 1

\* SheetDDL
CONSTANTS
    Invocations = {1, 2}
    Workbooks <- MCWorkbooks
    MetaSheets = {"_options"}
    Lower <- MCLower
    Numerals = {"0", "1", "2.5"}
    Literals = {"''", "'x'", "N'x'"}
    Touched <- MCTouched
    Garbled <- MCGarbled

\* Notify
CONSTANTS
    Listeners = {"l1", "l2"}
    channel <- MCchannel
    PoolConns = {1, 2}
    NoConn = 0
    MaxSent = 2
    MaxBreaks = 1

SPECIFICATION Spec
INVARIANT DecodingFaithful
INVARIANT IndexReadable
INVARIANT EachDateOnce
INVARIANT ClearedIsFresh
INVARIANT CountedOnce
INVARIANT ConversionFaithful
INVARIANT EarlierTablesExist
INVARIANT WrongLabelIsInherited
INVARIANT NothingSkipped
PROPERTY NotificationDelivered
PROPERTY CloseReturns

\* The operations end.
CHECK_DEADLOCK FALSE

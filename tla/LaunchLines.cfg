\* One entry in the cache; seconds of two units, so that --last 2 and 3 share
\* a key; the clock reaches twice the TTL.
CONSTANTS
    b1 = b1
    b2 = b2
    secret = secret
    local = local
    prod = prod
    typo = typo
    v = v
    Unset = Unset
    Blank = Blank
    DefaultName = DefaultName
    Fields <- AllFields
    Settings <- AllSettings
    Lines <- AllLines
    DefaultLast = 4
    PerSecond = 2
    Reach = 5
    MaxDelta = 8
    Quota = 1
    TopicParts = 2
    Ttl = 1
    MaxTime = 2
    MaxRecords = 1
    MaxEntries = 1
SPECIFICATION Spec
INVARIANTS
    TypeOK
    HitAnswersTheQuestion
    AnswersHaveBrokers
    OneProfileOrNone
    NamedProfileOrNone
    NothingUnexpanded
    

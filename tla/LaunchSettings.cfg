\* Settings that the code passes over, one to a command line.
CONSTANTS
    b1 = b1
    b2 = b2
    secret = secret
    local = local
    prod = prod
    typo = typo
    v = v
    Unset = Unset
    Blank = Blank
    DefaultName = DefaultName
    Fields <- AllFields
    Settings <- ShortTtl
    Lines <- SettingLines
    DefaultLast = 4
    PerSecond = 2
    Reach = 5
    MaxDelta = 8
    Quota = 1
    TopicParts = 1
    Ttl = 1
    MaxTime = 2
    MaxRecords = 2
    MaxEntries = 1
SPECIFICATION Spec
INVARIANT
    SettingsBind

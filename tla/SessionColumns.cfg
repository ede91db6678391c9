\* The same topics and commands: are columns always shown?
CONSTANTS
    Letters = {"a", "A"}
    Digits = {"1"}
    Foreign = {}
    LowerCase <- Small
    Topics <- AllTopics
    Contents <- AllContents
    Invocations <- AllInvocations
    Created <- CreatedNames
    BatchRows = 1
    Formats = {"json"}
    MaxEntries = 1
SPECIFICATION Spec
INVARIANT
    ColumnsAlwaysShown

\* Three topics, two records each at most; the Parquet reader returns batches of
\* one row, one entry is kept and SQL may create one table.
CONSTANTS
    Letters = {"a", "A"}
    Digits = {"1"}
    Foreign = {}
    LowerCase <- Small
    Topics <- AllTopics
    Contents <- AllContents
    Invocations <- AllInvocations
    Created <- CreatedNames
    BatchRows = 1
    Formats = {"json"}
    MaxEntries = 1
SPECIFICATION Spec
INVARIANTS
    TypeOK
    TablesAreTheirTopics
    OneTopicPerTable
    QueryAnswersEveryRecord
    
    OneDocument
    DescribesNoOtherTable

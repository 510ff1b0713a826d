SPECIFICATION FairSpec
CONSTANTS
    NameText <- MCNameText
    ImageText <- MCImageText
    AbsolutePath <- MCAbsolutePath
    AddressText <- MCAddressText
    DurationText <- MCDurationText
    CronText <- MCCronText
    Request = {q1}
    Path <- MCPath
    Method <- MCMethod
    FoldPath <- MCFoldPath
    Hash <- MCHash
    Content <- MCContent
    Successors <- MCSuccessors
    None = None
    MaxVersion = 2
    MaxFaults = 2
    MaxEdits = 2
INVARIANTS
    TypeOK
    SchemaIsWhole
    AcceptedMeansUsable
    ServesOneFile
    AnswersAreTrue
    NothingLeftOpen
PROPERTY
    StopsWhenCancelled

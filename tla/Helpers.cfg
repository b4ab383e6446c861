CONSTANTS
    RequestSlice = 3
    MaxRows = 8
    MaxOffset = 3
    MaxLimit = 7
    MaxSize = 11
    Fields = {"a", "b"}
    Values = {1, 2}
    Orders = {"asc", "DESC", "up"}
    None = None
    Clients = {c1, c2}
    Master = m
    MaxListLen = 2
    Filters = {f1, f2}
    SectionNames = {"syscheck", "localfile", "labels"}
    OptionNames = {"directories", "frequency"}
    Texts = {t1, t2}
    DirTexts <- MC_DirTexts
    Raised = Raised
    Offsets <- MC_Offsets
    Limits <- MC_Limits
    MaxBlocks = 2
    MaxSections = 1
    MaxOptions = 2
    LowerCase <- MC_LowerCase
    NoMessage = None
    NoArg = NoArg
    CharLower <- MC_CharLower
    NoOption = NoOption
SPECIFICATION HelpersSpec
INVARIANTS
    FetchCoversRequest
    GetFilesAnswered
    AgentConfMerged
    OssecConfAnswers
    QueryLowered
    ErrorsDefined
    CliExitStatus
    SearchArrayFinds
    FilemodeLikeLs
    InternalOptionChosen

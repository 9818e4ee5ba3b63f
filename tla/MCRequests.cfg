CONSTANTS
    i1 = i1
    i2 = i2
    i3 = i3
    Indexes = {i1, i2}
    Pieces = 2
    MaxTexts = 1
    Configs <- MCConfigs
    Models <- MCModels
    Reserve = 1
    MinUseful = 1
    MinTokens = 1
    Demands = {0, 2, 9}
    Estimates = {0, 1, 2, 3, 4}
    Null = Null
    Lines <- MCLines
    Extras <- MCExtras
    Lower <- MCLower
    Responses <- MCResponses
    ToolArrays <- MCToolArrays
    NoTools = NoTools
    PlainText = PlainText
    ToolMessages <- MCToolMessages
    Placeholder = "DeferredToolPlaceholder"
    Builtins = {"Bash", "Read"}
    ToolsMax = 2
    MaxMessages = 2
    Conversations <- MCConversations
    Cached <- MCCached
SPECIFICATION MCSpec
CHECK_DEADLOCK FALSE
INVARIANTS
    IInv
    ToolUseComplete
    RoutesSound
    BudgetFits
    HeadersSound
    FoldedIsPlain
    ConvertedSound
PROPERTIES
    KeepsStream
    ToolsNeverShrink

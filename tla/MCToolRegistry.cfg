SPECIFICATION PolicySpec
CONSTANTS
    Items <- MCItems
    Defaults <- MCDefaults
    Adapters <- MCAdapters
    DefaultExtraction <- MCDefaultExtraction
    Meaning <- MCMeaning
    Policy <- MCPolicy
    Fields <- MCFields
    MaxFields = 2
    MaxDepth = 4
    ToolNames <- MCToolNames
    McpNames <- MCMcpNames
    Sources <- MCSources
    MaxItems = 3
    MaxAdapters = 2
INVARIANTS
    GuardsAgree
    NamedFieldsAreFound
PROPERTIES
    AnAdapterTakesOnlyItsOwn
    AnItemAddsItsCall
    AFieldNeverWeakens
CHECK_DEADLOCK FALSE

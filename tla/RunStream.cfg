SPECIFICATION Spec

CONSTANTS
    Frameworks = {"openai", "google", "pydantic", "langchain"}
    Chunks <- MCChunks
    MaxItems = 2
    Wrappings <- MCWrappings
    MaxEvents = 5
    MaxCalls = 2
    NoId = NoId

INVARIANTS
    ShownAsSaid
    ToolsSettle

CHECK_DEADLOCK FALSE

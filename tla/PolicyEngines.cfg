SPECIFICATION Spec
CONSTANTS
    None = None
    NoRole = None
    Docs <- MCDocs
    Projects <- MCProjects
    RoleOrder <- MCRoleOrder
    Requests <- MCRequests
    RoleFact <- MCRoleFact
    ToolFact <- MCToolFact
INVARIANTS
    EnginesAgree
    InheritanceIsLinear
    LayersCompose
    AnalyzerIsRight
CHECK_DEADLOCK FALSE

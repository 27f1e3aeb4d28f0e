SPECIFICATION FairSpec
CONSTANTS
    Members = {m1, m2}
    Nobody = Nobody
    decision = decision
    copy = copy
    llm = llm
    bad = bad
    Events <- MCEvents
    Edge = {copy}
    Rejected <- MCRejected
    Whole = Whole
    Id <- MCId
    Table <- MCTable
    Records <- MCRecords
    MaxLog = 2
    MaxChurn = 2
PROPERTIES SinkSpec EverythingSettles
CHECK_DEADLOCK FALSE

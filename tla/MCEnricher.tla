---------------------------- MODULE MCEnricher ----------------------------
(* Instance: a decision and an LLM event of one record, a second copy of   *)
(* the decision beside a malformed span.                                   *)
EXTENDS Enricher

CONSTANTS decision, copy, llm, bad

MCEvents == {decision, copy, llm}
MCRejected == {bad}
MCId == [e \in MCEvents |-> IF e = llm THEN 2 ELSE 1]
MCTable == [e \in MCEvents |-> IF e = llm THEN 2 ELSE 1]
MCRecords ==
    {[form |-> "keyed", spans |-> {decision, llm}],
     [form |-> "keyed", spans |-> {copy, bad}]}
=============================================================================

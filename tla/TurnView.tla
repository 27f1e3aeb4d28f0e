------------------------------ MODULE TurnView ------------------------------
(***************************************************************************)
(* The stream events of a run (hexgate/streaming/events.py) and the two    *)
(* readers that fold them: the serve process's live run (cli/state.py,     *)
(* ChatState.apply_event) and a turn of the dashboard's Playground         *)
(* (lib/playground.ts, applyEvent).  A text is a sequence of letters.      *)
(***************************************************************************)
EXTENDS Naturals, Sequences, SequencesExt

RunStart == [kind |-> "run_start"]
BlockStart(b, type) == [kind |-> "block_start", block |-> b, type |-> type]
BlockDelta(b, type, text) == [kind |-> "block_delta", block |-> b, type |-> type, text |-> text]
BlockEnd(b, type) == [kind |-> "block_end", block |-> b, type |-> type]
ToolStart(id) == [kind |-> "tool_start", tool |-> id]
ToolEnd(id, state) == [kind |-> "tool_end", tool |-> id, state |-> state]
RunEnd(message) == [kind |-> "run_end", message |-> message]
ErrorEvent == [kind |-> "error"]

Tool(id, state) == [id |-> id, state |-> state]
Has(tools, id) == \E i \in DOMAIN tools : tools[i].id = id
Mark(tools, id, state) == [i \in DOMAIN tools |-> IF tools[i].id = id THEN Tool(id, state) ELSE tools[i]]

-----------------------------------------------------------------------------
(* ChatState.apply_event; current_run is there: start_turn made it.         *)

LiveRun == [text |-> <<>>, reasoning |-> <<>>, tools |-> <<>>, streaming |-> TRUE]

\* A tool is entered the first time it is heard of, by its start or its end.
LiveTool(run, f) ==
    LET state == IF f.kind = "tool_start" THEN "started" ELSE f.state IN
    [run EXCEPT !.tools = IF Has(@, f.tool) THEN Mark(@, f.tool, state) ELSE Append(@, Tool(f.tool, state))]

ApplyToRun(run, f) ==
    CASE f.kind = "block_delta" /\ f.type = "reasoning" -> [run EXCEPT !.reasoning = @ \o f.text]
      [] f.kind = "block_delta" /\ f.type = "text" -> [run EXCEPT !.text = @ \o f.text]
      [] f.kind \in {"tool_start", "tool_end"} -> LiveTool(run, f)
      [] f.kind = "error" -> [run EXCEPT !.streaming = FALSE]
      [] f.kind = "run_end" -> [run EXCEPT !.streaming = FALSE, !.text = f.message]
      [] OTHER -> run

-----------------------------------------------------------------------------
(* applyEvent on the turn that currentTurnId names.                         *)

NewTurn == [text |-> <<>>, reasoning |-> <<>>, tools |-> <<>>, streaming |-> TRUE, failed |-> FALSE]

\* A start seen before, and an end of an unknown tool, change nothing.
TurnTool(turn, f) ==
    [turn EXCEPT !.tools =
        IF f.kind = "tool_end" THEN Mark(@, f.tool, f.state)
        ELSE IF Has(@, f.tool) THEN @ ELSE Append(@, Tool(f.tool, "started"))]

ApplyToTurn(turn, f) ==
    CASE f.kind = "run_start" -> [turn EXCEPT !.streaming = TRUE]
      [] f.kind = "block_delta" /\ f.type = "text" -> [turn EXCEPT !.text = @ \o f.text]
      [] f.kind = "block_delta" /\ f.type = "reasoning" -> [turn EXCEPT !.reasoning = @ \o f.text]
      [] f.kind \in {"tool_start", "tool_end"} -> TurnTool(turn, f)
      [] f.kind = "run_end" -> [turn EXCEPT !.streaming = FALSE, !.text = IF f.message # <<>> THEN f.message ELSE @]
      [] f.kind = "error" -> [turn EXCEPT !.streaming = FALSE, !.failed = TRUE]
      [] OTHER -> turn

\* run_end and error set currentTurnId to null: the turn hears no more.
EndsTurn(f) == f.kind \in {"run_end", "error"}
Hear(view, f) ==
    IF view.current THEN [turn |-> ApplyToTurn(view.turn, f), current |-> ~EndsTurn(f)] ELSE view

RunAfter(frames) == FoldLeft(ApplyToRun, LiveRun, frames)
TurnAfter(frames) == FoldLeft(Hear, [turn |-> NewTurn, current |-> TRUE], frames).turn
=============================================================================

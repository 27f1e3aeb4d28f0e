----------------------------- MODULE RunStream -----------------------------
(***************************************************************************)
(* One run of a hosted agent, from the events its framework streams to     *)
(* what the serve process and the dashboard show of it.  The shared        *)
(* accumulator (streaming/_accumulator.py) with the mappings of the OpenAI,*)
(* Google and Pydantic adapters, and the LangChain normalizer              *)
(* (streaming/normalize.py).  What a framework does is external: it talks, *)
(* thinks, calls tools, some side by side, and stops or raises anywhere.   *)
(***************************************************************************)
EXTENDS TurnView, FiniteSets

CONSTANTS
    Frameworks,         \* the frameworks a run may be of
    Chunks,             \* pieces of text a model sends
    MaxItems,           \* bound: items of an answer, or model runs, that speak side by side
    Wrappings,          \* how a framework wraps a tool's output, outermost first
    MaxEvents,          \* bound: framework events of a run
    MaxCalls,           \* bound: tool calls of a run
    NoId                \* the id of a call that has none

ASSUME RunStreamAssumption ==
    /\ Frameworks \subseteq {"openai", "google", "pydantic", "langchain"}
    /\ MaxEvents \in Nat /\ MaxCalls \in Nat /\ MaxItems \in Nat \ {0}

VARIABLES
    fw,                 \* the framework
    acc,                \* the accumulator
    sent,               \* events sent to the dashboard
    applied,            \* events applied to the serve process's live run
    phase,              \* "streaming" or "over"
    events,             \* framework events so far
    segment,            \* Google: text streamed since the last aggregate
    said, thought,      \* what the model said and thought
    calls,              \* the tools it called, and what became of them
    murky               \* Google: a chunk began with all its block had

vars == <<fw, acc, sent, applied, phase, events, segment, said, thought, calls, murky>>

Shared == fw # "langchain"
Items == 1..MaxItems

\* A letter is told by who speaks.
Spoken(item, chunk) == [i \in DOMAIN chunk |-> <<item, chunk[i]>>]
By(item, text) == SelectSeq(text, LAMBDA letter : letter[1] = item)

-----------------------------------------------------------------------------
(* StreamAccumulator.  Ids it makes up are numbers; sequence is the place.  *)

Accumulator ==
    [started |-> FALSE, blocks |-> <<>>, callless |-> <<>>, open |-> <<>>,
     steps |-> <<>>, message |-> <<>>, fresh |-> 1, out |-> <<>>]

Emit(a, frames) == [a EXCEPT !.out = @ \o frames]

EnsureStarted(a) == IF a.started THEN a ELSE [Emit(a, <<RunStart>>) EXCEPT !.started = TRUE]

IsOpen(a, key) == \E i \in DOMAIN a.blocks : a.blocks[i].key = key
BlockAt(a, key) == CHOOSE i \in DOMAIN a.blocks : a.blocks[i].key = key
CurrentBlockText(a, key) == IF IsOpen(a, key) THEN a.blocks[BlockAt(a, key)].text ELSE <<>>

OpenBlock(a, key, type) ==
    IF IsOpen(a, key) THEN a
    ELSE [Emit(a, <<BlockStart(a.fresh, type)>>) EXCEPT
             !.blocks = Append(@, [key |-> key, id |-> a.fresh, type |-> type, text |-> <<>>]),
             !.fresh = @ + 1]

EmitDelta(a, key, type, text) ==
    IF text = <<>> THEN a
    ELSE LET o == OpenBlock(a, key, type)
             i == BlockAt(o, key) IN
         [Emit(o, <<BlockDelta(o.blocks[i].id, type, text)>>) EXCEPT
             !.blocks[i].text = @ \o text,
             !.message = IF type = "text" THEN @ \o text ELSE @]

Step(block) == [type |-> block.type, text |-> block.text]
ToolStep(id, state) == [type |-> "tool_call", tool |-> id, state |-> state]

FinalizeBlocks(a) ==
    [Emit(a, [i \in DOMAIN a.blocks |-> BlockEnd(a.blocks[i].id, a.blocks[i].type)]) EXCEPT
        !.steps = @ \o [i \in DOMAIN a.blocks |-> Step(a.blocks[i])],
        !.blocks = <<>>]

\* A call ends the text before it; one without an id is given one.
EmitToolStart(a, id) ==
    LET f == FinalizeBlocks(a)
        call == IF id = NoId THEN f.fresh ELSE id IN
    [Emit(f, <<ToolStart(call)>>) EXCEPT
        !.callless = IF id = NoId THEN Append(@, call) ELSE @,
        !.fresh = IF id = NoId THEN @ + 1 ELSE @,
        !.open = Append(@, call)]

\* Which call a result is of: without an id, the oldest without one.
Ended(a, id) == IF id # NoId THEN id ELSE IF a.callless # <<>> THEN Head(a.callless) ELSE a.fresh

EmitToolEnd(a, id, state) ==
    LET call == Ended(a, id) IN
    [Emit(a, <<ToolEnd(call, state)>>) EXCEPT
        !.callless = SelectSeq(@, LAMBDA c : c # call),
        !.open = SelectSeq(@, LAMBDA c : c # call),
        !.steps = Append(@, ToolStep(call, state))]

\* Faulty variant: the tools that still run are forgotten.
CloseNoTools(a) == [a EXCEPT !.open = <<>>]

CloseOpenTools(a) ==
    [Emit(a, [i \in DOMAIN a.open |-> ToolEnd(a.open[i], "failed")]) EXCEPT
        !.steps = @ \o [i \in DOMAIN a.open |-> ToolStep(a.open[i], "failed")],
        !.open = <<>>]

Flush(a) == CloseOpenTools(FinalizeBlocks(EnsureStarted(a)))
Finish(a) == LET f == Flush(a) IN Emit(f, <<RunEnd(f.message)>>)
Fail(a) == Emit(Flush(a), <<ErrorEvent>>)

-----------------------------------------------------------------------------
(* _coerce_tool_output, _tool_end_state: wrappers are taken off one by one, *)
(* but what a JSON string holds is not looked into any further.             *)

Coerced(wrapping) ==
    LET json == {i \in DOMAIN wrapping : wrapping[i] = "json"} IN
    IF json = {} THEN <<>>
    ELSE SubSeq(wrapping, 1 + CHOOSE i \in json : \A j \in json : i <= j, Len(wrapping))

ToolEndState(wrapping, ok) == IF ok \/ Coerced(wrapping) # <<>> THEN "completed" ELSE "failed"

-----------------------------------------------------------------------------
(* The adapters' consume, one operator per kind of native event.            *)

\* OpenAI: raw_response_event, a block for each item; Pydantic: part_start and
\* part_delta, a block for each part.  An item or a part is of one type.
TextDelta(a, type, item, text) == EmitDelta(a, <<type, item>>, type, text)

\* Faulty variant: the aggregate is taken for another chunk.
GoogleTextAgain(a, key, text) == EmitDelta(a, key, key, text)

\* Google: of a text that begins with what its block has, only the rest.
GoogleText(a, key, text) ==
    LET seen == CurrentBlockText(a, key) IN
    EmitDelta(a, key, key, IF IsPrefix(seen, text) THEN SubSeq(text, Len(seen) + 1, Len(text)) ELSE text)

\* Google: a call in a partial event is not a call yet.
GoogleCall(a, partial, id) == IF partial THEN a ELSE EmitToolStart(a, id)

\* Pydantic says how a call went; for the others the output tells.
ResultState(wrapping, ok) ==
    IF fw = "pydantic" THEN (IF ok THEN "completed" ELSE "failed") ELSE ToolEndState(wrapping, ok)

\* LangChain: a block for each model run, closed when that ends (a tool's start and
\* the end of all close every one, the oldest first); the message grows then.
LangText(a, item, text) == [TextDelta(a, "text", item, text) EXCEPT !.message = a.message]
LangClose(a, keys) ==
    LET closed == SelectSeq(a.blocks, LAMBDA block : block.key \in keys) IN
    [FinalizeBlocks([a EXCEPT !.blocks = closed]) EXCEPT
        !.blocks = SelectSeq(a.blocks, LAMBDA block : block.key \notin keys),
        !.message = @ \o FlattenSeq([i \in DOMAIN closed |-> closed[i].text])]
LangCloseAll(a) == LangClose(a, {a.blocks[i].key : i \in DOMAIN a.blocks})
LangFinish(a) == LET c == LangCloseAll(a) IN IF c.started THEN Emit(c, <<RunEnd(c.message)>>) ELSE c
LangToolStart(a, id) == Emit(LangCloseAll(a), <<ToolStart(id)>>)
LangToolEnd(a, id, state) ==
    [Emit(a, <<ToolEnd(id, state)>>) EXCEPT !.steps = Append(@, ToolStep(id, state))]
LangToolError(a, id) ==
    [Emit(a, <<ErrorEvent>>) EXCEPT !.steps = Append(@, ToolStep(id, "failed"))]

-----------------------------------------------------------------------------
(* _run_chat_turn: what a native event emits is applied and sent.           *)

Consume(a) ==
    /\ phase = "streaming" /\ events < MaxEvents
    /\ events' = events + 1
    /\ acc' = [a EXCEPT !.out = <<>>]
    /\ sent' = sent \o a.out
    /\ applied' = applied \o a.out

Start == EnsureStarted(acc)

\* ADK's model speaks while no call of its is unanswered, and not after its last.
MaySpeak == fw = "google" => segment # NoId /\ \A i \in DOMAIN calls : calls[i].state # "started"

\* Items are numbered as they come up, each of one type; ADK has one text at a time.
Speaks(item, other) ==
    /\ item > 1 => fw # "google" /\ By(item - 1, said \o thought) # <<>>
    /\ By(item, other) = <<>>

Says(item, text) ==
    /\ MaySpeak /\ Speaks(item, thought)
    /\ Consume(CASE fw = "google" -> GoogleText(Start, "text", text)
                 [] fw = "langchain" -> LangText(Start, item, text)
                 [] OTHER -> TextDelta(Start, "text", item, text))
    /\ said' = said \o text
    /\ segment' = IF fw = "google" THEN segment \o text ELSE segment
    /\ murky' = (murky \/ (fw = "google" /\ segment # <<>> /\ IsPrefix(CurrentBlockText(acc, "text"), text)))
    /\ UNCHANGED <<fw, phase, thought, calls>>

\* LangChain's normalizer shows no reasoning.
Thinks(item, text) ==
    /\ Shared /\ fw # "google" /\ Speaks(item, said)
    /\ Consume(TextDelta(Start, "reasoning", item, text))
    /\ thought' = thought \o text
    /\ UNCHANGED <<fw, phase, segment, said, calls, murky>>

\* Calls that have no id are answered in order: the accumulator counts on it.
NewCall == Cardinality({i \in DOMAIN calls : calls[i].id # NoId}) + 101
Called(ids) ==
    /\ Len(calls) + Len(ids) <= MaxCalls
    /\ calls' = calls \o [i \in DOMAIN ids |-> [id |-> ids[i], state |-> "started"]]

CallsTool(id) ==
    /\ fw # "google"
    /\ Shared \/ id # NoId
    /\ Called(<<id>>)
    /\ Consume(IF Shared THEN EmitToolStart(Start, id) ELSE LangToolStart(Start, id))
    /\ UNCHANGED <<fw, phase, segment, said, thought, murky>>

\* ADK sends the call in pieces first.
PartialCall ==
    /\ fw = "google" /\ MaySpeak
    /\ Consume(GoogleCall(Start, TRUE, NoId))
    /\ UNCHANGED <<fw, phase, segment, said, thought, calls, murky>>

\* The segment as a whole, with what it did not stream and with its calls.
Aggregate(rest, ids) ==
    /\ fw = "google" /\ MaySpeak
    /\ Called(ids)
    /\ Consume(FoldLeft(LAMBDA a, id : GoogleCall(a, FALSE, id), GoogleText(Start, "text", segment \o rest), ids))
    /\ said' = said \o rest /\ segment' = <<>>
    /\ UNCHANGED <<fw, phase, thought, murky>>

\* The last one, with no call: nothing but the end may follow.
LastAggregate(rest) ==
    /\ fw = "google" /\ MaySpeak
    /\ Consume(GoogleText(Start, "text", segment \o rest))
    /\ said' = said \o rest /\ segment' = NoId
    /\ UNCHANGED <<fw, phase, thought, calls, murky>>

\* Envelopes are structured; a refusal that is a plain sentence counts as ok.
ToolReturns(i, wrapping, ok) ==
    /\ i \in DOMAIN calls /\ calls[i].state = "started"
    /\ calls[i].id = NoId => \A j \in 1..(i - 1) : calls[j].id # NoId \/ calls[j].state # "started"
    /\ LET state == ResultState(wrapping, ok) IN
       Consume(IF Shared THEN EmitToolEnd(Start, calls[i].id, state) ELSE LangToolEnd(Start, calls[i].id, state))
    /\ calls' = [calls EXCEPT ![i].state = IF ok THEN "completed" ELSE "failed"]
    /\ UNCHANGED <<fw, phase, segment, said, thought, murky>>

\* LangChain's on_tool_error: an error that is not the end.
ToolRaises(i) ==
    /\ fw = "langchain"
    /\ i \in DOMAIN calls /\ calls[i].state = "started"
    /\ Consume(LangToolError(Start, calls[i].id))
    /\ calls' = [calls EXCEPT ![i].state = "failed"]
    /\ UNCHANGED <<fw, phase, segment, said, thought, murky>>

ModelEnds(item) ==
    /\ fw = "langchain" /\ IsOpen(acc, <<"text", item>>)
    /\ Consume(LangClose(Start, {<<"text", item>>}))
    /\ UNCHANGED <<fw, phase, segment, said, thought, calls, murky>>

\* ADK's error_code: blocked; no content follows.
Blocked ==
    /\ fw = "google" /\ MaySpeak
    /\ Consume(Emit(Start, <<ErrorEvent>>))
    /\ segment' = NoId
    /\ UNCHANGED <<fw, phase, said, thought, calls, murky>>

Over(a) ==
    /\ phase = "streaming" /\ phase' = "over"
    /\ acc' = [a EXCEPT !.out = <<>>]
    /\ sent' = sent \o a.out
    /\ UNCHANGED <<fw, events, segment, said, thought, calls, murky>>

Ends ==
    LET a == IF Shared THEN Finish(acc) ELSE LangFinish(acc) IN
    Over(a) /\ applied' = applied \o a.out

\* run_normalizer makes the terminal error.
Raises ==
    LET a == Fail(acc) IN
    Shared /\ Over(a) /\ applied' = applied \o a.out

\* LangChain's raises through: _dispatch_message sends an error, applies none.
RaisesThrough ==
    /\ ~Shared
    /\ Over(Emit(acc, <<ErrorEvent>>))
    /\ UNCHANGED applied

\* What an aggregate may add to what was streamed.
Rests == {Spoken(1, chunk) : chunk \in Chunks \union {<<>>}}

Init ==
    /\ fw \in Frameworks
    /\ acc = Accumulator
    /\ sent = <<>> /\ applied = <<>>
    /\ phase = "streaming" /\ events = 0
    /\ segment = <<>> /\ said = <<>> /\ thought = <<>> /\ calls = <<>>
    /\ murky = FALSE

Next ==
    \/ \E item \in Items, chunk \in Chunks : Says(item, Spoken(item, chunk)) \/ Thinks(item, Spoken(item, chunk))
    \/ \E id \in {NewCall, NoId} : CallsTool(id)
    \/ PartialCall
    \/ \E rest \in Rests, ids \in {<<NewCall>>, <<NoId>>, <<NewCall, NewCall + 1>>, <<NoId, NoId>>} :
           Aggregate(rest, ids)
    \/ \E rest \in Rests : LastAggregate(rest)
    \/ \E i \in 1..MaxCalls, w \in Wrappings, ok \in BOOLEAN : ToolReturns(i, w, ok)
    \/ \E i \in 1..MaxCalls : ToolRaises(i)
    \/ \E item \in Items : ModelEnds(item)
    \/ Blocked \/ Ends \/ Raises \/ RaisesThrough

Spec == Init /\ [][Next]_vars

-----------------------------------------------------------------------------
(* Properties. *)

\* The frames of a run are bracketed (_accumulator.py): a block's text comes
\* between its one start and its one end, the run's between run_start and a
\* terminal event with nothing left open, and the steps of the result say of each
\* block and call what its frames said.
Bracketed ==
    LET At(kind, b) == {i \in DOMAIN sent : sent[i].kind = kind /\ sent[i].block = b}
        Blocks == {sent[i].block : i \in {j \in DOMAIN sent : sent[j].kind = "block_start"}}
        TextOf(b) == FoldLeft(LAMBDA t, f : IF f.kind = "block_delta" /\ f.block = b THEN t \o f.text ELSE t, <<>>, sent)
        ends == SelectSeq(sent, LAMBDA f : f.kind \in {"block_end", "tool_end"}) IN
    /\ sent # <<>> /\ sent # <<ErrorEvent>> => {i \in DOMAIN sent : sent[i].kind = "run_start"} = {1}
    /\ \A b \in Blocks : \E i \in DOMAIN sent :
           /\ At("block_start", b) = {i} /\ \A d \in At("block_delta", b) : d > i /\ sent[d].type = sent[i].type
           /\ \/ At("block_end", b) = {} /\ phase = "streaming"
              \/ \E e \in DOMAIN sent : At("block_end", b) = {e} /\ \A d \in At("block_delta", b) : d < e
              \/ ~Shared
    /\ \A i \in DOMAIN sent : sent[i].kind = "run_end" => i = Len(sent)
    /\ Shared =>
           /\ Len(acc.steps) = Len(ends)
           /\ \A k \in DOMAIN ends :
                  IF ends[k].kind = "tool_end" THEN acc.steps[k] = ToolStep(ends[k].tool, ends[k].state)
                  ELSE acc.steps[k] = [type |-> ends[k].type, text |-> TextOf(ends[k].block)]

\* What the model says is shown as it says it, streamed or in one piece, in the
\* process (cli/state.py) and in the dashboard (lib/playground.ts), up to the
\* error that ends the turn, in frames that are bracketed.  Model runs of
\* LangChain that speak at once are told apart when all is over: each one's text is
\* then in its order, but not the turns they took (streaming/normalize.py, finish).
\* Google's SSE sends all twice (google/streaming.py, consume); only a chunk
\* that begins with everything its block had escapes.
ShownAsSaid ==
    LET run == RunAfter(applied)
        turn == TurnAfter(sent)
        AsSaid(text) ==
            \/ text = said
            \/ ~Shared /\ phase = "over" /\ \A item \in Items : By(item, text) = By(item, said) IN
    /\ Bracketed
    /\ ~murky =>
        /\ AsSaid(run.text) /\ run.reasoning = thought
        /\ IsPrefix(turn.text, said) \/ AsSaid(turn.text)
        /\ IsPrefix(turn.reasoning, thought)
        /\ ~turn.failed => AsSaid(turn.text) /\ turn.reasoning = thought

\* Both readers show every call with its own result, and none as running once
\* the run is over: what has not returned has failed (_close_open_tools).  A
\* call without an id is told by its turn.  LangChain closes none, and an error
\* of a tool ends its turn; but what is shown as ended ended so.
ToolsSettle ==
    LET run == RunAfter(applied)
        turn == TurnAfter(sent)
        State(i) == IF calls[i].state = "started" /\ phase = "over" THEN "failed" ELSE calls[i].state IN
    IF Shared THEN
        /\ Len(run.tools) = Len(calls) /\ turn.tools = run.tools
        /\ \A i \in DOMAIN calls : run.tools[i].state = State(i)
    ELSE
        /\ IsPrefix([i \in DOMAIN turn.tools |-> turn.tools[i].id], [i \in DOMAIN run.tools |-> run.tools[i].id])
        /\ \A i \in DOMAIN run.tools : run.tools[i].state \in {"started", calls[i].state}
        /\ \A i \in DOMAIN turn.tools : turn.tools[i].state \in {"started", run.tools[i].state}
=============================================================================

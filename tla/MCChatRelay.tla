----------------------------- MODULE MCChatRelay ----------------------------
(* The relay and the session are large together, so a behaviour is large on  *)
(* one side only.                                                            *)
EXTENDS ChatRelay, TLC

Symmetry == Permutations(Tabs)

\* What can still matter: not the frames of a connection that is over, nor how it
\* was closed, nor how many resets an empty conversation has seen.
Past(c) == handler[c] = "finished"
Live ==
    <<serve, agent, chats, handler, out, up, tab, greeting, shown, raced,
      [c \in Conns |-> IF Past(c) THEN <<link[c] = "up">> ELSE <<link[c], read[c]>>],
      [t \in Tabs |-> [c \in Conns |-> IF Past(c) THEN 0 ELSE seen[t][c]]],
      phase, down, messages, run, stage, waiting, holder, input, events,
      IF messages = <<>> /\ Alive = {} THEN <<0, {}>> ELSE <<epoch, memory>>, cut, conn, resets>>

\* Tabs come and go, a rival connects, and nothing but resets is sent, one at a
\* time: two of them, two connections and a tab that closes are too much together.
OnTheRelay ==
    LET accepted == {c \in Conns : handler[c] # "new"}
        closed == {t \in Tabs : tab[t] \in {"closed", "gone"}} IN
    /\ \A t \in Turns : stage[t] = "typed"
    /\ Len(down) <= 1 /\ \A c \in Conns : Len(up[c]) <= 1
    /\ Cardinality(closed) <= 1
    /\ resets + Cardinality(accepted) + Cardinality(closed) <= 4

\* One tab stays, there is no rival, and the relay keeps up with what is sent.
OnTheSession ==
    /\ resets <= 1 /\ \A t \in Tabs : tab[t] \in {"new", "open"}
    /\ Cardinality({t \in Tabs : tab[t] # "new"}) <= 1
    /\ agent # Rival
    /\ \A c \in Conns : Rival \notin Range(up[c]) /\ Len(up[c]) <= 1
Focused == OnTheRelay \/ OnTheSession
=============================================================================

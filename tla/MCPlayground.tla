---------------------------- MODULE MCPlayground ----------------------------
EXTENDS Playground, TLC

Symmetry == Permutations(Projects)

\* What can still matter: not the project of a socket that is gone, nor a timer that
\* has fired, nor why a call was refused or whether its prompt was seen once it is
\* over; and after an overlap, which every other property excepts, only the link.
Link ==
    <<activeSocket, activeProjectId, timers, ready, visits, drops,
      IF reconnectTimer \in timers THEN reconnectTimer ELSE Null,
      [s \in Sockets |-> IF ready[s] = "closed" /\ s \notin timers THEN Null ELSE of[s]]>>
Live ==
    IF overlap THEN <<Link>>
    ELSE <<Link, inbox, storeVars, up, run, home, letters, hasty, late,
           [t \in Turns |-> IF gate[t] = "expired" THEN "denied" ELSE gate[t]],
           {t \in unseen : gate[t] = "open"}>>
=============================================================================

---------------------------- MODULE MCEventPath ----------------------------
(* Two projects with a key each, the first key with a block appended that     *)
(* claims the second, and the second cut short.  Keystore, clock and senders  *)
(* are large together, so a behaviour is large on one side only.              *)
EXTENDS EventPath, FiniteSets, TLC

CONSTANTS t1, t2, pa, pb, p1, k1

MCProject == t1 :> pa @@ t2 :> pb
Plain(t) == [readable |-> TRUE, token |-> t, claims |-> {}, until |-> Never]
MCCredentials ==
    {Plain(t1), Plain(t2), [Plain(t1) EXCEPT !.claims = {t2}, !.until = 2],
     [Plain(t2) EXCEPT !.readable = FALSE]}

Symmetry == Permutations(Threads) \union Permutations(Events) \union Permutations(Senders)

Quiet == exit = "no" /\ stop.step = "none" /\ \A h \in Threads : thread[h].step = "new"
Settled == kpc = [p \in Processes |-> IF p = p1 THEN "up" ELSE "down"] /\ pub = k1
Loaded == [loaded |-> TRUE, keys |-> Tokens, at |-> 0]

\* Processes start and die, and mint; the collector starts.
OnKeys == Quiet /\ now = 0 /\ revoked[t1] = Never /\ revoked[t2] = Never

\* One key comes and goes, the database fails or is late, one event is sent.
OnClock ==
    /\ Settled /\ minted[t2] = Never
    /\ stop.step = "none" /\ exit = "no"
    /\ Cardinality({h \in Threads : thread[h].step # "new"}) <= 1
    /\ Cardinality({e \in Events : under[e] # NoApiKey}) <= 1

\* Both keys are known to the collector, which stays up and has one request at a time;
\* the threads do what they will, but nothing half way while it judges.
OnSenders ==
    /\ Settled /\ crashes = 0 /\ now = 0
    /\ minted[t1] = 0 /\ minted[t2] = 0 /\ snap = Loaded /\ load = NoLoad
    /\ revoked[t1] = Never /\ revoked[t2] = Never
    /\ \A h \in Threads : thread[h].key \in Keys => thread[h].key.readable
    /\ Cardinality({s \in Senders : request[s].step # "idle"}) <= 1
    /\ (\E s \in Senders : request[s].step \in {"verified", "looked"})
        => stop.step = "none" /\ \A h \in Threads : thread[h].step \in {"new", "idle"}

Focused == OnKeys \/ OnClock \/ OnSenders
=============================================================================

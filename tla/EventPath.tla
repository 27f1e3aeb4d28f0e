----------------------------- MODULE EventPath -----------------------------
(***************************************************************************)
(* The way of an event from the SDK to the topic of raw spans: the senders *)
(* of a host process, the keys they present, the collector that accepts a  *)
(* batch for the project of its key.  A request may be lost, answered too  *)
(* late, or sent again.                                                    *)
(***************************************************************************)
EXTENDS EventSenders, IngestAuth

ASSUME ClientsAssumption == Clients = Senders /\ Keys = Credentials

VARIABLES
    sent,               \* the events of each sender's request
    accepted            \* what the collector has accepted, and for which project

pathVars == <<sent, accepted>>
vars == <<keystore, authVars, senderVars, pathVars>>

Init ==
    /\ KeyStoreInit /\ AuthInit /\ SendersInit
    /\ sent = [s \in Senders |-> {}]
    /\ accepted = {}

\* The worker posts its batch, bearing its sender's key.
Export(s) ==
    /\ flight[s] # {}
    /\ Receive(s, key[s])
    /\ sent' = [sent EXCEPT ![s] = flight[s]]
    /\ UNCHANGED <<keystore, senderVars, accepted>>

\* Authenticate returns: the batch goes on with the project of the key's row.
Judged(s) ==
    /\ Judge(s)
    /\ accepted' = IF request'[s].step = "accepted"
                   THEN accepted \union {[event |-> e, project |-> Project[request[s].id]] : e \in sent[s]}
                   ELSE accepted
    /\ UNCHANGED <<keystore, senderVars, sent>>

\* The answer arrives, if the worker still waits for it: 2xx, or a 401 that over
\* HTTP stands for an outage as well and is not retried.
Reply(s) ==
    /\ Answered(s)
    /\ IF flight[s] # {} THEN BatchDone(s) ELSE UNCHANGED senderVars
    /\ sent' = [sent EXCEPT ![s] = {}]
    /\ UNCHANGED <<keystore, accepted>>

\* The answer is lost, and the batch may be posted again.
ReplyLost(s) ==
    /\ Answered(s)
    /\ sent' = [sent EXCEPT ![s] = {}]
    /\ UNCHANGED <<keystore, senderVars, accepted>>

\* No answer within the timeout, or no collector: the batch is dropped.
GiveUp(s) == BatchDone(s) /\ UNCHANGED <<keystore, authVars, pathVars>>

CollectorCrash ==
    /\ CollectorStops
    /\ crashes' = crashes + 1
    /\ sent' = [s \in Senders |-> IF request'[s] = Idle THEN {} ELSE sent[s]]
    /\ UNCHANGED <<priv, pub, held, kpc, drawn, senderVars, accepted>>

Platform ==
    \/ (\E p \in Processes : KeyStoreStep(p)) /\ UNCHANGED <<authVars, senderVars, pathVars>>
    \/ /\ \/ \E t \in Tokens : Revoke(t) \/ \E p \in Processes : Mint(p, t)
          \/ Tick
       /\ UNCHANGED <<keystore, senderVars, pathVars>>

Collector ==
    \/ CacheStep /\ UNCHANGED <<keystore, senderVars, pathVars>>
    \/ \E s \in Senders :
          \/ TakeSnapshot(s) /\ UNCHANGED <<keystore, senderVars, pathVars>>
          \/ Judged(s)
    \/ CollectorCrash

\* A key can be configured once it is minted.
Host ==
    /\ \/ \E h \in Threads :
             \/ \E k \in Keys : minted[k.token] # Never /\ LookUp(h, k)
             \/ Make(h)
             \/ \E e \in Events : Emit(h, e)
             \/ Enqueue(h)
       \/ \E s \in Senders :
             TakeBatch(s) \/ WorkerEnds(s) \/ JoinTimesOut(s) \/ Close(s) \/ ShutProvider(s)
       \/ Shutdown \/ Clear \/ ShutdownReturns \/ Exit \/ Gone
    /\ UNCHANGED <<keystore, authVars, pathVars>>

Network == \E s \in Senders : Export(s) \/ Reply(s) \/ ReplyLost(s) \/ GiveUp(s)

Next == Platform \/ Collector \/ Host \/ Network

Spec == Init /\ [][Next]_vars

-----------------------------------------------------------------------------
\* An event is accepted for the project of the key it was emitted under and for no
\* other, whichever threads shared the process with other projects' keys, whatever
\* blocks were appended to the key, and however often the batch was sent
\* (_senders.py, get_or_create_sender; verifier.go, readIdentity; extension.go,
\* resolveProject).
EventsReachTheirProject ==
    \A a \in accepted : a.project = Project[under[a.event].token]
=============================================================================

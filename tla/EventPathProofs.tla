-------------------------- MODULE EventPathProofs --------------------------
(***************************************************************************)
(* Proofs about EventPath and the modules it composes, for any number of   *)
(* API processes, keys, threads, senders, events, and any times.           *)
(*                                                                         *)
(* The invariant has a part for each module.  The keystore: whoever is     *)
(* past the link holds what is on disk.  The collector: every snapshot is  *)
(* the table of a moment at most one load older than its stamp.  The       *)
(* senders: an event stays with a sender of the key it was emitted under.  *)
(* The path: what is being judged is the key of the sender that posted.    *)
(***************************************************************************)
EXTENDS EventPath, TLAPS

-----------------------------------------------------------------------------
(* The keystore.                                                           *)

KeyStoreType ==
    /\ priv \in RootKeys \union {NoKey, Cut}
    /\ held \in [Processes -> RootKeys \union {NoKey}]
    /\ kpc \in [Processes -> {"down", "absent", "drawn", "linked", "opened", "up", "failed"}]
    /\ drawn \subseteq RootKeys

\* Whoever has drawn holds a keypair; whoever is past the link holds the one on
\* disk; a file that was damaged before stays, and nobody draws over it.
KeysAgree ==
    \A p \in Processes :
        /\ kpc[p] = "drawn" => held[p] \in RootKeys
        /\ kpc[p] \in {"linked", "opened", "up"} => priv \in RootKeys /\ held[p] = priv
        /\ kpc[p] = "failed" => priv = Cut
        /\ priv = Cut => kpc[p] \in {"down", "failed"} /\ drawn = {}

KeyStoreInv == KeyStoreType /\ KeysAgree /\ pub \in {NoKey, Cut, priv}

\* What is signed is signed with the keypair on disk, which then stays.
SignedByRoot ==
    /\ \A t \in Tokens : minted[t] # Never => priv \in RootKeys /\ signer[t] = priv
    /\ root # NoKey => priv \in RootKeys /\ root = priv

-----------------------------------------------------------------------------
(* The collector.                                                          *)

Snapshots == [loaded : BOOLEAN, keys : SUBSET Tokens, at : Moments]
Loads == [step : {"idle", "asked", "read"}, since : Moments, keys : SUBSET Tokens]
Requests ==
    [step : {"idle", "invalid", "verified", "looked", "accepted", "unknown", "unavailable"},
     id : Tokens \union {NoToken}, seen : Snapshots, at : Moments]

AuthType ==
    /\ now \in Moments
    /\ minted \in [Tokens -> 0..Never]
    /\ revoked \in [Tokens -> 0..Never]
    /\ signer \in [Tokens -> RootKeys \union {NoKey}]
    /\ snap \in Snapshots
    /\ load \in Loads
    /\ request \in [Clients -> Requests]

\* A row comes and goes no later than now, and goes after it came.
RowsInTime ==
    \A t \in Tokens :
        /\ minted[t] # Never => minted[t] <= now
        /\ revoked[t] # Never => minted[t] <= revoked[t] /\ revoked[t] <= now

\* The keys are the table of moment m.
TableAt(keys, m) ==
    \A t \in Tokens : IF t \in keys THEN ThereAt(t, m) ELSE AbsentAt(t, m)

\* A snapshot is the table of a moment at most one load before its stamp.
Dated(s) ==
    /\ s.at <= now
    /\ \E m \in Moments : m <= s.at /\ s.at <= m + LoadTimeout /\ TableAt(s.keys, m)

CacheDated ==
    /\ load.step # "idle" => load.since <= now /\ now <= load.since + LoadTimeout
    /\ load.step = "read" => \E m \in Moments : /\ load.since <= m /\ m <= now
                                                /\ TableAt(load.keys, m)
    /\ snap.loaded => Dated(snap)

\* A key is looked up in a snapshot that was loaded.
RequestsDated ==
    \A c \in Clients :
        /\ request[c].step \in {"verified", "looked"} => snap.loaded /\ request[c].id \in Tokens
        /\ request[c].step = "looked" => Dated(request[c].seen)
        /\ request[c].step \in {"accepted", "unknown"} => request[c].at <= now /\ request[c].id \in Tokens

AuthInv == AuthType /\ RowsInTime /\ CacheDated /\ RequestsDated /\ VerdictIsRecent

-----------------------------------------------------------------------------
(* The senders.                                                            *)

ThreadStates ==
    [step : {"new", "missed", "idle", "emitting"}, key : Keys \union {NoApiKey},
     sender : Senders \union {NoSender}, event : Events \union {NoEvent}]

SendersType ==
    /\ registry \in [Keys -> Senders \union {NoSender}]
    /\ key \in [Senders -> Keys \union {NoApiKey}]
    /\ life \in [Senders -> {"unmade", "open", "closing", "shut", "ended"}]
    /\ queue \in [Senders -> Seq(Events)]
    /\ flight \in [Senders -> SUBSET Events]
    /\ thread \in [Threads -> ThreadStates]
    /\ under \in [Events -> Keys \union {NoApiKey}]
    /\ exit \in {"no", "hooks", "gone"}

\* A sender is made with its key, and one that is registered is made.
MadeWithKey ==
    /\ \A s \in Senders : life[s] # "unmade" => key[s] \in Keys
    /\ \A k \in Keys : registry[k] # NoSender => life[registry[k]] # "unmade" /\ key[registry[k]] = k

\* A thread emits under its own key, through a sender of that key.
ThreadsKeepKey ==
    \A h \in Threads :
        /\ thread[h].step # "new" => thread[h].key \in Keys
        /\ thread[h].step \in {"idle", "emitting"} =>
              thread[h].sender \in Made /\ key[thread[h].sender] = thread[h].key
        /\ thread[h].step = "emitting" =>
              thread[h].event \in Events /\ under[thread[h].event] = thread[h].key

\* What is queued or in flight was emitted under the sender's key.
EventsKeepKey ==
    \A s \in Senders :
        /\ \A i \in DOMAIN queue[s] : under[queue[s][i]] = key[s]
        /\ \A e \in flight[s] : under[e] = key[s]

\* A sender that does not run has nothing; after exit no thread is half way, and
\* when the process is gone every sender that was made has ended.
EndsEmpty ==
    /\ \A s \in Senders : life[s] \in {"unmade", "ended"} => queue[s] = << >> /\ flight[s] = {}
    /\ exit # "no" => \A h \in Threads : thread[h].step \in {"new", "idle"}
    /\ exit = "gone" => \A s \in Made : life[s] = "ended"

SendersInv == SendersType /\ MadeWithKey /\ ThreadsKeepKey /\ EventsKeepKey /\ EndsEmpty

-----------------------------------------------------------------------------
(* The path.                                                               *)

\* A request that has not been answered bears its sender's key, and its events
\* were emitted under it.
RequestsKeepKey ==
    /\ sent \in [Senders -> SUBSET Events]
    /\ \A s \in Senders :
          /\ request[s].step # "idle" => life[s] # "unmade"
          /\ request[s].step \in {"verified", "looked"} => request[s].id = key[s].token
          /\ \A e \in sent[s] : life[s] # "unmade" /\ under[e] = key[s]

AcceptedKnown ==
    \A a \in accepted : /\ a.event \in Events /\ under[a.event] # NoApiKey
                        /\ a.project = Project[under[a.event].token]

IInv ==
    /\ KeyStoreInv
    /\ SignedByRoot
    /\ AuthInv
    /\ SendersInv
    /\ RequestsKeepKey
    /\ AcceptedKnown

-----------------------------------------------------------------------------
(* The keystore's steps.                                                   *)

LEMMA KeyStoreInitInv == KeyStoreInit => KeyStoreInv
  BY RootKeysAssumption DEF KeyStoreInit, KeyStoreInv, KeyStoreType, KeysAgree

\* No start, race or crash parts a process that serves from the file on disk,
\* and a keypair that is on disk stays there.
LEMMA KeyStoreStepInv ==
  ASSUME KeyStoreInv, NEW p \in Processes, KeyStoreStep(p)
  PROVE  /\ KeyStoreInv'
         /\ priv \in RootKeys => priv' = priv
<1> USE RootKeysAssumption DEF KeyStoreInv
<1>1. CASE EnsureKeypair(p)
  BY <1>1 DEF EnsureKeypair, Load, KeyStoreType, KeysAgree
<1>2. CASE Generate(p)
  <2>1. PICK k \in RootKeys \ drawn : held' = [held EXCEPT ![p] = k] /\ drawn' = drawn \union {k}
    BY <1>2 DEF Generate
  <2>2. priv # Cut
    BY <1>2 DEF Generate, KeysAgree
  <2>3. QED
    BY <1>2, <2>1, <2>2 DEF Generate, KeyStoreType, KeysAgree
<1>3. CASE Link(p)
  <2>1. priv # Cut /\ held[p] \in RootKeys
    BY <1>3 DEF Link, KeysAgree
  <2>2. CASE priv = NoKey
    BY <1>3, <2>1, <2>2 DEF Link, KeyStoreType, KeysAgree
  <2>3. CASE priv # NoKey
    BY <1>3, <2>1, <2>3 DEF Link, Load, KeyStoreType, KeysAgree
  <2>4. QED
    BY <2>2, <2>3
<1>4. CASE OpenPublic(p)
  BY <1>4 DEF OpenPublic, KeyStoreType, KeysAgree
<1>5. CASE WritePublic(p)
  BY <1>5 DEF WritePublic, KeyStoreType, KeysAgree
<1>6. CASE CrashProcess(p)
  BY <1>6 DEF CrashProcess, KeyStoreType, KeysAgree
<1>7. QED
  BY <1>1, <1>2, <1>3, <1>4, <1>5, <1>6 DEF KeyStoreStep

\* What a public half is read from is the file's or a serving process's.
LEMMA PublishedIsRoot ==
  ASSUME KeyStoreInv
  PROVE  Published \subseteq RootKeys \intersect {priv}
  BY RootKeysAssumption DEF Published, KeyStoreInv, KeysAgree

-----------------------------------------------------------------------------
(* The collector's steps.                                                  *)

\* A row that comes or goes now leaves the tables of the past as they were.
LEMMA TableStays ==
  ASSUME AuthType, RowsInTime, AuthType', RowsInTime', now' = now,
         NEW t \in Tokens,
         \/ minted[t] = Never /\ minted' = [minted EXCEPT ![t] = now] /\ UNCHANGED revoked
         \/ t \in Live /\ revoked' = [revoked EXCEPT ![t] = now] /\ UNCHANGED minted,
         NEW m \in Moments, m <= now
  PROVE  /\ \A x \in Tokens : ThereAt(x, m) => ThereAt(x, m)'
         /\ \A x \in Tokens : AbsentAt(x, m) => AbsentAt(x, m)'
         /\ \A keys \in SUBSET Tokens : TableAt(keys, m) => TableAt(keys, m)'
<1> USE TimesAssumption DEF Moments, Never
<1>1. \A x \in Tokens : ThereAt(x, m) => ThereAt(x, m)'
  BY DEF ThereAt, AuthType, Live
<1>2. \A x \in Tokens : AbsentAt(x, m) => AbsentAt(x, m)'
  BY DEF AbsentAt, AuthType, Live, RowsInTime
<1>3. QED
  BY <1>1, <1>2 DEF TableAt

\* The live rows are the table of this moment.
LEMMA LiveIsTable ==
  ASSUME AuthType, RowsInTime
  PROVE  Live \subseteq Tokens /\ TableAt(Live, now)
  BY TimesAssumption DEF AuthType, RowsInTime, Live, TableAt, ThereAt, AbsentAt, Moments, Never

LEMMA AuthInitInv == AuthInit => AuthInv
<1> SUFFICES ASSUME AuthInit PROVE AuthInv
  OBVIOUS
<1> USE TimesAssumption DEF AuthInit
<1>1. AuthType
  BY RootKeysAssumption DEF AuthType, Snapshots, Loads, Requests, NoSnapshot, NoLoad, Idle,
                            Moments, Never
<1>2. RowsInTime /\ CacheDated /\ RequestsDated /\ VerdictIsRecent
  BY DEF RowsInTime, CacheDated, RequestsDated, VerdictIsRecent, NoSnapshot, NoLoad, Idle
<1>3. QED
  BY <1>1, <1>2 DEF AuthInv

\* A verdict is judged on nothing but its own request and the table.
VerdictHolds(r) ==
    LET recent == {m \in Moments : m <= r.at /\ r.at <= m + MaxStaleness + LoadTimeout} IN
    /\ r.step = "accepted" => \E m \in recent : ThereAt(r.id, m)
    /\ r.step = "unknown" => \E m \in recent : AbsentAt(r.id, m)

LEMMA VerdictsAre == VerdictIsRecent <=> \A c \in Clients : VerdictHolds(request[c])
  BY DEF VerdictIsRecent, VerdictHolds, Recent

LEMMA TickInv ==
  ASSUME AuthInv, Tick
  PROVE  AuthInv'
<1> USE TimesAssumption DEF AuthInv, Tick, table, Moments, Never
<1>1. AuthType' /\ RowsInTime'
  BY DEF AuthType, RowsInTime
<1>2. \A m : \A keys : TableAt(keys, m)' <=> TableAt(keys, m)
  BY DEF TableAt, ThereAt, AbsentAt
<1>3. \A s \in Snapshots : Dated(s) => Dated(s)'
  BY <1>2 DEF Dated, Snapshots, AuthType
<1>4. CacheDated'
  BY <1>2, <1>3 DEF CacheDated, AuthType, Loads
<1>5. RequestsDated'
  <2>1. \A c \in Clients : request[c].seen \in Snapshots /\ request[c].at \in Moments
    BY DEF AuthType, Requests
  <2>2. QED
    BY <1>3, <2>1 DEF RequestsDated, AuthType
<1>6. VerdictIsRecent'
  BY DEF VerdictIsRecent, Recent, ThereAt, AbsentAt
<1>7. QED
  BY <1>1, <1>4, <1>5, <1>6

\* Minting and revoking.
LEMMA TableInv ==
  ASSUME AuthInv, AuthType', NEW t \in Tokens,
         \/ minted[t] = Never /\ minted' = [minted EXCEPT ![t] = now] /\ UNCHANGED revoked
         \/ t \in Live /\ revoked' = [revoked EXCEPT ![t] = now] /\ UNCHANGED minted,
         UNCHANGED <<now, root, cache, request>>
  PROVE  AuthInv'
<1> USE TimesAssumption DEF AuthInv, cache
<1>1. RowsInTime'
  BY DEF RowsInTime, AuthType, Live, Moments, Never
<1>2. \A m \in Moments : m <= now =>
         /\ \A x \in Tokens : ThereAt(x, m) => ThereAt(x, m)'
         /\ \A x \in Tokens : AbsentAt(x, m) => AbsentAt(x, m)'
         /\ \A keys \in SUBSET Tokens : TableAt(keys, m) => TableAt(keys, m)'
  BY <1>1, TableStays
<1>3. \A s \in Snapshots : Dated(s) => Dated(s)'
  BY <1>2 DEF Dated, Snapshots, AuthType, Moments
<1>4. CacheDated'
  BY <1>2, <1>3 DEF CacheDated, AuthType, Loads
<1>5. RequestsDated'
  <2>1. \A c \in Clients : request[c].seen \in Snapshots
    BY DEF AuthType, Requests
  <2>2. QED
    BY <1>3, <2>1 DEF RequestsDated
<1>6. VerdictIsRecent'
  <2> SUFFICES ASSUME NEW c \in Clients
               PROVE  /\ request[c].step = "accepted" => \E m \in Recent(c) : ThereAt(request[c].id, m)'
                      /\ request[c].step = "unknown" => \E m \in Recent(c) : AbsentAt(request[c].id, m)'
    BY DEF VerdictIsRecent, Recent
  <2>1. request[c].step \in {"accepted", "unknown"} =>
           /\ request[c].id \in Tokens
           /\ \A m \in Recent(c) : m \in Moments /\ m <= now
    <3>1. request[c].at \in Moments
      BY DEF AuthType, Requests
    <3>2. QED
      BY <3>1 DEF RequestsDated, Recent, AuthType, Moments
  <2>2. QED
    BY <1>2, <2>1 DEF VerdictIsRecent
<1>7. QED
  BY <1>1, <1>4, <1>5, <1>6

\* A request that ends, or has not begun, is bound by nothing.
LEMMA IdleRequest ==
  /\ Idle \in Requests /\ Idle.step = "idle" /\ NoSnapshot \in Snapshots
  /\ VerdictHolds(Idle)
  BY TimesAssumption DEF Idle, NoSnapshot, Requests, Snapshots, VerdictHolds, Moments

\* Refreshing the cache, up to the snapshot being replaced whole.
LEMMA CacheInv ==
  ASSUME AuthInv, CacheStep
  PROVE  AuthInv'
<1> USE TimesAssumption DEF AuthInv
<1>1. UNCHANGED <<now, table, request>>
  BY DEF CacheStep, Start, Poll, ReadRows, Replace, LoadFails
<1>2. /\ \A m : \A keys : TableAt(keys, m)' <=> TableAt(keys, m)
      /\ \A s : Dated(s)' <=> Dated(s)
  BY <1>1 DEF TableAt, ThereAt, AbsentAt, Dated, table
<1>3. RowsInTime' /\ VerdictIsRecent'
  BY <1>1 DEF RowsInTime, VerdictIsRecent, Recent, ThereAt, AbsentAt, table
<1>4. CASE Start \/ Poll
  <2>1. load' = [step |-> "asked", since |-> now, keys |-> {}] /\ UNCHANGED snap
    BY <1>4 DEF Start, Poll
  <2>2. AuthType' /\ CacheDated' /\ RequestsDated'
    BY <1>1, <1>2, <2>1 DEF AuthType, CacheDated, RequestsDated, Loads, Moments, table
  <2>3. QED
    BY <1>3, <2>2
<1>5. CASE ReadRows
  <2>1. load' = [load EXCEPT !.step = "read", !.keys = Live] /\ UNCHANGED snap
        /\ load.step = "asked"
    BY <1>5 DEF ReadRows
  <2>2. Live \subseteq Tokens /\ TableAt(Live, now) /\ now \in Moments
    BY LiveIsTable DEF AuthType
  <2>3. AuthType'
    BY <1>1, <2>1, <2>2 DEF AuthType, Loads, table
  <2>4. CacheDated'
    BY <1>1, <1>2, <2>1, <2>2 DEF AuthType, CacheDated, Loads, Moments
  <2>5. RequestsDated'
    BY <1>1, <1>2, <2>1 DEF RequestsDated
  <2>6. QED
    BY <1>3, <2>3, <2>4, <2>5
<1>6. CASE Replace
  <2>1. /\ snap' = [loaded |-> TRUE, keys |-> load.keys, at |-> now] /\ load' = NoLoad
        /\ load.step = "read"
    BY <1>6 DEF Replace
  <2>2. load.since \in Moments /\ load.keys \in SUBSET Tokens /\ now \in Moments
    BY DEF AuthType, Loads
  <2>3. AuthType'
    BY <1>1, <2>1, <2>2 DEF AuthType, Loads, NoLoad, Snapshots, Moments, table
  <2> PICK keys \in SUBSET Tokens : keys = load.keys
    BY <2>2
  <2>4. PICK m \in Moments : load.since <= m /\ m <= now /\ TableAt(keys, m)
    BY <2>1 DEF CacheDated
  <2>5. now <= m + LoadTimeout
    BY <2>1, <2>2, <2>4 DEF CacheDated, Moments
  <2>6. Dated(snap)'
    <3>1. m <= now /\ now <= m + LoadTimeout /\ TableAt(keys, m)'
      BY <1>2, <2>4, <2>5
    <3>2. now' = now /\ snap'.at = now /\ snap'.keys = keys /\ now <= now
      BY <1>1, <2>1, <2>2 DEF Moments
    <3>3. QED
      BY <3>1, <3>2 DEF Dated, TableAt, ThereAt, AbsentAt
  <2>7. CacheDated'
    BY <2>1, <2>6 DEF CacheDated, NoLoad
  <2>8. RequestsDated'
    BY <1>1, <1>2, <2>1 DEF RequestsDated
  <2>9. QED
    BY <1>3, <2>3, <2>7, <2>8
<1>7. CASE LoadFails
  <2>1. load' = NoLoad /\ UNCHANGED snap
    BY <1>7 DEF LoadFails
  <2>2. AuthType' /\ CacheDated' /\ RequestsDated'
    BY <1>1, <1>2, <2>1 DEF AuthType, CacheDated, RequestsDated, Loads, NoLoad, Moments, table
  <2>3. QED
    BY <1>3, <2>2
<1>8. QED
  BY <1>4, <1>5, <1>6, <1>7 DEF CacheStep

\* The collector stops: nothing is loaded, and nothing is being judged.
LEMMA StopsInv ==
  ASSUME AuthInv, CollectorStops
  PROVE  AuthInv'
<1> USE TimesAssumption DEF AuthInv
<1>1. /\ UNCHANGED <<now, table>> /\ snap' = NoSnapshot /\ load' = NoLoad
      /\ request' = [c \in Clients |-> IF request[c].step \in {"verified", "looked"} THEN Idle
                                       ELSE request[c]]
  BY DEF CollectorStops
<1>2. AuthType' /\ RowsInTime'
  BY <1>1, IdleRequest DEF AuthType, RowsInTime, NoSnapshot, Snapshots, NoLoad, Loads, Moments, table
<1>3. CacheDated'
  BY <1>1 DEF CacheDated, NoLoad, NoSnapshot
<1>4. RequestsDated'
  BY <1>1, IdleRequest DEF RequestsDated
<1>5. VerdictIsRecent'
  <2>1. \A c \in Clients : VerdictHolds(request'[c])
    BY <1>1, IdleRequest, VerdictsAre
  <2>2. \A c \in Clients : VerdictHolds(request[c])'
    BY <1>1, <2>1 DEF VerdictHolds, ThereAt, AbsentAt, table
  <2>3. VerdictIsRecent' <=> \A c \in Clients : VerdictHolds(request[c])'
    BY DEF VerdictIsRecent, VerdictHolds, Recent
  <2>4. QED
    BY <2>2, <2>3
<1>6. QED
  BY <1>2, <1>3, <1>4, <1>5

\* A step of Authenticate changes one request.
LEMMA RequestInv ==
  ASSUME AuthInv, NEW c \in Clients, NEW r \in Requests,
         request' = [request EXCEPT ![c] = r], UNCHANGED <<now, table, root, cache>>,
         r.step \in {"verified", "looked"} => snap.loaded /\ r.id \in Tokens,
         r.step = "looked" => Dated(r.seen),
         r.step \in {"accepted", "unknown"} => r.at <= now /\ r.id \in Tokens,
         VerdictHolds(r)
  PROVE  AuthInv'
<1> USE DEF AuthInv, cache, table
<1>1. AuthType' /\ RowsInTime'
  BY DEF AuthType, RowsInTime
<1>2. /\ \A m : \A keys : TableAt(keys, m)' <=> TableAt(keys, m)
      /\ \A s : Dated(s)' <=> Dated(s)
  BY DEF TableAt, ThereAt, AbsentAt, Dated
<1>3. CacheDated'
  BY <1>2 DEF CacheDated
<1>4. \A d \in Clients : request'[d] = IF d = c THEN r ELSE request[d]
  BY DEF AuthType
<1>5. RequestsDated'
  BY <1>2, <1>4 DEF RequestsDated
<1>6. VerdictIsRecent'
  <2>1. \A d \in Clients : VerdictHolds(request'[d])
    BY <1>4, VerdictsAre
  <2>2. QED
    BY <2>1 DEF VerdictIsRecent, VerdictHolds, Recent, ThereAt, AbsentAt
<1>7. QED
  BY <1>1, <1>3, <1>5, <1>6

LEMMA ReceiveInv ==
  ASSUME AuthInv, NEW c \in Clients, NEW k \in Credentials, Receive(c, k)
  PROVE  AuthInv'
<1> DEFINE good == [Idle EXCEPT !.step = "verified", !.id = Identity(k)]
           bad == [Idle EXCEPT !.step = "invalid"]
           r == IF Verifies(k) THEN good ELSE bad
<1>1. k.token \in Tokens
  BY CredentialsAssumption
<1>2. /\ good \in Requests /\ good.step = "verified" /\ good.id = k.token
      /\ bad \in Requests /\ bad.step = "invalid"
  BY <1>1, IdleRequest DEF Requests, Idle, Identity
<1>3. request' = [request EXCEPT ![c] = r] /\ snap.loaded /\ UNCHANGED <<now, table, root, cache>>
  BY DEF Receive
<1> HIDE DEF good, bad
<1>4. r \in Requests /\ r.step \in {"verified", "invalid"} /\ (r.step = "verified" => r.id = k.token)
  BY <1>2
<1> HIDE DEF r
<1>5. VerdictHolds(r)
  BY <1>4 DEF VerdictHolds
<1>6. QED
  BY <1>1, <1>3, <1>4, <1>5, RequestInv

LEMMA TakeSnapshotInv ==
  ASSUME AuthInv, NEW c \in Clients, TakeSnapshot(c)
  PROVE  AuthInv'
<1> DEFINE r == [request[c] EXCEPT !.step = "looked", !.seen = snap]
<1>1. request[c] \in Requests /\ snap \in Snapshots
  BY DEF AuthInv, AuthType
<1>2. r \in Requests /\ r.step = "looked" /\ r.seen = snap /\ r.id = request[c].id
  BY <1>1 DEF Requests
<1>3. request' = [request EXCEPT ![c] = r]
  BY <1>1 DEF TakeSnapshot, Requests, AuthInv, AuthType
<1>4. /\ snap.loaded /\ request[c].id \in Tokens /\ Dated(snap)
      /\ UNCHANGED <<now, table, root, cache>>
  BY DEF AuthInv, RequestsDated, CacheDated, TakeSnapshot
<1> HIDE DEF r
<1>5. VerdictHolds(r)
  BY <1>2 DEF VerdictHolds
<1>6. QED
  BY <1>2, <1>3, <1>4, <1>5, RequestInv

\* The age of the snapshot and the load before it bound the age of the verdict.
LEMMA JudgeInv ==
  ASSUME AuthInv, NEW c \in Clients, Judge(c)
  PROVE  AuthInv'
<1> DEFINE seen == request[c].seen
           says == IF now - seen.at > MaxStaleness THEN "unavailable"
                   ELSE IF request[c].id \in seen.keys THEN "accepted" ELSE "unknown"
           r == [step |-> says, id |-> request[c].id, seen |-> NoSnapshot, at |-> now]
<1>1. /\ request[c] \in Requests /\ now \in Moments /\ request[c].step = "looked"
      /\ request[c].id \in Tokens /\ Dated(seen) /\ seen \in Snapshots
  BY DEF AuthInv, AuthType, RequestsDated, Judge, Requests
<1>2. says \in {"unavailable", "accepted", "unknown"}
  OBVIOUS
<1>3. request' = [request EXCEPT ![c] = r] /\ UNCHANGED <<now, table, root, cache>>
  BY DEF Judge, AuthInv, AuthType
<1>4. r \in Requests /\ r.step = says /\ r.id = request[c].id /\ r.at = now
  BY <1>1, <1>2, IdleRequest DEF Requests
<1> HIDE DEF r
<1>5. VerdictHolds(r)
  <2> SUFFICES ASSUME says # "unavailable"
               PROVE  VerdictHolds(r)
    BY <1>4 DEF VerdictHolds
  <2>1. PICK m \in Moments : m <= seen.at /\ seen.at <= m + LoadTimeout /\ TableAt(seen.keys, m)
    BY <1>1 DEF Dated
  <2>2. seen.at \in Moments /\ seen.at <= now /\ now <= seen.at + MaxStaleness
    BY <1>1, TimesAssumption DEF Dated, Snapshots, Moments
  <2>3. m <= now /\ now <= m + MaxStaleness + LoadTimeout
    BY <1>1, <2>1, <2>2, TimesAssumption DEF Moments
  <2>4. /\ says = "accepted" => ThereAt(request[c].id, m)
        /\ says = "unknown" => AbsentAt(request[c].id, m)
    BY <1>1, <2>1 DEF TableAt
  <2>5. QED
    BY <1>4, <2>3, <2>4 DEF VerdictHolds
<1>6. now <= now
  BY <1>1 DEF Moments
<1>7. QED
  BY <1>1, <1>2, <1>3, <1>4, <1>5, <1>6, RequestInv

LEMMA AnsweredInv ==
  ASSUME AuthInv, NEW c \in Clients, Answered(c)
  PROVE  AuthInv'
  BY IdleRequest, RequestInv DEF Answered

-----------------------------------------------------------------------------
(* The one root.                                                           *)

\* What changes neither the keys' rows nor the root leaves what is signed.
LEMMA SignedStays ==
  ASSUME SignedByRoot, priv \in RootKeys => priv' = priv, UNCHANGED <<minted, signer>>,
         root' \in {root, NoKey}
  PROVE  SignedByRoot'
  BY DEF SignedByRoot

LEMMA SignedInit == KeyStoreInit /\ AuthInit => SignedByRoot
  BY DEF KeyStoreInit, AuthInit, SignedByRoot

\* A key is minted by a process that serves, and so with the keypair on disk.
LEMMA MintSigned ==
  ASSUME KeyStoreInv, SignedByRoot, AuthType, NEW p \in Processes, NEW t \in Tokens, Mint(p, t),
         priv' = priv
  PROVE  SignedByRoot' /\ AuthType'
<1>1. held[p] = priv /\ priv \in RootKeys
  BY DEF KeyStoreInv, KeysAgree, Mint
<1>2. SignedByRoot'
  BY <1>1 DEF SignedByRoot, Mint, AuthType
<1>3. AuthType'
  BY <1>1, TimesAssumption DEF AuthType, Mint, cache, Moments, Never
<1>4. QED
  BY <1>2, <1>3

LEMMA CacheSigned ==
  ASSUME KeyStoreInv, SignedByRoot, CacheStep, priv' = priv
  PROVE  SignedByRoot'
<1>1. CASE Start
  BY <1>1, PublishedIsRoot DEF Start, SignedByRoot, table
<1>2. CASE ~Start
  BY <1>2, SignedStays DEF CacheStep, Poll, ReadRows, Replace, LoadFails, table
<1>3. QED
  BY <1>1, <1>2

-----------------------------------------------------------------------------
(* The senders' steps.                                                     *)

\* A sender stays made, with its key, and an event stays emitted.
Keeps ==
    /\ \A s \in Senders : life[s] # "unmade" => life'[s] # "unmade" /\ key'[s] = key[s]
    /\ \A e \in Events : under[e] # NoApiKey => under'[e] = under[e]

LEMMA SendersInitInv == SendersInit => SendersInv
<1> SUFFICES ASSUME SendersInit PROVE SendersInv
  OBVIOUS
<1> USE SendersAssumption DEF SendersInit, Fresh
<1>1. SendersType
  BY DEF SendersType, ThreadStates
<1>2. MadeWithKey /\ ThreadsKeepKey /\ EventsKeepKey /\ EndsEmpty
  BY DEF MadeWithKey, ThreadsKeepKey, EventsKeepKey, EndsEmpty
<1>3. QED
  BY <1>1, <1>2 DEF SendersInv

\* What the queue holds after an event is put in it.
LEMMA NewestIs ==
  ASSUME NEW q \in Seq(Events), NEW e \in Events
  PROVE  /\ Newest(Append(q, e)) \in Seq(Events)
         /\ \A i \in DOMAIN Newest(Append(q, e)) :
               \/ Newest(Append(q, e))[i] = e
               \/ \E j \in DOMAIN q : Newest(Append(q, e))[i] = q[j]
<1> DEFINE a == Append(q, e)
<1>1. a \in Seq(Events) /\ Len(a) = Len(q) + 1 /\ Len(q) \in Nat /\ a # << >>
  OBVIOUS
<1>2. \A i \in 1..Len(a) : a[i] = e \/ \E j \in 1..Len(q) : a[i] = q[j]
  OBVIOUS
<1>3. DOMAIN q = 1..Len(q) /\ DOMAIN a = 1..Len(a)
  OBVIOUS
<1> HIDE DEF a
<1>4. Tail(a) \in Seq(Events) /\ DOMAIN Tail(a) = 1..(Len(a) - 1)
      /\ \A i \in 1..(Len(a) - 1) : Tail(a)[i] = a[i + 1]
  BY <1>1
<1>5. \A i \in 1..(Len(a) - 1) : i + 1 \in 1..Len(a)
  BY <1>1
<1>6. \A i \in DOMAIN Tail(a) : Tail(a)[i] = e \/ \E j \in DOMAIN q : Tail(a)[i] = q[j]
  BY <1>2, <1>3, <1>4, <1>5
<1>7. Newest(a) \in {a, Tail(a)}
  BY DEF Newest
<1>8. CASE Newest(a) = a
  BY <1>1, <1>2, <1>3, <1>8 DEF a
<1>9. CASE Newest(a) = Tail(a)
  BY <1>4, <1>6, <1>9 DEF a
<1>10. QED
  BY <1>7, <1>8, <1>9

LEMMA LookUpInv ==
  ASSUME SendersInv, NEW h \in Threads, NEW k \in Keys, LookUp(h, k)
  PROVE  SendersInv' /\ Keeps
<1> USE DEF SendersInv, LookUp
<1>1. CASE registry[k] # NoSender
  <2> DEFINE r == [thread[h] EXCEPT !.step = "idle", !.key = k, !.sender = registry[k]]
  <2>1. /\ thread' = [thread EXCEPT ![h] = r] /\ thread[h] \in ThreadStates
        /\ registry[k] \in Senders
    BY <1>1 DEF SendersType
  <2>2. r \in ThreadStates /\ r.step = "idle" /\ r.key = k /\ r.sender = registry[k]
    BY <2>1 DEF ThreadStates
  <2> HIDE DEF r
  <2>3. SendersType'
    BY <2>1, <2>2 DEF SendersType
  <2>4. ThreadsKeepKey'
    BY <1>1, <2>1, <2>2 DEF SendersType, MadeWithKey, ThreadsKeepKey, Made
  <2>5. MadeWithKey' /\ EventsKeepKey' /\ EndsEmpty' /\ Keeps
    BY <2>1, <2>2 DEF SendersType, MadeWithKey, EventsKeepKey, EndsEmpty, Made, Keeps
  <2>6. QED
    BY <2>3, <2>4, <2>5
<1>2. CASE registry[k] = NoSender
  <2> DEFINE r == [thread[h] EXCEPT !.step = "missed", !.key = k]
  <2>1. thread' = [thread EXCEPT ![h] = r] /\ thread[h] \in ThreadStates
    BY <1>2 DEF SendersType
  <2>2. r \in ThreadStates /\ r.step = "missed" /\ r.key = k
    BY <2>1 DEF ThreadStates
  <2> HIDE DEF r
  <2>3. SendersType'
    BY <2>1, <2>2 DEF SendersType
  <2>4. ThreadsKeepKey'
    <3>1. thread'[h] = r /\ \A g \in Threads \ {h} : thread'[g] = thread[g]
      BY <2>1 DEF SendersType
    <3>2. Made' = Made /\ key' = key /\ under' = under
      BY DEF Made
    <3>3. ASSUME NEW g \in Threads \ {h}
          PROVE  /\ thread'[g].step # "new" => thread'[g].key \in Keys
                 /\ thread'[g].step \in {"idle", "emitting"} =>
                       thread'[g].sender \in Made' /\ key'[thread'[g].sender] = thread'[g].key
                 /\ thread'[g].step = "emitting" =>
                       thread'[g].event \in Events /\ under'[thread'[g].event] = thread'[g].key
      BY <3>1, <3>2 DEF ThreadsKeepKey
    <3>4. QED
      BY <2>2, <3>1, <3>3 DEF ThreadsKeepKey
  <2>5. MadeWithKey' /\ EventsKeepKey' /\ EndsEmpty' /\ Keeps
    BY <2>1, <2>2 DEF SendersType, MadeWithKey, EventsKeepKey, EndsEmpty, Made, Keeps
  <2>6. QED
    BY <2>3, <2>4, <2>5
<1>3. QED
  BY <1>1, <1>2

\* Two threads that missed both make a sender; the one that is registered last
\* and the one it replaces have the same key.
LEMMA MakeInv ==
  ASSUME SendersInv, NEW h \in Threads, Make(h)
  PROVE  SendersInv' /\ Keeps
<1> USE DEF SendersInv
<1>1. PICK s \in Senders \ Made :
        /\ key' = [key EXCEPT ![s] = thread[h].key]
        /\ life' = [life EXCEPT ![s] = "open"]
        /\ registry' = [registry EXCEPT ![thread[h].key] = s]
        /\ thread' = [thread EXCEPT ![h].step = "idle", ![h].sender = s]
  BY DEF Make
<1>2. /\ thread[h].step = "missed" /\ thread[h].key \in Keys /\ thread[h] \in ThreadStates
      /\ life[s] = "unmade" /\ UNCHANGED <<queue, flight, under, stop, exit>>
  BY <1>1 DEF Make, ThreadsKeepKey, SendersType, Made
<1>3. /\ thread' \in [Threads -> ThreadStates]
      /\ thread'[h].step = "idle" /\ thread'[h].sender = s /\ thread'[h].key = thread[h].key
      /\ \A g \in Threads \ {h} : thread'[g] = thread[g]
  BY <1>1, <1>2 DEF SendersType, ThreadStates
<1>4. SendersType'
  BY <1>1, <1>2, <1>3 DEF SendersType
<1>5. MadeWithKey'
  BY <1>1, <1>2, SendersAssumption DEF SendersType, MadeWithKey
<1>6. ThreadsKeepKey'
  BY <1>1, <1>2, <1>3 DEF SendersType, ThreadsKeepKey, Made
<1>7. EventsKeepKey'
  BY <1>1, <1>2 DEF SendersType, EventsKeepKey, EndsEmpty
<1>8. exit = "no"
  BY <1>2 DEF EndsEmpty
<1>9. EndsEmpty'
  BY <1>1, <1>2, <1>8 DEF SendersType, EndsEmpty
<1>10. Keeps
  BY <1>1, <1>2 DEF SendersType, Keeps
<1>11. QED
  BY <1>4, <1>5, <1>6, <1>7, <1>9, <1>10

\* An event is emitted once, under the key of its thread.
LEMMA EmitInv ==
  ASSUME SendersInv, NEW h \in Threads, NEW e \in Events, Emit(h, e)
  PROVE  SendersInv' /\ Keeps
<1> USE SendersAssumption DEF SendersInv
<1>1. /\ under' = [under EXCEPT ![e] = thread[h].key] /\ under[e] = NoApiKey
      /\ thread[h].step = "idle" /\ thread[h].key \in Keys /\ thread[h] \in ThreadStates
      /\ UNCHANGED <<registry, key, life, queue, flight, stop, exit>> /\ exit = "no"
  BY DEF Emit, ThreadsKeepKey, SendersType
<1>2. /\ thread' \in [Threads -> ThreadStates]
      /\ \A g \in Threads : /\ thread'[g].key = thread[g].key
                            /\ thread'[g].sender = thread[g].sender
      /\ \A g \in Threads \ {h} : thread'[g] = thread[g]
      /\ thread'[h].step \in {"idle", "emitting"}
      /\ thread'[h].step = "emitting" => thread'[h].event = e
  BY <1>1 DEF Emit, SendersType, ThreadStates
<1>3. SendersType'
  BY <1>1, <1>2 DEF SendersType
<1>4. \A x \in Events : under'[x] = IF x = e THEN thread[h].key ELSE under[x]
  BY <1>1 DEF SendersType
<1>5. MadeWithKey' /\ Keeps
  BY <1>1, <1>4 DEF MadeWithKey, Keeps
<1>6. ThreadsKeepKey'
  BY <1>1, <1>2, <1>4 DEF ThreadsKeepKey, Made
<1>7. EventsKeepKey'
  <2> SUFFICES ASSUME NEW s \in Senders
               PROVE  /\ \A i \in DOMAIN queue[s] : under'[queue[s][i]] = key[s]
                      /\ \A x \in flight[s] : under'[x] = key[s]
    BY <1>1 DEF EventsKeepKey
  <2>1. queue[s] # << >> \/ flight[s] # {} => key[s] # NoApiKey
    BY DEF EndsEmpty, MadeWithKey
  <2>2. /\ \A i \in DOMAIN queue[s] : queue[s][i] \in Events /\ queue[s] # << >>
        /\ flight[s] \subseteq Events
    BY DEF SendersType
  <2>3. QED
    BY <1>1, <1>4, <2>1, <2>2 DEF EventsKeepKey
<1>8. EndsEmpty'
  BY <1>1 DEF EndsEmpty
<1>9. QED
  BY <1>3, <1>5, <1>6, <1>7, <1>8

LEMMA EnqueueInv ==
  ASSUME SendersInv, NEW h \in Threads, Enqueue(h)
  PROVE  SendersInv' /\ Keeps
<1> USE DEF SendersInv
<1> DEFINE s == thread[h].sender
           e == thread[h].event
           q == Newest(Append(queue[s], e))
<1>1. /\ thread[h].step = "emitting" /\ thread[h] \in ThreadStates
      /\ thread' = [thread EXCEPT ![h].step = "idle", ![h].event = NoEvent]
      /\ queue' = IF life[s] \in {"open", "closing"} THEN [queue EXCEPT ![s] = q] ELSE queue
      /\ UNCHANGED <<registry, key, life, flight, under, stop, exit>>
  BY DEF Enqueue, SendersType
<1>2. s \in Senders /\ life[s] # "unmade" /\ key[s] = thread[h].key /\ e \in Events /\ under[e] = key[s]
  BY <1>1 DEF ThreadsKeepKey, Made
<1>3. queue[s] \in Seq(Events)
  BY <1>2 DEF SendersType
<1>4. q \in Seq(Events) /\ \A i \in DOMAIN q : q[i] = e \/ \E j \in DOMAIN queue[s] : q[i] = queue[s][j]
  BY <1>2, <1>3, NewestIs
<1>5. /\ thread' \in [Threads -> ThreadStates]
      /\ \A g \in Threads : /\ thread'[g].key = thread[g].key
                            /\ thread'[g].sender = thread[g].sender
      /\ \A g \in Threads \ {h} : thread'[g] = thread[g]
      /\ thread'[h].step = "idle"
  BY <1>1 DEF SendersType, ThreadStates
<1>6. ThreadsKeepKey'
  BY <1>1, <1>5 DEF ThreadsKeepKey, Made
<1> HIDE DEF q, s, e
<1>7. SendersType'
  BY <1>1, <1>2, <1>4, <1>5 DEF SendersType
<1>8. MadeWithKey' /\ Keeps
  BY <1>1 DEF MadeWithKey, Keeps
<1>9. EventsKeepKey'
  <2>1. \A i \in DOMAIN q : under[q[i]] = key[s]
    BY <1>2, <1>4 DEF EventsKeepKey
  <2>2. \A r \in Senders : queue'[r] = queue[r] \/ (r = s /\ queue'[r] = q)
    BY <1>1, <1>2 DEF SendersType
  <2>3. \A r \in Senders : \A i \in DOMAIN queue'[r] : under[queue'[r][i]] = key[r]
    BY <2>1, <2>2 DEF EventsKeepKey
  <2>4. QED
    BY <1>1, <2>3 DEF EventsKeepKey
<1>10. EndsEmpty'
  BY <1>1, <1>2, <1>5 DEF EndsEmpty, SendersType, Made
<1>11. QED
  BY <1>6, <1>7, <1>8, <1>9, <1>10

\* The worker's batch is what was queued.
LEMMA TakeBatchInv ==
  ASSUME SendersInv, NEW s \in Senders, TakeBatch(s)
  PROVE  SendersInv' /\ Keeps
<1> USE DEF SendersInv, TakeBatch
<1> DEFINE b == {queue[s][i] : i \in DOMAIN queue[s]}
<1>1. b \subseteq Events /\ (\A e \in b : under[e] = key[s])
  BY DEF SendersType, EventsKeepKey
<1>2. flight' = [flight EXCEPT ![s] = b] /\ queue' = [queue EXCEPT ![s] = << >>]
  OBVIOUS
<1> HIDE DEF b
<1>3. << >> \in Seq(Events) /\ DOMAIN << >> = {}
  OBVIOUS
<1>4. SendersType'
  BY <1>1, <1>2, <1>3 DEF SendersType
<1>5. MadeWithKey' /\ ThreadsKeepKey' /\ Keeps
  BY DEF MadeWithKey, ThreadsKeepKey, Made, Keeps
<1>6. EventsKeepKey'
  BY <1>1, <1>2, <1>3 DEF SendersType, EventsKeepKey
<1>7. EndsEmpty'
  BY <1>2 DEF SendersType, EndsEmpty, Made
<1>8. QED
  BY <1>4, <1>5, <1>6, <1>7

LEMMA BatchDoneInv ==
  ASSUME SendersInv, NEW s \in Senders, BatchDone(s)
  PROVE  SendersInv' /\ Keeps
  BY DEF SendersInv, BatchDone, SendersType, MadeWithKey, ThreadsKeepKey, EventsKeepKey, EndsEmpty,
         Made, Keeps

\* A worker ends with nothing left, or leaves nothing.
LEMMA EndInv ==
  ASSUME SendersInv, NEW s \in Senders, WorkerEnds(s) \/ JoinTimesOut(s)
  PROVE  SendersInv' /\ Keeps
<1> USE DEF SendersInv
<1>1. /\ life[s] = "shut" /\ life' = [life EXCEPT ![s] = "ended"]
      /\ \A r \in Senders \ {s} : queue'[r] = queue[r] /\ flight'[r] = flight[r]
      /\ queue'[s] = << >> /\ flight'[s] = {}
      /\ queue' \in [Senders -> Seq(Events)] /\ flight' \in [Senders -> SUBSET Events]
      /\ UNCHANGED <<registry, key, thread, under, stop, exit>>
  <2>1. << >> \in Seq(Events)
    OBVIOUS
  <2>2. CASE WorkerEnds(s)
    BY <2>2 DEF WorkerEnds, SendersType
  <2>3. CASE JoinTimesOut(s)
    BY <2>1, <2>3 DEF JoinTimesOut, SendersType
  <2>4. QED
    BY <2>2, <2>3
<1>2. SendersType'
  BY <1>1 DEF SendersType
<1>3. MadeWithKey' /\ ThreadsKeepKey' /\ Keeps
  BY <1>1 DEF SendersType, MadeWithKey, ThreadsKeepKey, Made, Keeps
<1>4. EventsKeepKey'
  BY <1>1 DEF EventsKeepKey
<1>5. EndsEmpty'
  BY <1>1 DEF SendersType, EndsEmpty, Made
<1>6. QED
  BY <1>2, <1>3, <1>4, <1>5

LEMMA CloseInv ==
  ASSUME SendersInv, NEW s \in Senders, Close(s) \/ ShutProvider(s)
  PROVE  SendersInv' /\ Keeps
<1> USE DEF SendersInv
<1>1. PICK x \in {"closing", "shut"} : life' = [life EXCEPT ![s] = x]
  BY DEF Close, ShutProvider
<1>2. /\ life[s] \in {"open", "closing"}
      /\ UNCHANGED <<registry, key, queue, flight, thread, under, stop, exit>>
  BY DEF Close, ShutProvider
<1>3. SendersType'
  BY <1>1, <1>2 DEF SendersType
<1>4. MadeWithKey' /\ ThreadsKeepKey' /\ EventsKeepKey' /\ Keeps
  BY <1>1, <1>2 DEF SendersType, MadeWithKey, ThreadsKeepKey, EventsKeepKey, Made, Keeps
<1>5. EndsEmpty'
  BY <1>1, <1>2 DEF SendersType, EndsEmpty, Made
<1>6. QED
  BY <1>3, <1>4, <1>5

LEMMA ShutdownInv ==
  ASSUME SendersInv, Shutdown \/ Clear \/ ShutdownReturns \/ Exit \/ Gone
  PROVE  SendersInv' /\ Keeps
<1> USE DEF SendersInv
<1>1. UNCHANGED <<key, life, queue, flight, thread, under>>
  BY DEF Shutdown, Clear, ShutdownReturns, Exit, Gone
<1>2. SendersType' /\ MadeWithKey'
  BY DEF Shutdown, Clear, ShutdownReturns, Exit, Gone, SendersType, MadeWithKey
<1>3. ThreadsKeepKey' /\ EventsKeepKey' /\ Keeps
  BY <1>1 DEF ThreadsKeepKey, EventsKeepKey, Made, Keeps
<1>4. EndsEmpty'
  BY <1>1 DEF Shutdown, Clear, ShutdownReturns, Exit, Gone, EndsEmpty, Made, Hooked
<1>5. QED
  BY <1>2, <1>3, <1>4

-----------------------------------------------------------------------------
(* The path's steps.                                                       *)

LEMMA InitIInv == Init => IInv
<1> SUFFICES ASSUME Init PROVE IInv
  OBVIOUS
<1>1. KeyStoreInv /\ SignedByRoot /\ AuthInv /\ SendersInv
  BY KeyStoreInitInv, SignedInit, AuthInitInv, SendersInitInv DEF Init
<1>2. RequestsKeepKey /\ AcceptedKnown
  BY ClientsAssumption DEF Init, AuthInit, Idle, RequestsKeepKey, AcceptedKnown
<1>3. QED
  BY <1>1, <1>2 DEF IInv

\* What neither posts nor judges nor loses a request keeps what requests bear.
LEMMA PathStays ==
  ASSUME IInv, Keeps, UNCHANGED <<request, sent, accepted>>
  PROVE  RequestsKeepKey' /\ AcceptedKnown'
<1> USE SendersAssumption DEF IInv
<1>1. \A s \in Senders : life[s] # "unmade" => key[s] # NoApiKey
  BY DEF SendersInv, MadeWithKey
<1>2. \A s \in Senders : \A e \in sent[s] : e \in Events
  BY DEF RequestsKeepKey
<1>3. RequestsKeepKey'
  <2> SUFFICES ASSUME NEW s \in Senders
               PROVE  /\ request[s].step # "idle" => life'[s] # "unmade"
                      /\ request[s].step \in {"verified", "looked"} => request[s].id = key'[s].token
                      /\ \A e \in sent[s] : life'[s] # "unmade" /\ under'[e] = key'[s]
    BY DEF RequestsKeepKey
  <2>1. QED
    BY <1>1, <1>2 DEF RequestsKeepKey, Keeps
<1>4. AcceptedKnown'
  BY DEF AcceptedKnown, Keeps
<1>5. QED
  BY <1>3, <1>4

\* What leaves the host alone keeps its senders.
LEMMA SendersStay ==
  ASSUME SendersInv, UNCHANGED senderVars
  PROVE  SendersInv' /\ Keeps
  BY DEF SendersInv, senderVars, SendersType, MadeWithKey, ThreadsKeepKey, EventsKeepKey, EndsEmpty,
         Made, Keeps

\* What leaves the collector, its clock and the table alone.
LEMMA AuthStays ==
  ASSUME AuthInv, UNCHANGED authVars
  PROVE  AuthInv'
  BY DEF AuthInv, authVars, table, cache, AuthType, RowsInTime, CacheDated, RequestsDated, Dated,
         TableAt, ThereAt, AbsentAt, VerdictIsRecent, Recent

LEMMA KeyStoreStays ==
  ASSUME KeyStoreInv, UNCHANGED <<priv, pub, held, kpc, drawn>>
  PROVE  KeyStoreInv'
  BY DEF KeyStoreInv, KeyStoreType, KeysAgree

LEMMA PlatformIInv ==
  ASSUME IInv, Platform
  PROVE  IInv'
<1> USE DEF IInv
<1>1. CASE (\E p \in Processes : KeyStoreStep(p)) /\ UNCHANGED <<authVars, senderVars, pathVars>>
  <2>1. KeyStoreInv' /\ (priv \in RootKeys => priv' = priv)
    BY <1>1, KeyStoreStepInv
  <2>2. SignedByRoot'
    BY <1>1, <2>1, SignedStays DEF authVars, table
  <2>3. AuthInv' /\ SendersInv' /\ Keeps
    BY <1>1, AuthStays, SendersStay
  <2>4. RequestsKeepKey' /\ AcceptedKnown'
    BY <1>1, <2>3, PathStays DEF authVars, pathVars
  <2>5. QED
    BY <2>1, <2>2, <2>3, <2>4
<1>2. ASSUME UNCHANGED <<keystore, senderVars, pathVars>>,
             Tick \/ (\E t \in Tokens : Revoke(t) \/ \E p \in Processes : Mint(p, t))
      PROVE  IInv'
  <2>1. KeyStoreInv' /\ SendersInv' /\ Keeps /\ priv' = priv
    BY <1>2, KeyStoreStays, SendersStay DEF keystore
  <2>2. request' = request
    BY <1>2 DEF Tick, Revoke, Mint
  <2>3. RequestsKeepKey' /\ AcceptedKnown'
    BY <1>2, <2>1, <2>2, PathStays DEF pathVars
  <2>4. CASE Tick
    BY <2>1, <2>3, <2>4, TickInv, SignedStays DEF Tick, table
  <2>5. ASSUME NEW t \in Tokens, Revoke(t)
        PROVE  IInv'
    <3>1. AuthType'
      BY <2>5, TimesAssumption DEF AuthInv, AuthType, Revoke, cache, Moments, Never
    <3>2. AuthInv'
      BY <2>5, <3>1, TableInv DEF Revoke
    <3>3. SignedByRoot'
      BY <2>1, <2>5, SignedStays DEF Revoke
    <3>4. QED
      BY <2>1, <2>3, <3>2, <3>3
  <2>6. ASSUME NEW t \in Tokens, NEW p \in Processes, Mint(p, t)
        PROVE  IInv'
    <3>1. SignedByRoot' /\ AuthType'
      BY <2>1, <2>6, MintSigned DEF AuthInv
    <3>2. AuthInv'
      BY <2>6, <3>1, TableInv DEF Mint
    <3>3. QED
      BY <2>1, <2>3, <3>1, <3>2
  <2>7. QED
    BY <1>2, <2>4, <2>5, <2>6
<1>3. QED
  BY <1>1, <1>2 DEF Platform

\* Requests are judged for their sender's key: posting, looking up, judging.
LEMMA ExportIInv ==
  ASSUME IInv, NEW s \in Senders, Export(s)
  PROVE  IInv'
<1> USE ClientsAssumption DEF IInv
<1>1. /\ flight[s] # {} /\ Receive(s, key[s]) /\ sent' = [sent EXCEPT ![s] = flight[s]]
      /\ UNCHANGED <<keystore, senderVars, accepted>>
  BY DEF Export
<1>2. life[s] # "unmade" /\ key[s] \in Credentials /\ flight[s] \subseteq Events
  BY <1>1 DEF SendersInv, EndsEmpty, MadeWithKey, SendersType
<1>3. KeyStoreInv' /\ SendersInv' /\ Keeps /\ AuthInv'
  BY <1>1, <1>2, KeyStoreStays, SendersStay, ReceiveInv DEF keystore
<1>4. SignedByRoot'
  BY <1>1, SignedStays DEF Receive, table, keystore
<1>5. \E r : /\ request' = [request EXCEPT ![s] = r]
             /\ r.step = "verified" => r.id = key[s].token
  <2> DEFINE good == [Idle EXCEPT !.step = "verified", !.id = Identity(key[s])]
             bad == [Idle EXCEPT !.step = "invalid"]
             r == IF Verifies(key[s]) THEN good ELSE bad
  <2>1. good.id = key[s].token /\ bad.step = "invalid"
    BY DEF Idle, Identity
  <2>2. request' = [request EXCEPT ![s] = r]
    BY <1>1 DEF Receive
  <2> HIDE DEF good, bad
  <2>3. r.step = "verified" => r.id = key[s].token
    BY <2>1
  <2> HIDE DEF r
  <2>4. QED
    BY <2>2, <2>3
<1>6. \A c \in Senders : request'[c].step # "looked" \/ request'[c] = request[c]
  BY <1>1, IdleRequest DEF Receive, AuthInv, AuthType, Idle
<1>7. RequestsKeepKey'
  <2>1. PICK r : /\ request' = [request EXCEPT ![s] = r]
                 /\ r.step = "verified" => r.id = key[s].token
    BY <1>5
  <2>2. \A c \in Senders : request'[c] = IF c = s THEN r ELSE request[c]
    BY <2>1 DEF AuthInv, AuthType
  <2>3. \A e \in flight[s] : under[e] = key[s]
    BY DEF SendersInv, EventsKeepKey
  <2>4. request[s].step = "idle"
    BY <1>1 DEF Receive
  <2>5. r.step # "looked"
    BY <1>6, <2>2, <2>4
  <2>6. QED
    BY <1>1, <1>2, <2>1, <2>2, <2>3, <2>5 DEF RequestsKeepKey, senderVars
<1>8. AcceptedKnown'
  BY <1>1 DEF AcceptedKnown, senderVars
<1>9. QED
  BY <1>3, <1>4, <1>7, <1>8

\* What a step that only drops or keeps requests leaves.
LEMMA RequestsDrop ==
  ASSUME IInv, UNCHANGED <<senderVars, accepted>>, request' \in [Senders -> Requests],
         sent' \in [Senders -> SUBSET Events],
         \A s \in Senders : \/ request'[s].step = "idle"
                            \/ request'[s] = request[s]
                            \/ /\ request[s].step # "idle" /\ request'[s].id = request[s].id
                               /\ request'[s].step \in {"verified", "looked"} =>
                                     request[s].step \in {"verified", "looked"},
         \A s \in Senders : sent'[s] \subseteq sent[s]
  PROVE  RequestsKeepKey' /\ AcceptedKnown'
<1>1. RequestsKeepKey'
  BY DEF IInv, RequestsKeepKey, senderVars
<1>2. AcceptedKnown'
  BY DEF IInv, AcceptedKnown, senderVars
<1>3. QED
  BY <1>1, <1>2

LEMMA JudgedIInv ==
  ASSUME IInv, NEW s \in Senders, Judged(s)
  PROVE  IInv'
<1> USE ClientsAssumption DEF IInv
<1>1. Judge(s) /\ UNCHANGED <<keystore, senderVars, sent>>
  BY DEF Judged
<1>2. KeyStoreInv' /\ SendersInv' /\ AuthInv'
  BY <1>1, KeyStoreStays, SendersStay, JudgeInv DEF keystore
<1>3. SignedByRoot'
  BY <1>1, SignedStays DEF Judge, table, keystore
<1>4. /\ request[s].step = "looked" /\ request'[s].step \in {"unavailable", "accepted", "unknown"}
      /\ \A c \in Senders \ {s} : request'[c] = request[c]
  BY <1>1 DEF Judge, AuthInv, AuthType
<1>5. life[s] # "unmade" /\ request[s].id = key[s].token /\ key[s] \in Keys
  BY <1>4 DEF RequestsKeepKey, SendersInv, MadeWithKey
<1>6. RequestsKeepKey'
  BY <1>1, <1>4, <1>5 DEF RequestsKeepKey, senderVars
<1>7. AcceptedKnown'
  <2> DEFINE new == {[event |-> e, project |-> Project[request[s].id]] : e \in sent[s]}
  <2>1. accepted' \subseteq accepted \union new
    BY DEF Judged
  <2>2. \A e \in sent[s] : e \in Events /\ under[e] = key[s] /\ key[s] # NoApiKey
    BY <1>5, SendersAssumption DEF RequestsKeepKey
  <2>3. \A a \in new : /\ a.event \in Events /\ under[a.event] # NoApiKey
                       /\ a.project = Project[under[a.event].token]
    BY <1>5, <2>2
  <2> HIDE DEF new
  <2>4. QED
    BY <1>1, <2>1, <2>3 DEF AcceptedKnown, senderVars
<1>8. QED
  BY <1>2, <1>3, <1>6, <1>7

LEMMA TakeSnapshotIInv ==
  ASSUME IInv, NEW s \in Senders, TakeSnapshot(s), UNCHANGED <<keystore, senderVars, pathVars>>
  PROVE  IInv'
<1> USE ClientsAssumption DEF IInv
<1>1. KeyStoreInv' /\ SendersInv' /\ AuthInv'
  BY KeyStoreStays, SendersStay, TakeSnapshotInv DEF keystore
<1>2. SignedByRoot'
  BY SignedStays DEF TakeSnapshot, table, keystore
<1>3. /\ request[s].step = "verified" /\ request'[s].id = request[s].id
      /\ \A c \in Senders \ {s} : request'[c] = request[c]
  BY DEF TakeSnapshot, AuthInv, AuthType, Requests
<1>4. request' \in [Senders -> Requests]
  BY <1>1 DEF AuthInv, AuthType
<1>5. RequestsKeepKey' /\ AcceptedKnown'
  BY <1>3, <1>4, RequestsDrop DEF pathVars, RequestsKeepKey
<1>6. QED
  BY <1>1, <1>2, <1>5

\* The answer arrives or is lost; the batch is dropped, done or kept.
LEMMA AnswerIInv ==
  ASSUME IInv, NEW s \in Senders, Reply(s) \/ ReplyLost(s) \/ GiveUp(s)
  PROVE  IInv'
<1> USE ClientsAssumption DEF IInv
<1>1. KeyStoreInv' /\ priv' = priv /\ accepted' = accepted
  BY KeyStoreStays DEF Reply, ReplyLost, GiveUp, keystore, pathVars
<1>2. SendersInv' /\ Keeps
  BY BatchDoneInv, SendersStay DEF Reply, ReplyLost, GiveUp
<1>3. AuthInv'
  BY AnsweredInv, AuthStays DEF Reply, ReplyLost, GiveUp
<1>4. SignedByRoot'
  BY <1>1, SignedStays DEF Reply, ReplyLost, GiveUp, Answered, table, authVars
<1>5. /\ \A c \in Senders : request'[c] = request[c] \/ request'[c].step = "idle"
      /\ \A c \in Senders : sent'[c] \subseteq sent[c]
      /\ sent' \in [Senders -> SUBSET Events]
  BY IdleRequest DEF Reply, ReplyLost, GiveUp, Answered, AuthInv, AuthType, authVars, pathVars,
                     RequestsKeepKey
<1>6. \A c \in Senders : life[c] # "unmade" => key[c] # NoApiKey
  BY SendersAssumption DEF SendersInv, MadeWithKey
<1>7. RequestsKeepKey'
  <2> SUFFICES ASSUME NEW c \in Senders
               PROVE  /\ request'[c].step # "idle" => life'[c] # "unmade"
                      /\ request'[c].step \in {"verified", "looked"} => request'[c].id = key'[c].token
                      /\ \A e \in sent'[c] : life'[c] # "unmade" /\ under'[e] = key'[c]
    BY <1>5 DEF RequestsKeepKey
  <2>1. QED
    BY <1>2, <1>5, <1>6 DEF RequestsKeepKey, Keeps
<1>8. AcceptedKnown'
  BY <1>1, <1>2 DEF AcceptedKnown, Keeps
<1>9. QED
  BY <1>1, <1>2, <1>3, <1>4, <1>7, <1>8

LEMMA CollectorIInv ==
  ASSUME IInv, Collector
  PROVE  IInv'
<1> USE ClientsAssumption DEF IInv
<1>1. CASE CacheStep /\ UNCHANGED <<keystore, senderVars, pathVars>>
  <2>1. KeyStoreInv' /\ SendersInv' /\ Keeps /\ AuthInv' /\ priv' = priv
    BY <1>1, KeyStoreStays, SendersStay, CacheInv DEF keystore
  <2>2. SignedByRoot'
    BY <1>1, <2>1, CacheSigned
  <2>3. request' = request
    BY <1>1 DEF CacheStep, Start, Poll, ReadRows, Replace, LoadFails
  <2>4. QED
    BY <1>1, <2>1, <2>2, <2>3, PathStays DEF pathVars
<1>2. ASSUME NEW s \in Senders,
             (TakeSnapshot(s) /\ UNCHANGED <<keystore, senderVars, pathVars>>) \/ Judged(s)
      PROVE  IInv'
  BY <1>2, TakeSnapshotIInv, JudgedIInv
<1>3. CASE CollectorCrash
  <2>1. KeyStoreInv' /\ SendersInv' /\ AuthInv'
    BY <1>3, KeyStoreStays, SendersStay, StopsInv DEF CollectorCrash
  <2>2. SignedByRoot'
    BY <1>3, SignedStays DEF CollectorCrash, CollectorStops, table
  <2>3. \A c \in Senders : request'[c] = request[c] \/ request'[c].step = "idle"
    BY <1>3, IdleRequest DEF CollectorCrash, CollectorStops
  <2>4. /\ \A c \in Senders : sent'[c] \subseteq sent[c]
        /\ sent' \in [Senders -> SUBSET Events]
    BY <1>3 DEF CollectorCrash, RequestsKeepKey
  <2>5. request' \in [Senders -> Requests] /\ UNCHANGED <<senderVars, accepted>>
    BY <1>3, <2>1 DEF CollectorCrash, AuthInv, AuthType
  <2>6. RequestsKeepKey' /\ AcceptedKnown'
    BY <2>3, <2>4, <2>5, RequestsDrop
  <2>7. QED
    BY <2>1, <2>2, <2>6
<1>4. QED
  BY <1>1, <1>2, <1>3 DEF Collector

LEMMA HostIInv ==
  ASSUME IInv, Host
  PROVE  IInv'
<1> USE DEF IInv
<1>1. UNCHANGED <<keystore, authVars, pathVars>>
  BY DEF Host
<1>2. SendersInv' /\ Keeps
  BY LookUpInv, MakeInv, EmitInv, EnqueueInv, TakeBatchInv, EndInv, CloseInv, ShutdownInv DEF Host
<1>3. KeyStoreInv' /\ AuthInv'
  BY <1>1, KeyStoreStays, AuthStays DEF keystore
<1>4. SignedByRoot'
  BY <1>1, SignedStays DEF keystore, authVars, table
<1>5. RequestsKeepKey' /\ AcceptedKnown'
  BY <1>1, <1>2, PathStays DEF authVars, pathVars
<1>6. QED
  BY <1>2, <1>3, <1>4, <1>5

LEMMA StutterIInv == IInv /\ UNCHANGED vars => IInv'
<1> SUFFICES ASSUME IInv, UNCHANGED vars PROVE IInv'
  OBVIOUS
<1> USE DEF IInv
<1>1. UNCHANGED <<keystore, authVars, senderVars, pathVars>>
  BY DEF vars
<1>2. KeyStoreInv' /\ AuthInv' /\ SendersInv' /\ Keeps
  BY <1>1, KeyStoreStays, AuthStays, SendersStay DEF keystore
<1>3. SignedByRoot'
  BY <1>1, SignedStays DEF keystore, authVars, table
<1>4. QED
  BY <1>1, <1>2, <1>3, PathStays DEF authVars, pathVars

LEMMA NextIInv == IInv /\ [Next]_vars => IInv'
<1> SUFFICES ASSUME IInv, Next PROVE IInv'
  BY StutterIInv
<1>1. CASE Platform
  BY <1>1, PlatformIInv
<1>2. CASE Collector
  BY <1>2, CollectorIInv
<1>3. CASE Host
  BY <1>3, HostIInv
<1>4. CASE Network
  BY <1>4, ExportIInv, AnswerIInv DEF Network
<1>5. QED
  BY <1>1, <1>2, <1>3, <1>4 DEF Next

LEMMA Invariance == Spec => []IInv
  BY InitIInv, NextIInv, PTL DEF Spec

-----------------------------------------------------------------------------
(* What holds in every state.                                              *)

\* Rows, snapshots, requests, threads and senders keep the shapes the code gives
\* them, and the clock's order.
THEOREM TypeCorrect == Spec => [](KeyStoreType /\ AuthType /\ RowsInTime /\ SendersType)
<1>1. IInv => KeyStoreType /\ AuthType /\ RowsInTime /\ SendersType
  BY DEF IInv, KeyStoreInv, AuthInv, SendersInv
<1>2. QED
  BY <1>1, Invariance, PTL

\* However many processes start, race and die on one directory, everything that
\* is signed is signed with the keypair on disk, and verified with its other half.
THEOREM AlwaysOneRoot == Spec => []OneRoot
<1>1. IInv => OneRoot
  <2> SUFFICES ASSUME IInv PROVE OneRoot
    OBVIOUS
  <2>1. OneRootKey
    BY DEF IInv, KeyStoreInv, KeysAgree, OneRootKey
  <2>2. QED
    BY <2>1 DEF IInv, SignedByRoot, OneRoot
<1>2. QED
  BY <1>1, Invariance, PTL

\* Whatever the times and whichever loads fail or are late, a verdict is no older
\* than max_staleness and one load.
THEOREM VerdictsAreRecent == Spec => []VerdictIsRecent
<1>1. IInv => VerdictIsRecent
  BY DEF IInv, AuthInv
<1>2. QED
  BY <1>1, Invariance, PTL

\* Whatever the threads, the keys and the lost answers, an event is accepted for
\* the project of the key it was emitted under.
THEOREM EventsAlwaysReachTheirProject == Spec => []EventsReachTheirProject
<1>1. IInv => EventsReachTheirProject
  BY DEF IInv, AcceptedKnown, EventsReachTheirProject
<1>2. QED
  BY <1>1, Invariance, PTL

\* However shutdown and exit cross, and whoever replaced whose sender, the process
\* does not go while a sender has events.
THEOREM NothingIsLeftBehind == Spec => []NothingLeftBehind
<1>1. IInv => NothingLeftBehind
  BY DEF IInv, SendersInv, EndsEmpty, NothingLeftBehind, Made
<1>2. QED
  BY <1>1, Invariance, PTL
=============================================================================

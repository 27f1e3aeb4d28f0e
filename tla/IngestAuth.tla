----------------------------- MODULE IngestAuth -----------------------------
(***************************************************************************)
(* API keys and the collector that authenticates with them: mint and       *)
(* revoke (features/tokens/service.py, core/biscuits.py) and the extension *)
(* hexgatebiscuitauth with its revocation cache (cache.go, extension.go,   *)
(* verifier.go).  Time is a counter; the steps between two reads of the    *)
(* clock take none.                                                        *)
(***************************************************************************)
EXTENDS KeyStore

CONSTANTS
    Tokens,             \* ids of API keys, each its row's primary key
    NoToken,            \* no key read out of the request
    Project,            \* the project of each key's row
    Credentials,        \* what clients may present
    Clients,            \* who sends requests, one at a time each
    PollInterval,       \* revocation.poll_interval
    MaxStaleness,       \* revocation.max_staleness
    LoadTimeout,        \* loadTimeout
    MaxNow              \* bound: the last moment

ASSUME NoTokenAssumption == NoToken \notin Tokens

ASSUME TimesAssumption ==
    /\ PollInterval \in Nat \ {0}
    /\ MaxStaleness \in Nat /\ MaxStaleness >= PollInterval
    /\ LoadTimeout \in Nat
    /\ MaxNow \in Nat

Moments == 0..MaxNow
Never == MaxNow + 1

\* A key as its holder presents it: whether it can be read (one envelope, within
\* maxCredentialLength and maxAppendedBlocks), and of the blocks appended to it the
\* ids their facts claim and the moment their checks hold until (Never without a
\* check, 0 with one about anything but time, which the collector cannot meet).
ASSUME CredentialsAssumption ==
    Credentials \subseteq [readable : BOOLEAN, token : Tokens, claims : SUBSET Tokens, until : 0..Never]

VARIABLES
    now,                \* the clock
    minted, revoked,    \* when each key's row came and went
    signer,             \* the keypair each key was signed with
    root,               \* rootPub, NoKey while the collector is down
    snap,               \* current: the keys and takenAt
    load,               \* the refresh under way
    due,                \* the ticker has fired
    request             \* each client's request in Authenticate, or its outcome

table == <<minted, revoked, signer>>
cache == <<snap, load, due>>
authVars == <<now, table, root, cache, request>>

Live == {t \in Tokens : minted[t] # Never /\ revoked[t] = Never}

NoSnapshot == [loaded |-> FALSE, keys |-> {}, at |-> 0]
NoLoad == [step |-> "idle", since |-> 0, keys |-> {}]
Idle == [step |-> "idle", id |-> NoToken, seen |-> NoSnapshot, at |-> 0]

AuthInit ==
    /\ now = 0
    /\ minted = [t \in Tokens |-> Never]
    /\ revoked = [t \in Tokens |-> Never]
    /\ signer = [t \in Tokens |-> NoKey]
    /\ root = NoKey
    /\ snap = NoSnapshot
    /\ load = NoLoad
    /\ due = FALSE
    /\ request = [c \in Clients |-> Idle]

\* Time passes, but not past the deadline of a load: its context ends it.
Tick ==
    /\ now < MaxNow
    /\ load.step # "idle" => now < load.since + LoadTimeout
    /\ now' = now + 1
    /\ due' = (due \/ now' % PollInterval = 0)
    /\ UNCHANGED <<table, root, snap, load, request>>

-----------------------------------------------------------------------------
(* The platform's keys.                                                    *)

\* mint_api_key: signed by the process's keypair, and the row is committed.
Mint(p, t) ==
    /\ kpc[p] = "up"
    /\ minted[t] = Never
    /\ signer' = [signer EXCEPT ![t] = held[p]]
    /\ minted' = [minted EXCEPT ![t] = now]
    /\ UNCHANGED <<now, revoked, root, cache, request>>

\* delete_api_key: revoking is deleting the row.
Revoke(t) ==
    /\ t \in Live
    /\ revoked' = [revoked EXCEPT ![t] = now]
    /\ UNCHANGED <<now, minted, signer, root, cache, request>>

-----------------------------------------------------------------------------
(* The revocation cache.                                                   *)

\* The root's public half as the platform hands it out: the file, or what a process
\* publishes for its own.
Published == ({pub} \union {held[p] : p \in {q \in Processes : kpc[q] = "up"}}) \intersect RootKeys

\* Start: the public key is read, and the first load is asked for.  Without a
\* whole public key it fails and the collector stays down.
Start ==
    /\ root = NoKey
    /\ root' \in Published
    /\ load' = [step |-> "asked", since |-> now, keys |-> {}]
    /\ UNCHANGED <<now, table, snap, due, request>>

\* poll: the ticker fires and a refresh begins.
Poll ==
    /\ snap.loaded /\ load.step = "idle"
    /\ due
    /\ due' = FALSE
    /\ load' = [step |-> "asked", since |-> now, keys |-> {}]
    /\ UNCHANGED <<now, table, root, snap, request>>

\* The database answers with the rows of that moment.
ReadRows ==
    /\ load.step = "asked"
    /\ load' = [load EXCEPT !.step = "read", !.keys = Live]
    /\ UNCHANGED <<now, table, root, snap, due, request>>

\* refresh: the snapshot is replaced whole, stamped when the rows are in.
Replace ==
    /\ load.step = "read"
    /\ snap' = [loaded |-> TRUE, keys |-> load.keys, at |-> now]
    /\ load' = NoLoad
    /\ UNCHANGED <<now, table, root, due, request>>

\* Faulty variant: a refresh that fails vouches for the snapshot all the same.
LoadFailsRestamps ==
    /\ load.step # "idle"
    /\ load' = NoLoad
    /\ root' = IF snap.loaded THEN root ELSE NoKey
    /\ snap' = [snap EXCEPT !.at = now]
    /\ UNCHANGED <<now, table, due, request>>

\* It fails or times out: the snapshot stays, and without one Start fails.
LoadFails ==
    /\ load.step # "idle"
    /\ load' = NoLoad
    /\ root' = IF snap.loaded THEN root ELSE NoKey
    /\ UNCHANGED <<now, table, snap, due, request>>

\* The collector's process stops; requests in Authenticate end with it.
CollectorStops ==
    /\ root # NoKey
    /\ crashes < MaxCrashes
    /\ root' = NoKey
    /\ snap' = NoSnapshot /\ load' = NoLoad /\ due' = FALSE
    /\ request' = [c \in Clients |-> IF request[c].step \in {"verified", "looked"} THEN Idle
                                     ELSE request[c]]
    /\ UNCHANGED <<now, table>>

-----------------------------------------------------------------------------
(* Authenticate.                                                           *)

\* The envelope and its size, and verifyBiscuit: the signature chain, every check.
Verifies(k) ==
    /\ k.readable
    /\ signer[k.token] = root
    /\ now < k.until

\* Faulty variant: facts of appended blocks are read too, and the last one wins.
ClaimedIdentity(k) == IF k.claims = {} THEN k.token ELSE CHOOSE t \in k.claims : TRUE

\* readIdentity: the token_id of the authority block, whatever later blocks claim.
Identity(k) == k.token

\* The credential is checked without the table.
Receive(c, k) ==
    /\ snap.loaded
    /\ request[c].step = "idle"
    /\ request' = [request EXCEPT ![c] =
          IF Verifies(k) THEN [Idle EXCEPT !.step = "verified", !.id = Identity(k)]
          ELSE [Idle EXCEPT !.step = "invalid"]]
    /\ UNCHANGED <<now, table, root, cache>>

\* lookup: the snapshot is taken under the read lock, ...
TakeSnapshot(c) ==
    /\ request[c].step = "verified"
    /\ request' = [request EXCEPT ![c].step = "looked", ![c].seen = snap]
    /\ UNCHANGED <<now, table, root, cache>>

\* ... and its age and the key are judged after the lock is released.
Judge(c) ==
    /\ request[c].step = "looked"
    /\ LET seen == request[c].seen
           says == IF now - seen.at > MaxStaleness THEN "unavailable"
                   ELSE IF request[c].id \in seen.keys THEN "accepted" ELSE "unknown" IN
       request' = [request EXCEPT ![c] = [step |-> says, id |-> @.id, seen |-> NoSnapshot, at |-> now]]
    /\ UNCHANGED <<now, table, root, cache>>

\* The outcome has reached the client, or is lost on the way.
Answered(c) ==
    /\ request[c].step \in {"accepted", "invalid", "unknown", "unavailable"}
    /\ request' = [request EXCEPT ![c] = Idle]
    /\ UNCHANGED <<now, table, root, cache>>

CacheStep ==
    Start \/ Poll \/ ReadRows \/ Replace \/ LoadFails

-----------------------------------------------------------------------------
\* Every key that was ever minted is signed with the keypair on disk, and the
\* collector verifies with its public half: whichever process drew it, won the race to
\* publish it or died half way, no key is refused for being signed by another root
\* (core/keystore.py, _generate_and_persist; keyring.go, loadRootPublicKey).
OneRoot ==
    /\ OneRootKey
    /\ \A t \in Tokens : minted[t] # Never => signer[t] = priv
    /\ root \in {NoKey, priv}

\* A row was there, or was not, at a moment; at the moment of a change both hold.
ThereAt(t, m) == minted[t] <= m /\ m <= revoked[t]
AbsentAt(t, m) == m <= minted[t] \/ revoked[t] <= m

\* The moments a verdict may be as old as.
Recent(c) == {m \in Moments : m <= request[c].at /\ request[c].at <= m + MaxStaleness + LoadTimeout}

\* A verdict is as old as max_staleness and one load at most (cache.go, lookup): a
\* key that is accepted had its row, and one that is refused as unknown did not, at
\* some moment of that window, whichever loads failed, hung or were late.  An outage
\* of the database freezes neither revocations nor new keys for longer.
VerdictIsRecent ==
    \A c \in Clients :
        /\ request[c].step = "accepted" => \E m \in Recent(c) : ThereAt(request[c].id, m)
        /\ request[c].step = "unknown" => \E m \in Recent(c) : AbsentAt(request[c].id, m)
=============================================================================

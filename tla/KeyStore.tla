------------------------------ MODULE KeyStore ------------------------------
(***************************************************************************)
(* FileKeyStore of platform/api/hexgate_api/core/keystore.py: API processes *)
(* that start on one directory agree on one root keypair.  One action is    *)
(* one file operation.  A key stands for its private and its public half.   *)
(***************************************************************************)
EXTENDS Naturals

CONSTANTS
    Processes,          \* API processes on one keystore directory
    RootKeys,           \* keypairs that may be generated
    NoKey,              \* no file, or nothing loaded
    Cut,                \* a file of the wrong size: damaged, or opened and still empty
    MaxCrashes          \* bound: crashes of any process

ASSUME RootKeysAssumption == NoKey \notin RootKeys /\ Cut \notin RootKeys /\ NoKey # Cut
ASSUME CrashesAssumption == MaxCrashes \in Nat

VARIABLES
    priv,               \* hexgate.priv
    pub,                \* hexgate.pub
    held,               \* each process's keypair: drawn, or loaded
    kpc,                \* where each process's ensure_keypair is
    drawn,              \* keypairs generated so far
    crashes             \* crashes so far (bound)

keystore == <<priv, pub, held, kpc, drawn, crashes>>

\* A new directory, or one whose private file is damaged.
KeyStoreInit ==
    /\ priv \in {NoKey, Cut}
    /\ pub = NoKey
    /\ held = [p \in Processes |-> NoKey]
    /\ kpc = [p \in Processes |-> "down"]
    /\ drawn = {}
    /\ crashes = 0

-----------------------------------------------------------------------------
\* _load: adopt the keypair on disk; a file of the wrong size stops the start.
Load(p) ==
    IF priv = Cut
    THEN kpc' = [kpc EXCEPT ![p] = "failed"] /\ UNCHANGED held
    ELSE kpc' = [kpc EXCEPT ![p] = "up"] /\ held' = [held EXCEPT ![p] = priv]

\* ensure_keypair: the private file is there and is loaded, or it is not.
EnsureKeypair(p) ==
    /\ kpc[p] = "down"
    /\ IF priv # NoKey
       THEN Load(p)
       ELSE kpc' = [kpc EXCEPT ![p] = "absent"] /\ UNCHANGED held
    /\ UNCHANGED <<priv, pub, drawn, crashes>>

\* A fresh keypair, its private half in a temporary file of this process's own.
Generate(p) ==
    /\ kpc[p] = "absent"
    /\ \E k \in RootKeys \ drawn :
        /\ held' = [held EXCEPT ![p] = k]
        /\ drawn' = drawn \union {k}
    /\ kpc' = [kpc EXCEPT ![p] = "drawn"]
    /\ UNCHANGED <<priv, pub, crashes>>

\* Faulty variant: the temporary file is renamed over the canonical path.
Rename(p) ==
    /\ kpc[p] = "drawn"
    /\ priv' = held[p]
    /\ kpc' = [kpc EXCEPT ![p] = "linked"]
    /\ UNCHANGED <<pub, held, drawn, crashes>>

\* os.link publishes the private file, unless another process won the race:
\* then its keypair is adopted.
Link(p) ==
    /\ kpc[p] = "drawn"
    /\ IF priv = NoKey
       THEN /\ priv' = held[p]
            /\ kpc' = [kpc EXCEPT ![p] = "linked"]
            /\ UNCHANGED held
       ELSE Load(p) /\ UNCHANGED priv
    /\ UNCHANGED <<pub, drawn, crashes>>

\* The public half has no temporary file: it is opened, which empties it, ...
OpenPublic(p) ==
    /\ kpc[p] = "linked"
    /\ pub' = Cut
    /\ kpc' = [kpc EXCEPT ![p] = "opened"]
    /\ UNCHANGED <<priv, held, drawn, crashes>>

\* ... and then written.
WritePublic(p) ==
    /\ kpc[p] = "opened"
    /\ pub' = held[p]
    /\ kpc' = [kpc EXCEPT ![p] = "up"]
    /\ UNCHANGED <<priv, held, drawn, crashes>>

\* A process dies anywhere and may start again.
CrashProcess(p) ==
    /\ crashes < MaxCrashes
    /\ kpc[p] # "down"
    /\ kpc' = [kpc EXCEPT ![p] = "down"]
    /\ held' = [held EXCEPT ![p] = NoKey]
    /\ crashes' = crashes + 1
    /\ UNCHANGED <<priv, pub, drawn>>

KeyStoreStep(p) ==
    \/ EnsureKeypair(p) \/ Generate(p) \/ Link(p) \/ OpenPublic(p) \/ WritePublic(p)
    \/ CrashProcess(p)

\* Every process that serves signs with the keypair on disk, whoever won the race
\* to generate it and whoever died half way (keystore.py, _generate_and_persist),
\* a start fails only on a file that was damaged before, which is never replaced
\* in silence, and what is in the public file, if anything, is the other half.
OneRootKey ==
    /\ \A p \in Processes : kpc[p] \in {"linked", "opened", "up"} => held[p] = priv
    /\ \A p \in Processes : kpc[p] = "failed" => priv = Cut /\ drawn = {}
    /\ pub \in {NoKey, Cut, priv}
=============================================================================

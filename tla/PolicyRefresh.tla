--------------------------- MODULE PolicyRefresh ---------------------------
(***************************************************************************)
(* PlatformPolicySource.fetch and PolicyBinding.refresh                    *)
(* (hexgate/security/source.py, hexgate/security/binding.py).  Several     *)
(* runs of one agent refresh the same binding from worker threads.  A      *)
(* fetch is one conditional GET under the source's lock; the swap happens  *)
(* after the lock is released.  The platform's row changes at any time.    *)
(***************************************************************************)
CONSTANTS
    Runs,               \* runs that refresh the binding
    Bundles,            \* compiled bundles, named by the hash of their wasm
    Verified,           \* those that pass the signature and integrity checks
    Yamls,              \* policy_yaml texts, named by their hash
    Loadable,           \* those that parse and validate
    None                \* null: no bundle, no etag, no hash, no lock holder

ASSUME NoneAssumption == None \notin Bundles \union Yamls \union Runs
ASSUME KindsAssumption == Verified \subseteq Bundles /\ Loadable \subseteq Yamls

VARIABLES
    strict,             \* HEXGATE_BUNDLE_REQUIRE_SIGNATURE is set
    row,                \* the agent's row on the platform
    cache,              \* _cached_engine, _cached_etag, _cached_yaml_hash
    sourceLock,         \* holder of the source's lock
    pc,                 \* where each refresh is
    resp,               \* the response each refresh has received
    hand,               \* the engine fetch returned to each refresh
    enforced            \* enforcer.policy

refreshVars == <<strict, row, cache, sourceLock, pc, resp, hand, enforced>>

Rows == [bundle : Bundles \union {None}, yaml : Yamls]

Wasm(b) == [kind |-> "wasm", of |-> b]
Pydantic(y) == [kind |-> "pydantic", of |-> y]
NoEngine == [kind |-> "none", of |-> None]
Engines == [kind : {"wasm"}, of : Bundles] \union [kind : {"pydantic"}, of : Yamls]

\* The engine a payload becomes: the bundle when there is one.
Engine(v) == IF v.bundle # None THEN Wasm(v.bundle) ELSE Pydantic(v.yaml)

\* A bundle must verify; without one the yaml must load and strict mode be off.
Accepts(s, v) ==
    IF v.bundle # None THEN v.bundle \in Verified ELSE ~s /\ v.yaml \in Loadable

\* "304": the ETag sent is that of the stored bundle.
NotModified == [status |-> "304", body |-> [bundle |-> None, yaml |-> None]]
Full(v) == [status |-> "200", body |-> v]
NoResponse == [status |-> "none", body |-> [bundle |-> None, yaml |-> None]]

RefreshTypeOK ==
    /\ strict \in BOOLEAN
    /\ row \in Rows
    /\ cache \in [engine : Engines, etag : Bundles \union {None}, yaml : Yamls \union {None}]
    /\ sourceLock \in Runs \union {None}
    /\ pc \in [Runs -> {"idle", "asking", "answered", "fetched"}]
    /\ resp \in [Runs -> {NotModified, NoResponse} \union {Full(v) : v \in Rows}]
    /\ hand \in [Runs -> Engines \union {NoEngine}]
    /\ enforced \in Engines

\* platform_policy_from_payload seeds the source from the row the agent was
\* loaded with: the etag with a bundle, the yaml hash without.
Seed(v) ==
    [engine |-> Engine(v),
     etag |-> v.bundle,
     yaml |-> IF v.bundle # None THEN None ELSE v.yaml]

\* Loading is fail-loud, so the agent starts on a row it accepts.
RefreshInit ==
    /\ strict \in BOOLEAN
    /\ row \in {v \in Rows : Accepts(strict, v)}
    /\ cache = Seed(row)
    /\ sourceLock = None
    /\ pc = [r \in Runs |-> "idle"]
    /\ resp = [r \in Runs |-> NoResponse]
    /\ hand = [r \in Runs |-> NoEngine]
    /\ enforced = Engine(row)

\* The platform commits another policy for the agent.
Publish ==
    /\ row' \in Rows
    /\ UNCHANGED <<strict, cache, sourceLock, pc, resp, hand, enforced>>

\* Faulty variant: the source is not locked.
AskUnlocked(r) ==
    /\ pc[r] = "idle"
    /\ sourceLock' = r
    /\ pc' = [pc EXCEPT ![r] = "asking"]
    /\ UNCHANGED <<strict, row, cache, resp, hand, enforced>>

\* A run begins: take the source's lock and send the GET with the cached ETag.
Ask(r) ==
    /\ pc[r] = "idle"
    /\ sourceLock = None
    /\ sourceLock' = r
    /\ pc' = [pc EXCEPT ![r] = "asking"]
    /\ UNCHANGED <<strict, row, cache, resp, hand, enforced>>

\* The platform answers from the row it holds now.
Serve(r) ==
    /\ pc[r] = "asking"
    /\ resp' = [resp EXCEPT ![r] =
                    IF row.bundle # None /\ row.bundle = cache.etag
                    THEN NotModified ELSE Full(row)]
    /\ pc' = [pc EXCEPT ![r] = "answered"]
    /\ UNCHANGED <<strict, row, cache, sourceLock, hand, enforced>>

\* The request fails: the lock is released and the run goes on with the policy
\* it has.
Fail(r) ==
    /\ pc[r] = "asking"
    /\ sourceLock' = None
    /\ pc' = [pc EXCEPT ![r] = "idle"]
    /\ UNCHANGED <<strict, row, cache, resp, hand, enforced>>

\* Whether fetch gets past its checks: signature and integrity with a bundle,
\* strict mode, then an unchanged hash or a yaml that loads without.
Adopts(v) ==
    IF v.bundle # None
    THEN v.bundle \in Verified
    ELSE ~strict /\ (v.yaml = cache.yaml \/ v.yaml \in Loadable)

\* Faulty variant: the ETag of the last bundle survives a response without one.
UpdatedKeepsEtag(v) ==
    IF v.bundle # None
    THEN [engine |-> Wasm(v.bundle), etag |-> v.bundle, yaml |-> None]
    ELSE IF v.yaml = cache.yaml
         THEN cache
         ELSE [engine |-> Pydantic(v.yaml), etag |-> cache.etag, yaml |-> v.yaml]

\* Faulty variant: the yaml hash survives a response with a bundle.
UpdatedKeepsHash(v) ==
    IF v.bundle # None
    THEN [cache EXCEPT !.engine = Wasm(v.bundle), !.etag = v.bundle]
    ELSE IF v.yaml = cache.yaml
         THEN [cache EXCEPT !.etag = None]
         ELSE [engine |-> Pydantic(v.yaml), etag |-> None, yaml |-> v.yaml]

\* What fetch leaves in the cache when it adopts a payload.  The engine of an
\* unchanged yaml is kept: it is the one the hash vouches for.
Updated(v) ==
    IF v.bundle # None
    THEN [engine |-> Wasm(v.bundle), etag |-> v.bundle, yaml |-> None]
    ELSE IF v.yaml = cache.yaml
         THEN [cache EXCEPT !.etag = None]
         ELSE [engine |-> Pydantic(v.yaml), etag |-> None, yaml |-> v.yaml]

\* The rest of fetch: reuse the cached engine on a 304, adopt the payload, or
\* raise and leave the cache as it was.  Leaving the lock is part of it.
Digest(r) ==
    /\ pc[r] = "answered"
    /\ sourceLock' = None
    /\ resp' = [resp EXCEPT ![r] = NoResponse]
    /\ \/ /\ resp[r].status = "304"
          /\ hand' = [hand EXCEPT ![r] = cache.engine]
          /\ pc' = [pc EXCEPT ![r] = "fetched"]
          /\ UNCHANGED cache
       \/ /\ resp[r].status = "200"
          /\ Adopts(resp[r].body)
          /\ cache' = Updated(resp[r].body)
          /\ hand' = [hand EXCEPT ![r] = cache'.engine]
          /\ pc' = [pc EXCEPT ![r] = "fetched"]
       \/ /\ resp[r].status = "200"
          /\ ~Adopts(resp[r].body)
          /\ pc' = [pc EXCEPT ![r] = "idle"]
          /\ UNCHANGED <<cache, hand>>
    /\ UNCHANGED <<strict, row, enforced>>

\* refresh assigns enforcer.policy, outside the lock; the run then begins.
Swap(r) ==
    /\ pc[r] = "fetched"
    /\ enforced' = hand[r]
    /\ hand' = [hand EXCEPT ![r] = NoEngine]
    /\ pc' = [pc EXCEPT ![r] = "idle"]
    /\ UNCHANGED <<strict, row, cache, sourceLock, resp>>

RunStep(r) == Ask(r) \/ Serve(r) \/ Fail(r) \/ Digest(r) \/ Swap(r)

RefreshNext == Publish \/ \E r \in Runs : RunStep(r)

\* A worker thread that has its answer runs on.  Nothing obliges the platform
\* to answer, or the agent to be run again.
RefreshFairness == \A r \in Runs : WF_refreshVars(Digest(r)) /\ WF_refreshVars(Swap(r))

RefreshSpec == RefreshInit /\ [][RefreshNext]_refreshVars

FairRefreshSpec == RefreshSpec /\ RefreshFairness

-----------------------------------------------------------------------------
(* Safety.                                                                 *)

\* The cache is paired: an ETag names the bundle of the cached engine and a
\* yaml hash the text it was built from, never both.  A pair made of two
\* responses would turn a later 304 into the wrong policy.
CacheIsPaired ==
    /\ cache.etag # None => cache.engine = Wasm(cache.etag)
    /\ cache.yaml # None => cache.engine = Pydantic(cache.yaml)
    /\ cache.etag = None \/ cache.yaml = None

\* What is enforced was verified, or is a valid unsigned policy where those are
\* allowed: a refresh keeps a stale policy but never takes an unverified one.
NeverUnverified ==
    \/ enforced \in {Wasm(b) : b \in Verified}
    \/ ~strict /\ enforced \in {Pydantic(y) : y \in Loadable}

\* The engine a refresh is about to swap in; on a 304 it is the cached one.
InHand(r) ==
    CASE pc[r] = "fetched" -> hand[r]
      [] pc[r] = "answered" /\ resp[r].status = "304" -> cache.engine
      [] pc[r] = "answered" /\ resp[r].status = "200" /\ Accepts(strict, resp[r].body)
            -> Engine(resp[r].body)
      [] OTHER -> NoEngine

Feed == INSTANCE PolicyFeed WITH hand <- [r \in Runs |-> InHand(r)]

\* Whatever the interleaving of refreshes and edits, the cached source behaves
\* like one that downloads and verifies the whole policy each time.
FeedSpec == Feed!Spec

\* Once edits stop at a policy the SDK accepts and refreshes keep getting
\* answers, that policy is enforced for good, although a slow refresh may put
\* an older one back for a while.
Converges ==
    \A v \in Rows :
        (<>[](row = v /\ Accepts(strict, v)) /\ []<>(\E r \in Runs : pc[r] = "answered"))
            => <>[](enforced = Engine(v))
=============================================================================

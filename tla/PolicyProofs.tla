---------------------------- MODULE PolicyProofs ----------------------------
(***************************************************************************)
(* Proofs about the release of policies on the platform (PolicyRelease)    *)
(* and about their refresh in an agent (PolicyRefresh), for any modules,   *)
(* names, requests and policies and any number of concurrent refreshes.    *)
(*                                                                         *)
(* Of a release the invariant says who may commit (the holder of the       *)
(* project lock, the only request with a job), that the rows a job will    *)
(* commit are still what the store and the agents say, what each           *)
(* unfinished recompile means for the mode the bundles are in, and that a  *)
(* project left classic owes its store nothing.                            *)
(*                                                                         *)
(* Of a refresh the invariant says who may touch the cache (the holder of  *)
(* the source's lock, the only refresh with a response), that a 304        *)
(* vouches for the cached engine, and that everything cached or in hand    *)
(* was accepted.                                                           *)
(***************************************************************************)
EXTENDS PolicyRelease, PolicyRefresh, TLAPS

Policies ==
    UNION {[RolesOf(b) -> SUBSET (Modules \X (Contents \union {Absent}))] : b \in Bindings}

AgentBundles ==
    [from : {"none"}] \union [from : {"yaml"}, yaml : Texts]
                      \union [from : {"modules"}, policy : Policies]

AgentRow == [yaml : Texts, bundle : AgentBundles]

RowSets == UNION {[d -> AgentRow] : d \in SUBSET Agents}

Jobs ==
    [stage : {"idle", "compile", "install", "undo"}, kind : {"fanout", "flip", "row"},
     ok : BOOLEAN, rows : RowSets]

TypeOK ==
    /\ store \in [Modules -> Contents \union {Absent}]
    /\ binding \in Bindings
    /\ agents \in [Agents -> AgentRow]
    /\ lock \in Writers \union {Free}
    /\ job \in [Writers -> Jobs]
    /\ opa \in BOOLEAN
    /\ debt \in {"none", "stale", "torn"}

\* The only request with a job is the one that holds the lock.
LockDiscipline == \A w \in Writers : Stage(w) # "idle" <=> lock = w

\* What a recompile is about: a flip runs on a project that has become modular,
\* only a flip is undone, and only a modular project can fail to build.
JobShape ==
    \A w \in Writers :
        /\ Stage(w) = "compile" => job[w].kind # "row"
        /\ Stage(w) = "undo" => job[w].kind = "flip"
        /\ Stage(w) # "idle" /\ job[w].kind = "flip" => Modular
        /\ Stage(w) = "install" /\ ~job[w].ok => Modular /\ job[w].kind # "row"

\* A row an agent may have: it was registered, and never had a bundle before.
UnregisteredBare == \A a \in Agents : agents[a].yaml = "unregistered" => agents[a].bundle = NoBundle

InMode(x) == x.from \in {"none", IF Modular THEN "modules" ELSE "yaml"}

\* The bundle of agent a in row x is what the store and the row say.
Matches(a, x) ==
    x.bundle \in {NoBundle, IF Modular THEN Current(a) ELSE OfYaml(x.yaml)}

\* A whole fan-out installs every agent, as the store has it now.
FanoutIsFresh ==
    \A w \in Writers :
        Stage(w) = "install" /\ job[w].ok /\ job[w].kind # "row" =>
            /\ DOMAIN job[w].rows = Registered
            /\ \A a \in Registered :
                  /\ job[w].rows[a].yaml = agents[a].yaml
                  /\ Matches(a, job[w].rows[a])
                  /\ Modular => job[w].rows[a].bundle # NoBundle

\* The row of one agent is as good as the row it replaces.
RowIsFresh ==
    \A w \in Writers :
        Stage(w) = "install" /\ job[w].kind = "row" =>
            \A a \in DOMAIN job[w].rows :
                LET x == job[w].rows[a] IN
                /\ x.yaml # "unregistered"
                /\ debt = "none" => Matches(a, x)
                /\ debt # "torn" => InMode(x.bundle)
                /\ Modular /\ agents[a].bundle # NoBundle => x.bundle # NoBundle

Flips(w) == Stage(w) # "idle" /\ job[w].kind = "flip"
Recompiles(w) == Stage(w) # "idle" /\ job[w].kind # "row"

\* A flip finds, and may have to restore, the bundles of a classic project; a
\* fan-out that makes a project classic finds those of a modular one; in every
\* other state the bundles are in the mode of the project.
BundlesInMode ==
    debt # "torn" =>
        \A a \in Agents :
            /\ (\E w \in Writers : Flips(w)) => agents[a].bundle.from \in {"none", "yaml"}
            /\ (~\E w \in Writers : Recompiles(w)) => InMode(agents[a].bundle)
            /\ (~\E w \in Writers : Flips(w)) /\ Modular => InMode(agents[a].bundle)

\* The bundles a flip may have to restore match what the agents say.
FlipFoundMatching ==
    (\E w \in Writers : Flips(w)) /\ debt = "stale" =>
        \A a \in Registered : agents[a].bundle \in {NoBundle, OfYaml(agents[a].yaml)}

\* A classic project owes a fan-out only while that fan-out is under way.
ClassicIsSettled ==
    ~Modular /\ debt = "stale" => \E w \in Writers : Recompiles(w)

\* Until a recompile has been installed, the bundles owe the store.
RecompilesOwe == (\E w \in Writers : Recompiles(w)) => debt # "none"

IInv ==
    /\ TypeOK
    /\ LibraryLinks
    /\ BundlesMatchStore
    /\ LockDiscipline
    /\ JobShape
    /\ UnregisteredBare
    /\ FanoutIsFresh
    /\ RowIsFresh
    /\ BundlesInMode
    /\ FlipFoundMatching
    /\ ClassicIsSettled
    /\ RecompilesOwe

-----------------------------------------------------------------------------
(* Composition.                                                            *)

LEMMA CellOwn ==
  ASSUME NEW b, NEW r \in DOMAIN b, NEW a \in DOMAIN b[r]
  PROVE  Cell(b, r, a) = b[r][a]
  BY DEF Cell

\* A cell only names capabilities.
LEMMA CellCaps ==
  ASSUME NEW b \in Bindings, NEW r, NEW a
  PROVE  Cell(b, r, a) \subseteq Caps
<1>1. IsBinding(b)
  BY BindingsAssumption
<1>2. CASE r \in DOMAIN b /\ a \in DOMAIN b[r]
  BY <1>1, <1>2, CellOwn DEF IsBinding
<1>3. CASE r \in DOMAIN b /\ a \notin DOMAIN b[r] /\ Star \in DOMAIN b[r]
  <2>1. Cell(b, r, a) = b[r][Star]
    BY <1>3 DEF Cell
  <2>2. QED
    BY <1>1, <1>3, <2>1 DEF IsBinding
<1>4. CASE ~(r \in DOMAIN b /\ a \in DOMAIN b[r])
           /\ ~(r \in DOMAIN b /\ a \notin DOMAIN b[r] /\ Star \in DOMAIN b[r])
  BY <1>4 DEF Cell
<1>5. QED
  BY <1>2, <1>3, <1>4

\* A binding that composes for every agent it names links.
LEMMA ComposesLinks ==
  ASSUME NEW st, NEW b, ComposesForAll(st, b)
  PROVE  /\ \A r \in DOMAIN b : \A a \in DOMAIN b[r] : b[r][a] \subseteq Stored(st)
         /\ \A c \in Caps : st[c] # "denies"
<1>1. \A c \in Caps : st[c] # "denies"
  BY DEF ComposesForAll, Composes
<1>2. ASSUME NEW r \in DOMAIN b, NEW a \in DOMAIN b[r]
      PROVE  b[r][a] \subseteq Stored(st)
  <2>1. a \in UNION {DOMAIN b[x] : x \in DOMAIN b}
    OBVIOUS
  <2>2. Composes(st, b, a)
    BY <2>1 DEF ComposesForAll
  <2>3. RoleComposes(st, b, r, a)
    BY <2>2 DEF Composes, RolesOf
  <2>4. QED
    BY <2>3, CellOwn DEF RoleComposes
<1>3. QED
  BY <1>1, <1>2

\* What is compiled for an agent is a modular bundle.
LEMMA CurrentIsModular ==
  ASSUME TypeOK, NEW a \in Agents
  PROVE  /\ Current(a) \in AgentBundles
         /\ Current(a).from = "modules"
         /\ Current(a) # NoBundle
<1> DEFINE F(r) == {<<m, store[m]>> : m \in Layers(store, binding, r, a)}
<1>1. \A r \in RolesOf(binding) : F(r) \in SUBSET (Modules \X (Contents \union {Absent}))
  <2> SUFFICES ASSUME NEW r \in RolesOf(binding)
               PROVE  F(r) \in SUBSET (Modules \X (Contents \union {Absent}))
    OBVIOUS
  <2>1. Layers(store, binding, r, a) \subseteq Modules
    BY CellCaps DEF Layers, Modules, TypeOK
  <2>2. \A m \in Modules : store[m] \in Contents \union {Absent}
    BY DEF TypeOK
  <2>3. QED
    BY <2>1, <2>2
<1>2. [r \in RolesOf(binding) |-> F(r)]
         \in [RolesOf(binding) -> SUBSET (Modules \X (Contents \union {Absent}))]
  BY <1>1
<1>3. Resolved(store, binding, a) \in Policies
  BY <1>2 DEF Policies, Resolved, TypeOK
<1>4. QED
  BY <1>3 DEF Current, OfModules, AgentBundles, NoBundle

\* bundle_for_agent gives no bundle, or the one of the mode of the project.
LEMMA BundleForIs ==
  ASSUME TypeOK, NEW a \in Agents, NEW y \in Texts
  PROVE  /\ BundleFor(a, y) \in AgentBundles
         /\ BundleFor(a, y) \in {NoBundle, IF Modular THEN Current(a) ELSE OfYaml(y)}
         /\ InMode(BundleFor(a, y))
         /\ Modular /\ opa /\ Buildable(a) => BundleFor(a, y) = Current(a)
<1>1. CASE ~Modular
  <2>1. BundleFor(a, y) = FromYaml(y)
    BY <1>1 DEF BundleFor
  <2>2. QED
    BY <1>1, <2>1 DEF FromYaml, OfYaml, NoBundle, AgentBundles, InMode
<1>2. CASE Modular /\ opa /\ Buildable(a)
  <2>1. BundleFor(a, y) = Current(a)
    BY <1>2 DEF BundleFor
  <2>2. QED
    BY <1>2, <2>1, CurrentIsModular DEF InMode
<1>3. CASE Modular /\ ~(opa /\ Buildable(a))
  <2>1. BundleFor(a, y) = NoBundle
    BY <1>3 DEF BundleFor
  <2>2. QED
    BY <1>3, <2>1 DEF NoBundle, AgentBundles, InMode
<1>4. QED
  BY <1>1, <1>2, <1>3

-----------------------------------------------------------------------------
(* Typing, and who holds the lock.                                         *)

LEMMA RowSetIs ==
  ASSUME NEW d \in SUBSET Agents, NEW f \in [d -> AgentRow]
  PROVE  f \in RowSets
  BY DEF RowSets

LEMMA NoJobTyped == NoJob \in Jobs
<1>1. [a \in {} |-> {}] \in [{} -> AgentRow]
  OBVIOUS
<1>2. QED
  BY <1>1, RowSetIs DEF NoJob, Jobs

LEMMA InitTypeOK == Init => TypeOK
<1> SUFFICES ASSUME Init PROVE TypeOK
  OBVIOUS
<1>1. NoBundle \in AgentBundles /\ "unregistered" \in Texts
  BY DEF NoBundle, AgentBundles, Texts
<1>2. [yaml |-> "unregistered", bundle |-> NoBundle] \in AgentRow
  BY <1>1 DEF AgentRow
<1>3. agents \in [Agents -> AgentRow]
  BY <1>2 DEF Init
<1>4. QED
  BY <1>3, NoJobTyped, BindingsAssumption DEF Init, TypeOK

\* A record of a set of rows that is given another bundle is a row.
LEMMA RowExcept ==
  ASSUME NEW x \in AgentRow, NEW z \in AgentBundles
  PROVE  /\ [x EXCEPT !.bundle = z] \in AgentRow
         /\ [x EXCEPT !.bundle = z].yaml = x.yaml
         /\ [x EXCEPT !.bundle = z].bundle = z
  BY DEF AgentRow
\* What a request that goes on to recompile leaves in its job.
LEMMA RecompileJob ==
  ASSUME TypeOK, NEW w \in Writers, NEW kind \in {"fanout", "flip"}, Recompile(w, kind)
  PROVE  /\ lock' = w
         /\ job' \in [Writers -> Jobs]
         /\ job'[w].stage = "compile" /\ job'[w].kind = kind
         /\ \A v \in Writers \ {w} : job'[v] = job[v]
         /\ debt' \in {"stale", "torn"}
         /\ debt = "torn" <=> debt' = "torn"
<1>1. [NoJob EXCEPT !.stage = "compile", !.kind = kind] \in Jobs
  BY NoJobTyped DEF Jobs
<1>2. /\ [NoJob EXCEPT !.stage = "compile", !.kind = kind].stage = "compile"
      /\ [NoJob EXCEPT !.stage = "compile", !.kind = kind].kind = kind
  BY DEF NoJob
<1>3. QED
  BY <1>1, <1>2 DEF Recompile, TypeOK

\* What a request on one agent leaves in its job.
LEMMA PrepareJob ==
  ASSUME TypeOK, NEW w \in Writers, NEW a \in Agents, NEW fresh \in AgentRow,
         Prepare(w, a, fresh)
  PROVE  /\ lock' = w
         /\ job' \in [Writers -> Jobs]
         /\ job'[w].stage = "install" /\ job'[w].kind = "row" /\ job'[w].ok
         /\ DOMAIN job'[w].rows = {a} /\ job'[w].rows[a] = fresh
         /\ \A v \in Writers \ {w} : job'[v] = job[v]
<1> DEFINE f == [x \in {a} |-> fresh]
           j == [stage |-> "install", kind |-> "row", ok |-> TRUE, rows |-> f]
<1>1. f \in RowSets
  <2>1. f \in [{a} -> AgentRow]
    OBVIOUS
  <2>2. QED
    BY <2>1, RowSetIs
<1>2. DOMAIN f = {a} /\ f[a] = fresh
  OBVIOUS
<1>3. job' = [job EXCEPT ![w] = j]
  BY DEF Prepare
<1> HIDE DEF f
<1>4. j \in Jobs /\ j.stage = "install" /\ j.kind = "row" /\ j.ok /\ j.rows = f
  BY <1>1 DEF Jobs
<1> HIDE DEF j
<1>5. QED
  BY <1>2, <1>3, <1>4 DEF Prepare, TypeOK

\* The rows a registration or an edit prepares.
LEMMA UpdateAgentRow ==
  ASSUME TypeOK, NEW w \in Writers, NEW a \in Agents, NEW y \in Texts, UpdateAgent(w, a, y)
  PROVE  /\ a \in Registered
         /\ y # "unregistered" \/ agents[a].yaml = y \/ y \in Edits
         /\ [yaml |-> y, bundle |-> IF Modular THEN agents[a].bundle ELSE FromYaml(y)] \in AgentRow
<1>1. agents[a] \in AgentRow
  BY DEF TypeOK
<1>2. FromYaml(y) \in AgentBundles
  BY DEF FromYaml, OfYaml, NoBundle, AgentBundles
<1>3. QED
  BY <1>1, <1>2 DEF UpdateAgent, AgentRow

\* The job of a compile: rows of the agents it could build, or none.
LEMMA CompileJob ==
  ASSUME TypeOK, NEW w \in Writers, Compile(w)
  PROVE  LET built == ~Modular \/ \A a \in Registered : opa /\ Buildable(a) IN
         /\ job' \in [Writers -> Jobs]
         /\ job'[w].stage = "install" /\ job'[w].kind = job[w].kind /\ job'[w].ok = built
         /\ built => /\ DOMAIN job'[w].rows = Registered
                     /\ \A a \in Registered :
                           /\ job'[w].rows[a].yaml = agents[a].yaml
                           /\ job'[w].rows[a].bundle = BundleFor(a, agents[a].yaml)
         /\ \A v \in Writers \ {w} : job'[v] = job[v]
<1> DEFINE built == ~Modular \/ \A a \in Registered : opa /\ Buildable(a)
           d == {x \in Registered : built}
           f == [a \in d |-> [agents[a] EXCEPT !.bundle = BundleFor(a, agents[a].yaml)]]
<1>1. d \subseteq Agents /\ (built => d = Registered) /\ built \in BOOLEAN
  BY DEF Registered
<1>2. \A a \in Agents : agents[a] \in AgentRow /\ BundleFor(a, agents[a].yaml) \in AgentBundles
  BY BundleForIs DEF TypeOK, AgentRow
<1>3. \A a \in d : /\ f[a] \in AgentRow
                   /\ f[a].yaml = agents[a].yaml
                   /\ f[a].bundle = BundleFor(a, agents[a].yaml)
  BY <1>1, <1>2, RowExcept
<1>4. f \in RowSets /\ DOMAIN f = d
  <2>1. f \in [d -> AgentRow]
    BY <1>3
  <2>2. QED
    BY <1>1, <2>1, RowSetIs
<1>5. job' = [job EXCEPT ![w].stage = "install", ![w].ok = built, ![w].rows = f]
  BY DEF Compile
<1> HIDE DEF built, d, f
<1>6. job[w] \in Jobs
  BY DEF TypeOK
<1>7. /\ job' \in [Writers -> Jobs]
      /\ job'[w].stage = "install" /\ job'[w].kind = job[w].kind
      /\ job'[w].ok = built /\ job'[w].rows = f
      /\ \A v \in Writers \ {w} : job'[v] = job[v]
  BY <1>1, <1>4, <1>5, <1>6 DEF TypeOK, Jobs
<1>8. QED
  BY <1>1, <1>3, <1>4, <1>7 DEF built

\* A request that leaves has no job, and frees the lock.
LEMMA LeaveJob ==
  ASSUME TypeOK, NEW w \in Writers, Leave(w)
  PROVE  /\ lock' = Free
         /\ job' \in [Writers -> Jobs]
         /\ job'[w].stage = "idle"
         /\ \A v \in Writers \ {w} : job'[v] = job[v]
<1>1. NoJob.stage = "idle"
  BY DEF NoJob
<1>2. QED
  BY <1>1, NoJobTyped DEF Leave, TypeOK

\* A flip that is going to be undone keeps its lock and its kind.
LEMMA UndoJob ==
  ASSUME TypeOK, NEW w \in Writers, job' = [job EXCEPT ![w].stage = "undo"]
  PROVE  /\ job' \in [Writers -> Jobs]
         /\ job'[w].stage = "undo" /\ job'[w].kind = job[w].kind
         /\ \A v \in Writers \ {w} : job'[v] = job[v]
  BY DEF TypeOK, Jobs

\* The rows of a job that is installed.
LEMMA InstallRows ==
  ASSUME TypeOK, NEW w \in Writers, Install(w)
  PROVE  /\ agents' \in [Agents -> AgentRow]
         /\ \A a \in Agents : IF a \in DOMAIN job[w].rows THEN agents'[a] = job[w].rows[a]
                              ELSE agents'[a] = agents[a]
<1>1. \A a \in DOMAIN job[w].rows : job[w].rows[a] \in AgentRow
  <2>1. job[w].rows \in RowSets
    BY DEF TypeOK, Jobs
  <2>2. QED
    BY <2>1 DEF RowSets
<1>2. QED
  BY <1>1 DEF Install, TypeOK

\* The rows a restart fills in.
LEMMA BackfilledRows ==
  ASSUME TypeOK
  PROVE  /\ Backfilled \in [Agents -> AgentRow]
         /\ \A a \in Agents :
               /\ Backfilled[a].yaml = agents[a].yaml
               /\ \/ Backfilled[a].bundle = agents[a].bundle
                  \/ /\ agents[a].bundle = NoBundle /\ a \in Registered
                     /\ Backfilled[a].bundle = BundleFor(a, agents[a].yaml)
<1>1. \A a \in Agents : agents[a] \in AgentRow /\ BundleFor(a, agents[a].yaml) \in AgentBundles
  BY BundleForIs DEF TypeOK, AgentRow
<1>2. ASSUME NEW a \in Agents
      PROVE  /\ [agents[a] EXCEPT !.bundle = BundleFor(a, agents[a].yaml)] \in AgentRow
             /\ [agents[a] EXCEPT !.bundle = BundleFor(a, agents[a].yaml)].yaml = agents[a].yaml
             /\ [agents[a] EXCEPT !.bundle = BundleFor(a, agents[a].yaml)].bundle
                   = BundleFor(a, agents[a].yaml)
  BY <1>1, RowExcept
<1>3. QED
  BY <1>1, <1>2 DEF Backfilled
-----------------------------------------------------------------------------
(* The invariant, step by step.                                            *)

\* While the lock is free nobody has a job; its holder is the only one who has.
LEMMA OnlyTheHolder ==
  ASSUME IInv
  PROVE  /\ lock = Free => \A w \in Writers : Stage(w) = "idle"
         /\ \A w \in Writers : Stage(w) # "idle" =>
               /\ lock = w
               /\ \A v \in Writers \ {w} : Stage(v) = "idle"
  BY LockAssumption DEF IInv, LockDiscipline

\* What a state without jobs has to satisfy.
LEMMA IdleIInv ==
  ASSUME TypeOK', LibraryLinks', BundlesMatchStore', UnregisteredBare',
         lock' = Free, \A w \in Writers : job'[w].stage = "idle",
         debt' # "torn" => \A a \in Agents : InMode(agents[a].bundle)',
         ~Modular' => debt' # "stale"
  PROVE  IInv'
<1>1. LockDiscipline'
  BY LockAssumption DEF LockDiscipline, Stage
<1>2. JobShape' /\ FanoutIsFresh' /\ RowIsFresh'
  BY DEF JobShape, FanoutIsFresh, RowIsFresh, Stage
<1>3. ~(\E w \in Writers : Flips(w))' /\ ~(\E w \in Writers : Recompiles(w))'
  BY DEF Flips, Recompiles, Stage
<1>4. BundlesInMode' /\ FlipFoundMatching' /\ RecompilesOwe'
  BY <1>3 DEF BundlesInMode, FlipFoundMatching, RecompilesOwe
<1>5. ClassicIsSettled'
  BY DEF ClassicIsSettled, Modular
<1>6. QED
  BY <1>1, <1>2, <1>4, <1>5 DEF IInv

LEMMA InitIInv == Init => IInv
<1> SUFFICES ASSUME Init PROVE IInv
  OBVIOUS
<1>1. TypeOK
  BY InitTypeOK
<1>2. LibraryLinks /\ ~Modular
  BY DEF Init, LibraryLinks, Modular
<1>3. Registered = {} /\ \A w \in Writers : Stage(w) = "idle"
  BY DEF Init, Registered, Stage, NoJob
<1>4. \A a \in Agents : agents[a].bundle = NoBundle /\ NoBundle.from = "none"
  BY DEF Init, NoBundle
<1>5. BundlesMatchStore /\ UnregisteredBare /\ FanoutIsFresh /\ RowIsFresh
  BY <1>3, <1>4 DEF BundlesMatchStore, UnregisteredBare, FanoutIsFresh, RowIsFresh
<1>6. LockDiscipline /\ JobShape
  BY <1>3, LockAssumption DEF Init, LockDiscipline, JobShape
<1>7. BundlesInMode /\ FlipFoundMatching /\ RecompilesOwe /\ ClassicIsSettled
  BY <1>2, <1>3, <1>4 DEF Init, BundlesInMode, FlipFoundMatching, RecompilesOwe, ClassicIsSettled,
                          Flips, Recompiles, InMode
<1>8. QED
  BY <1>1, <1>2, <1>5, <1>6, <1>7 DEF IInv

\* A write that recompiles: what it finds is kept for the recompile to replace.
LEMMA RecompileIInv ==
  ASSUME IInv, NEW w \in Writers, NEW kind \in {"fanout", "flip"}, Enter(w), Recompile(w, kind),
         store' \in [Modules -> Contents \union {Absent}], binding' \in Bindings, LibraryLinks',
         kind = "flip" => Modular' /\ ~Modular,
         kind = "fanout" /\ Modular' => Modular,
         UNCHANGED <<agents, opa>>
  PROVE  IInv'
<1>1. TypeOK /\ (\A v \in Writers : Stage(v) = "idle")
  BY OnlyTheHolder DEF IInv, Enter
<1>2. /\ lock' = w
      /\ job' \in [Writers -> Jobs]
      /\ job'[w].stage = "compile" /\ job'[w].kind = kind
      /\ \A v \in Writers \ {w} : job'[v].stage = "idle"
      /\ debt' \in {"stale", "torn"}
      /\ debt = "torn" <=> debt' = "torn"
  BY <1>1, RecompileJob DEF Stage
<1>3. TypeOK'
  BY <1>1, <1>2 DEF TypeOK
<1>4. BundlesMatchStore' /\ RecompilesOwe'
  BY <1>2 DEF BundlesMatchStore, RecompilesOwe
<1>5. LockDiscipline' /\ FanoutIsFresh' /\ RowIsFresh'
  BY <1>2 DEF LockDiscipline, FanoutIsFresh, RowIsFresh, Stage
<1>6. JobShape'
  BY <1>2 DEF JobShape, Stage
<1>7. UnregisteredBare'
  BY DEF IInv, UnregisteredBare
<1>8. (\E v \in Writers : Recompiles(v))' /\ ((\E v \in Writers : Flips(v))' <=> kind = "flip")
  BY <1>2 DEF Recompiles, Flips, Stage
<1>9. debt # "torn" => \A a \in Agents : InMode(agents[a].bundle)
  BY <1>1 DEF IInv, BundlesInMode, Recompiles
<1>10. BundlesInMode'
  BY <1>2, <1>8, <1>9 DEF BundlesInMode, InMode
<1>11. FlipFoundMatching'
  <2> SUFFICES ASSUME (\E v \in Writers : Flips(v))', debt' = "stale"
               PROVE  (\A a \in Registered :
                          agents[a].bundle \in {NoBundle, OfYaml(agents[a].yaml)})'
    BY DEF FlipFoundMatching
  <2>1. ~Modular
    BY <1>8
  <2>2. debt = "none"
    BY <1>1, <1>2, <2>1 DEF IInv, ClassicIsSettled, Recompiles, TypeOK
  <2>3. QED
    BY <2>1, <2>2 DEF IInv, BundlesMatchStore, Registered
<1>12. ClassicIsSettled'
  BY <1>8 DEF ClassicIsSettled
<1>13. QED
  BY <1>3, <1>4, <1>5, <1>6, <1>7, <1>10, <1>11, <1>12 DEF IInv

\* A write that is answered without a recompile changes nothing bundles show.
LEMMA AnswerIInv ==
  ASSUME IInv, NEW w \in Writers, Enter(w), Answer,
         store' \in [Modules -> Contents \union {Absent}], LibraryLinks',
         Modular => store' = store,
         UNCHANGED <<binding, agents, opa>>
  PROVE  IInv'
<1>1. \A v \in Writers : Stage(v) = "idle"
  BY OnlyTheHolder DEF Enter
<1>2. TypeOK' /\ UnregisteredBare' /\ lock' = Free
  BY DEF IInv, TypeOK, UnregisteredBare, Answer, Enter
<1>3. BundlesMatchStore'
  BY DEF IInv, BundlesMatchStore, Answer, Modular, Registered, Current
<1>4. debt # "torn" => \A a \in Agents : InMode(agents[a].bundle)
  BY <1>1 DEF IInv, BundlesInMode, Recompiles
<1>5. ~Modular => debt # "stale"
  BY <1>1 DEF IInv, ClassicIsSettled, Recompiles
<1>6. QED
  BY <1>1, <1>2, <1>3, <1>4, <1>5, IdleIInv DEF Answer, InMode, Modular, Stage

LEMMA PutModuleIInv ==
  ASSUME IInv, NEW w \in Writers, NEW m \in Modules, NEW c \in Contents, PutModule(w, m, c)
  PROVE  IInv'
<1>1. store' = [store EXCEPT ![m] = c] /\ store' \in [Modules -> Contents \union {Absent}]
  BY DEF PutModule, IInv, TypeOK
<1>2. LibraryLinks'
  <2> SUFFICES ASSUME Modular' PROVE LibraryLinks'
    BY DEF LibraryLinks
  <2>1. Modular /\ binding' = binding
    BY DEF PutModule, Modular
  <2>2. ComposesForAll(store', binding)
    BY <1>1, <2>1 DEF PutModule
  <2>3. QED
    BY <2>1, <2>2, ComposesLinks DEF LibraryLinks
<1>3. CASE Modular /\ store[m] # c
  <2>1. Recompile(w, "fanout") /\ Enter(w)
    BY <1>3 DEF PutModule
  <2>2. binding' \in Bindings /\ (Modular' => Modular)
    BY DEF PutModule, IInv, TypeOK, Modular
  <2>3. QED
    BY <1>1, <1>2, <2>1, <2>2, RecompileIInv DEF PutModule
<1>4. CASE ~(Modular /\ store[m] # c)
  <2>1. Modular => store' = store
    BY <1>1, <1>4 DEF IInv, TypeOK
  <2>2. Answer /\ Enter(w)
    BY <1>4 DEF PutModule
  <2>3. QED
    BY <1>1, <1>2, <2>1, <2>2, AnswerIInv DEF PutModule
<1>5. QED
  BY <1>3, <1>4

LEMMA DeleteModuleIInv ==
  ASSUME IInv, NEW w \in Writers, NEW m \in Modules, DeleteModule(w, m)
  PROVE  IInv'
<1>1. store' = [store EXCEPT ![m] = Absent] /\ store' \in [Modules -> Contents \union {Absent}]
  BY DEF DeleteModule, IInv, TypeOK
<1>2. LibraryLinks'
  <2> SUFFICES ASSUME Modular' PROVE LibraryLinks'
    BY DEF LibraryLinks
  <2>1. Modular /\ binding' = binding
    BY DEF DeleteModule, Modular
  <2>2. \A r \in DOMAIN binding : \A a \in DOMAIN binding[r] : m \notin binding[r][a]
    <3>1. CASE m \in Caps
      BY <3>1 DEF DeleteModule, RolesImporting
    <3>2. CASE m \in Fences
      BY <3>2, TiersAssumption, BindingsAssumption DEF IInv, TypeOK, IsBinding
    <3>3. QED
      BY <3>1, <3>2 DEF Modules
  <2>3. \A x \in Stored(store) \ {m} : x \in Stored(store')
    BY <1>1 DEF Stored, IInv, TypeOK
  <2>4. \A c \in Caps : store'[c] # "denies"
    BY <1>1, <2>1 DEF IInv, LibraryLinks, TypeOK, Absent, Modules
  <2>5. QED
    BY <2>1, <2>2, <2>3, <2>4 DEF IInv, LibraryLinks
<1>3. CASE Modular
  <2>1. Recompile(w, "fanout") /\ Enter(w)
    BY <1>3 DEF DeleteModule
  <2>2. binding' \in Bindings /\ (Modular' => Modular)
    BY DEF DeleteModule, IInv, TypeOK, Modular
  <2>3. QED
    BY <1>1, <1>2, <2>1, <2>2, RecompileIInv DEF DeleteModule
<1>4. CASE ~Modular
  <2>1. Answer /\ Enter(w)
    BY <1>4 DEF DeleteModule
  <2>2. QED
    BY <1>1, <1>2, <1>4, <2>1, AnswerIInv DEF DeleteModule
<1>5. QED
  BY <1>3, <1>4

LEMMA PutRolesIInv ==
  ASSUME IInv, NEW w \in Writers, NEW b \in Bindings, PutRoles(w, b)
  PROVE  IInv'
<1> DEFINE kind == IF Modular \/ b = NoRoles THEN "fanout" ELSE "flip"
<1>1. kind \in {"fanout", "flip"} /\ Recompile(w, kind) /\ Enter(w)
  BY DEF PutRoles
<1>2. binding' = b /\ UNCHANGED <<store, agents, opa>> /\ (Modular' <=> b # NoRoles)
  BY DEF PutRoles, Modular
<1>3. LibraryLinks'
  <2> SUFFICES ASSUME b # NoRoles PROVE LibraryLinks'
    BY <1>2 DEF LibraryLinks
  <2>1. ComposesForAll(store, b)
    BY DEF PutRoles
  <2>2. QED
    BY <1>2, <2>1, ComposesLinks DEF LibraryLinks
<1>4. store' \in [Modules -> Contents \union {Absent}]
  BY <1>2 DEF IInv, TypeOK
<1>5. (kind = "flip" => Modular' /\ ~Modular) /\ (kind = "fanout" /\ Modular' => Modular)
  BY <1>2
<1> HIDE DEF kind
<1>6. QED
  BY <1>1, <1>2, <1>3, <1>4, <1>5, RecompileIInv

\* A request on one agent prepares a row as good as the one it replaces.
LEMMA PrepareIInv ==
  ASSUME IInv, NEW w \in Writers, NEW a \in Agents, NEW fresh \in AgentRow,
         Enter(w), Prepare(w, a, fresh),
         fresh.yaml # "unregistered",
         debt = "none" => Matches(a, fresh),
         debt # "torn" => InMode(fresh.bundle),
         Modular /\ agents[a].bundle # NoBundle => fresh.bundle # NoBundle
  PROVE  IInv'
<1>1. TypeOK /\ (\A v \in Writers : Stage(v) = "idle")
  BY OnlyTheHolder DEF IInv, Enter
<1>2. /\ lock' = w
      /\ job' \in [Writers -> Jobs]
      /\ job'[w].stage = "install" /\ job'[w].kind = "row" /\ job'[w].ok
      /\ DOMAIN job'[w].rows = {a} /\ job'[w].rows[a] = fresh
      /\ \A v \in Writers \ {w} : job'[v].stage = "idle"
  BY <1>1, PrepareJob DEF Stage
<1>3. UNCHANGED <<store, binding, agents, opa, debt>>
  BY DEF Prepare
<1>4. TypeOK' /\ LibraryLinks' /\ UnregisteredBare' /\ BundlesMatchStore'
  BY <1>2, <1>3 DEF IInv, TypeOK, LibraryLinks, UnregisteredBare, BundlesMatchStore,
                    Modular, Stored, Registered, Current
<1>5. LockDiscipline' /\ JobShape' /\ FanoutIsFresh'
  BY <1>2 DEF LockDiscipline, JobShape, FanoutIsFresh, Stage
<1>6. RowIsFresh'
  BY <1>2, <1>3 DEF RowIsFresh, Stage, Matches, InMode, Modular, Current
<1>7. /\ ~(\E v \in Writers : Recompiles(v)) /\ ~(\E v \in Writers : Flips(v))
      /\ ~(\E v \in Writers : Recompiles(v))' /\ ~(\E v \in Writers : Flips(v))'
  BY <1>1, <1>2 DEF Recompiles, Flips, Stage
<1>8. BundlesInMode' /\ FlipFoundMatching' /\ RecompilesOwe' /\ ClassicIsSettled'
  BY <1>3, <1>7 DEF IInv, BundlesInMode, FlipFoundMatching, RecompilesOwe, ClassicIsSettled,
                    InMode, Modular
<1>9. QED
  BY <1>4, <1>5, <1>6, <1>8 DEF IInv

LEMMA UpdateAgentIInv ==
  ASSUME IInv, NEW w \in Writers, NEW a \in Agents, NEW y \in Texts, UpdateAgent(w, a, y)
  PROVE  IInv'
<1> DEFINE fresh == [yaml |-> y, bundle |-> IF Modular THEN agents[a].bundle ELSE FromYaml(y)]
<1>1. TypeOK /\ \A v \in Writers : Stage(v) = "idle"
  BY OnlyTheHolder DEF IInv, UpdateAgent, Enter
<1>2. Enter(w) /\ a \in Registered /\ fresh \in AgentRow /\ Prepare(w, a, fresh)
  BY <1>1, UpdateAgentRow DEF UpdateAgent
<1>3. fresh.yaml = y /\ fresh.bundle = IF Modular THEN agents[a].bundle ELSE FromYaml(y)
  OBVIOUS
<1> HIDE DEF fresh
<1>4. fresh.yaml # "unregistered"
  BY <1>2, <1>3, EditsAssumption DEF UpdateAgent, Registered
<1>5. debt # "torn" => InMode(agents[a].bundle)
  BY <1>1 DEF IInv, BundlesInMode, Recompiles
<1>6. ~Modular => InMode(FromYaml(y)) /\ FromYaml(y) \in {NoBundle, OfYaml(y)}
  BY DEF FromYaml, OfYaml, NoBundle, InMode
<1>7. debt = "none" => Matches(a, fresh)
  BY <1>2, <1>3, <1>6 DEF IInv, BundlesMatchStore, Matches
<1>8. QED
  BY <1>2, <1>3, <1>4, <1>5, <1>6, <1>7, PrepareIInv

LEMMA RegisterIInv ==
  ASSUME IInv, NEW w \in Writers, NEW a \in Agents, Register(w, a)
  PROVE  IInv'
<1> DEFINE y == IF Modular THEN "denyall" ELSE "starter"
           fresh == [yaml |-> y, bundle |-> BundleFor(a, y)]
<1>1. TypeOK /\ y \in Texts /\ y # "unregistered"
  BY DEF IInv, Texts
<1>2. /\ BundleFor(a, y) \in AgentBundles
      /\ BundleFor(a, y) \in {NoBundle, IF Modular THEN Current(a) ELSE OfYaml(y)}
      /\ InMode(BundleFor(a, y))
  BY <1>1, BundleForIs
<1>3. Enter(w) /\ a \notin Registered /\ Prepare(w, a, fresh)
  BY DEF Register
<1>4. agents[a].bundle = NoBundle
  BY <1>3 DEF IInv, UnregisteredBare, Registered
<1> HIDE DEF y
<1>5. fresh \in AgentRow /\ fresh.yaml = y /\ fresh.bundle = BundleFor(a, y)
  BY <1>1, <1>2 DEF AgentRow
<1> HIDE DEF fresh
<1>6. QED
  BY <1>1, <1>2, <1>3, <1>4, <1>5, PrepareIInv DEF Matches

LEMMA CompileIInv ==
  ASSUME IInv, NEW w \in Writers, Compile(w)
  PROVE  IInv'
<1> DEFINE built == ~Modular \/ \A a \in Registered : opa /\ Buildable(a)
<1>1. TypeOK /\ Stage(w) = "compile" /\ lock = w /\ lock' = lock
      /\ \A v \in Writers \ {w} : Stage(v) = "idle"
  BY OnlyTheHolder DEF IInv, Compile
<1>2. /\ job' \in [Writers -> Jobs]
      /\ job'[w].stage = "install" /\ job'[w].kind = job[w].kind /\ job'[w].ok = built
      /\ built => /\ DOMAIN job'[w].rows = Registered
                  /\ \A a \in Registered :
                        /\ job'[w].rows[a].yaml = agents[a].yaml
                        /\ job'[w].rows[a].bundle = BundleFor(a, agents[a].yaml)
      /\ \A v \in Writers \ {w} : job'[v] = job[v]
  BY <1>1, CompileJob
<1>3. UNCHANGED <<store, binding, agents, opa, debt>>
  BY DEF Compile
<1>4. job[w].kind # "row"
  BY <1>1 DEF IInv, JobShape
<1>5. TypeOK' /\ LibraryLinks' /\ UnregisteredBare' /\ BundlesMatchStore'
  BY <1>1, <1>2, <1>3 DEF IInv, TypeOK, LibraryLinks, UnregisteredBare, BundlesMatchStore,
                          Modular, Stored, Registered, Current
<1>6. LockDiscipline'
  BY <1>1, <1>2 DEF IInv, LockDiscipline, Stage
<1>7. JobShape'
  BY <1>1, <1>2, <1>3, <1>4 DEF IInv, JobShape, Stage, Modular
<1>8. RowIsFresh'
  BY <1>1, <1>2, <1>4 DEF RowIsFresh, Stage
<1>9. FanoutIsFresh'
  <2> SUFFICES ASSUME built
               PROVE  /\ DOMAIN job'[w].rows = Registered'
                      /\ \A a \in Registered' :
                            /\ job'[w].rows[a].yaml = agents'[a].yaml
                            /\ Matches(a, job[w].rows[a])'
                            /\ Modular' => job'[w].rows[a].bundle # NoBundle
    BY <1>1, <1>2 DEF FanoutIsFresh, Stage
  <2>1. /\ Registered' = Registered /\ Registered \subseteq Agents
        /\ (Modular' <=> Modular) /\ \A a \in Agents : Current(a)' = Current(a)
    BY <1>3 DEF Registered, Modular, Current
  <2>2. ASSUME NEW a \in Registered
        PROVE  /\ job'[w].rows[a].bundle
                     \in {NoBundle, IF Modular THEN Current(a) ELSE OfYaml(agents[a].yaml)}
               /\ Modular => job'[w].rows[a].bundle # NoBundle
    <3>1. a \in Agents /\ agents[a].yaml \in Texts
      BY <1>1 DEF Registered, TypeOK, AgentRow
    <3>2. BundleFor(a, agents[a].yaml)
             \in {NoBundle, IF Modular THEN Current(a) ELSE OfYaml(agents[a].yaml)}
      BY <1>1, <3>1, BundleForIs
    <3>3. Modular => BundleFor(a, agents[a].yaml) = Current(a) /\ Current(a) # NoBundle
      BY <1>1, <3>1, BundleForIs, CurrentIsModular
    <3>4. QED
      BY <1>2, <3>2, <3>3
  <2>3. QED
    BY <1>2, <1>3, <2>1, <2>2 DEF Matches
<1>10. /\ ((\E v \in Writers : Recompiles(v))' <=> \E v \in Writers : Recompiles(v))
       /\ ((\E v \in Writers : Flips(v))' <=> \E v \in Writers : Flips(v))
  BY <1>1, <1>2 DEF Recompiles, Flips, Stage
<1>11. BundlesInMode' /\ FlipFoundMatching' /\ RecompilesOwe' /\ ClassicIsSettled'
  BY <1>3, <1>10 DEF IInv, BundlesInMode, FlipFoundMatching, RecompilesOwe, ClassicIsSettled,
                     InMode, Modular, Registered
<1>12. QED
  BY <1>5, <1>6, <1>7, <1>8, <1>9, <1>11 DEF IInv

\* After a request has left there is no job at all.
LEMMA AllIdle ==
  ASSUME IInv, NEW w \in Writers, Stage(w) # "idle", Leave(w)
  PROVE  /\ lock' = Free
         /\ job' \in [Writers -> Jobs]
         /\ \A v \in Writers : job'[v].stage = "idle"
         /\ \A v \in Writers \ {w} : Stage(v) = "idle"
  BY OnlyTheHolder, LeaveJob DEF IInv, Stage

LEMMA InstallIInv ==
  ASSUME IInv, NEW w \in Writers, Install(w)
  PROVE  IInv'
<1>1. TypeOK /\ Stage(w) = "install" /\ Leave(w) /\ UNCHANGED <<store, binding, opa>>
  BY DEF IInv, Install
<1>2. /\ lock' = Free /\ job' \in [Writers -> Jobs]
      /\ \A v \in Writers : job'[v].stage = "idle"
      /\ \A v \in Writers \ {w} : Stage(v) = "idle"
  BY <1>1, AllIdle
<1>3. /\ agents' \in [Agents -> AgentRow]
      /\ \A a \in Agents : IF a \in DOMAIN job[w].rows THEN agents'[a] = job[w].rows[a]
                           ELSE agents'[a] = agents[a]
  BY <1>1, InstallRows
<1>4. LibraryLinks' /\ (Modular' <=> Modular) /\ \A a \in Agents : Current(a)' = Current(a)
  BY <1>1 DEF IInv, LibraryLinks, Modular, Stored, Current
<1>5. /\ debt' = IF job[w].kind = "row" THEN debt ELSE "none"
      /\ job[w].ok
      /\ job[w].kind # "row" => Recompiles(w)
  BY <1>1 DEF Install, Recompiles
<1>6. TypeOK'
  BY <1>1, <1>2, <1>3, <1>5 DEF TypeOK
<1>7. CASE job[w].kind = "row"
  <2>1. \A a \in DOMAIN job[w].rows :
           LET x == job[w].rows[a] IN
           /\ x.yaml # "unregistered"
           /\ debt = "none" => Matches(a, x)
           /\ debt # "torn" => InMode(x.bundle)
    BY <1>1, <1>7 DEF IInv, RowIsFresh
  <2>2. ~\E v \in Writers : Recompiles(v)
    BY <1>2, <1>7 DEF Recompiles
  <2>3. debt # "torn" => \A a \in Agents : InMode(agents[a].bundle)
    BY <2>2 DEF IInv, BundlesInMode
  <2>4. debt' # "torn" => \A a \in Agents : InMode(agents[a].bundle)'
    BY <1>3, <1>4, <1>5, <1>7, <2>1, <2>3 DEF InMode
  <2>5. UnregisteredBare'
    BY <1>3, <2>1 DEF IInv, UnregisteredBare
  <2>6. BundlesMatchStore'
    <3> SUFFICES ASSUME debt = "none", NEW a \in Agents, agents'[a].yaml # "unregistered"
                 PROVE  agents'[a].bundle
                           \in {NoBundle, IF Modular THEN Current(a) ELSE OfYaml(agents'[a].yaml)}
      BY <1>4, <1>5, <1>7 DEF BundlesMatchStore, Registered
    <3>1. CASE a \in DOMAIN job[w].rows
      BY <1>3, <2>1, <3>1 DEF Matches
    <3>2. CASE a \notin DOMAIN job[w].rows
      BY <1>3, <3>2 DEF IInv, BundlesMatchStore, Registered
    <3>3. QED
      BY <3>1, <3>2
  <2>7. ~Modular' => debt' # "stale"
    BY <1>4, <1>5, <1>7, <2>2 DEF IInv, ClassicIsSettled
  <2>8. QED
    BY <1>2, <1>4, <1>6, <2>4, <2>5, <2>6, <2>7, IdleIInv
<1>8. CASE job[w].kind # "row"
  <2>1. /\ DOMAIN job[w].rows = Registered
        /\ \A a \in Registered : /\ job[w].rows[a].yaml = agents[a].yaml
                                 /\ Matches(a, job[w].rows[a])
    BY <1>1, <1>5, <1>8 DEF IInv, FanoutIsFresh
  <2>2. UnregisteredBare' /\ Registered' = Registered
    BY <1>3, <2>1 DEF IInv, UnregisteredBare, Registered
  <2>3. BundlesMatchStore'
    BY <1>3, <1>4, <2>1, <2>2 DEF BundlesMatchStore, Matches, Registered
  <2>4. \A a \in Agents : InMode(agents[a].bundle)'
    <3> SUFFICES ASSUME NEW a \in Agents
                 PROVE  agents'[a].bundle.from \in {"none", IF Modular THEN "modules" ELSE "yaml"}
      BY <1>4 DEF InMode
    <3>1. CASE a \in Registered
      <4>1. agents'[a].bundle
               \in {NoBundle, IF Modular THEN Current(a) ELSE OfYaml(agents[a].yaml)}
        BY <1>3, <2>1, <3>1 DEF Matches
      <4>2. QED
        BY <1>1, <4>1, CurrentIsModular DEF NoBundle, OfYaml
    <3>2. CASE a \notin Registered
      BY <1>3, <2>1, <3>2 DEF IInv, UnregisteredBare, Registered, NoBundle
    <3>3. QED
      BY <3>1, <3>2
  <2>5. QED
    BY <1>2, <1>4, <1>5, <1>6, <1>8, <2>2, <2>3, <2>4, IdleIInv
<1>9. QED
  BY <1>7, <1>8

\* A request that leaves without committing rows leaves the bundles it found.
LEMMA LeaveIInv ==
  ASSUME IInv, NEW w \in Writers, Stage(w) # "idle", Leave(w),
         UNCHANGED <<store, binding, agents, opa>>, debt' \in {"none", "stale", "torn"},
         debt' # "torn" => ~Flips(w) /\ debt' = debt /\ (Recompiles(w) => Modular),
         debt' = "none" => debt = "none"
  PROVE  IInv'
<1>1. /\ lock' = Free /\ job' \in [Writers -> Jobs]
      /\ \A v \in Writers : job'[v].stage = "idle"
      /\ \A v \in Writers \ {w} : Stage(v) = "idle"
  BY AllIdle
<1>2. TypeOK' /\ LibraryLinks' /\ UnregisteredBare' /\ BundlesMatchStore'
  BY <1>1 DEF IInv, TypeOK, LibraryLinks, UnregisteredBare, BundlesMatchStore,
              Modular, Stored, Registered, Current
<1>3. ASSUME debt' # "torn"
      PROVE  \A a \in Agents : InMode(agents[a].bundle)
  <2>1. ~\E v \in Writers : Flips(v)
    BY <1>1, <1>3 DEF Flips
  <2>2. (\E v \in Writers : Recompiles(v)) => Modular
    BY <1>1, <1>3 DEF Recompiles
  <2>3. QED
    BY <1>3, <2>1, <2>2 DEF IInv, BundlesInMode
<1>4. ~Modular => debt' # "stale"
  BY <1>1 DEF IInv, ClassicIsSettled, Recompiles
<1>5. QED
  BY <1>1, <1>2, <1>3, <1>4, IdleIInv DEF InMode, Modular

\* A flip that could not be finished is about to be undone.
LEMMA ToUndoIInv ==
  ASSUME IInv, NEW w \in Writers, Stage(w) = "install", job[w].kind = "flip",
         job' = [job EXCEPT ![w].stage = "undo"],
         UNCHANGED <<store, binding, agents, lock, opa, debt>>
  PROVE  IInv'
<1>1. /\ job' \in [Writers -> Jobs]
      /\ job'[w].stage = "undo" /\ job'[w].kind = "flip"
      /\ \A v \in Writers \ {w} : job'[v] = job[v]
      /\ \A v \in Writers \ {w} : Stage(v) = "idle"
  BY UndoJob, OnlyTheHolder DEF IInv
<1>2. TypeOK' /\ LibraryLinks' /\ UnregisteredBare' /\ BundlesMatchStore'
  BY <1>1 DEF IInv, TypeOK, LibraryLinks, UnregisteredBare, BundlesMatchStore,
              Modular, Stored, Registered, Current
<1>3. LockDiscipline'
  BY <1>1 DEF IInv, LockDiscipline, Stage
<1>4. JobShape' /\ FanoutIsFresh' /\ RowIsFresh'
  BY <1>1 DEF IInv, JobShape, FanoutIsFresh, RowIsFresh, Stage, Modular
<1>5. /\ ((\E v \in Writers : Recompiles(v))' <=> \E v \in Writers : Recompiles(v))
      /\ ((\E v \in Writers : Flips(v))' <=> \E v \in Writers : Flips(v))
  BY <1>1 DEF Recompiles, Flips, Stage
<1>6. BundlesInMode' /\ FlipFoundMatching' /\ RecompilesOwe' /\ ClassicIsSettled'
  BY <1>5 DEF IInv, BundlesInMode, FlipFoundMatching, RecompilesOwe, ClassicIsSettled,
              InMode, Modular, Registered
<1>7. QED
  BY <1>2, <1>3, <1>4, <1>6 DEF IInv

LEMMA KeepIInv ==
  ASSUME IInv, NEW w \in Writers, Keep(w)
  PROVE  IInv'
<1>1. Stage(w) = "install" /\ Modular /\ job[w].kind # "row"
  BY DEF IInv, JobShape, Keep
<1>2. CASE job[w].kind = "flip"
  BY <1>1, <1>2, ToUndoIInv DEF Keep
<1>3. CASE job[w].kind # "flip"
  BY <1>1, <1>3, LeaveIInv DEF Keep, Flips, IInv, TypeOK
<1>4. QED
  BY <1>2, <1>3

LEMMA InstallFailsIInv ==
  ASSUME IInv, NEW w \in Writers, InstallFails(w)
  PROVE  IInv'
<1>1. CASE job[w].kind = "flip"
  BY <1>1, ToUndoIInv DEF InstallFails
<1>2. CASE job[w].kind # "flip"
  BY <1>2, LeaveIInv DEF InstallFails, Flips, Recompiles, IInv, TypeOK
<1>3. QED
  BY <1>1, <1>2

LEMMA UndoFailsIInv ==
  ASSUME IInv, NEW w \in Writers, UndoFails(w)
  PROVE  IInv'
  BY LeaveIInv DEF UndoFails

\* The project is classic again, with the bundles the flip found.
LEMMA UndoIInv ==
  ASSUME IInv, NEW w \in Writers, Undo(w)
  PROVE  IInv'
<1>1. Stage(w) = "undo" /\ Leave(w) /\ Flips(w) /\ Recompiles(w)
  BY DEF IInv, JobShape, Undo, Flips, Recompiles
<1>2. /\ lock' = Free /\ job' \in [Writers -> Jobs]
      /\ \A v \in Writers : job'[v].stage = "idle"
  BY <1>1, AllIdle
<1>3. /\ binding' = NoRoles /\ UNCHANGED <<store, agents, opa>> /\ ~Modular'
      /\ debt' = IF debt = "stale" THEN "none" ELSE debt
  BY DEF Undo, Modular
<1>4. TypeOK' /\ LibraryLinks' /\ UnregisteredBare'
  BY <1>2, <1>3, BindingsAssumption DEF IInv, TypeOK, LibraryLinks, UnregisteredBare
<1>5. debt # "none"
  BY <1>1 DEF IInv, RecompilesOwe
<1>6. BundlesMatchStore'
  BY <1>1, <1>3, <1>5 DEF IInv, FlipFoundMatching, BundlesMatchStore, Registered
<1>7. debt' # "torn" => \A a \in Agents : InMode(agents[a].bundle)'
  BY <1>1, <1>3 DEF IInv, BundlesInMode, InMode
<1>8. QED
  BY <1>2, <1>3, <1>4, <1>6, <1>7, IdleIInv

LEMMA RestartIInv ==
  ASSUME IInv, Restart
  PROVE  IInv'
<1>1. TypeOK /\ agents' = Backfilled /\ UNCHANGED <<store, binding, opa>>
  BY DEF IInv, Restart
<1>2. /\ agents' \in [Agents -> AgentRow]
      /\ \A a \in Agents :
            /\ agents'[a].yaml = agents[a].yaml
            /\ \/ agents'[a].bundle = agents[a].bundle
               \/ /\ agents[a].bundle = NoBundle /\ a \in Registered
                  /\ agents'[a].bundle = BundleFor(a, agents[a].yaml)
  BY <1>1, BackfilledRows
<1>3. \A a \in Agents :
         /\ BundleFor(a, agents[a].yaml)
               \in {NoBundle, IF Modular THEN Current(a) ELSE OfYaml(agents[a].yaml)}
         /\ InMode(BundleFor(a, agents[a].yaml))
  <2>1. \A a \in Agents : agents[a].yaml \in Texts
    BY <1>1 DEF TypeOK, AgentRow
  <2>2. QED
    BY <1>1, <2>1, BundleForIs
<1>4. lock' = Free /\ job' \in [Writers -> Jobs] /\ \A w \in Writers : job'[w].stage = "idle"
  <2>1. NoJob.stage = "idle"
    BY DEF NoJob
  <2>2. QED
    BY <2>1, NoJobTyped DEF Restart
<1>5. debt' = IF \E w \in Writers : Recompiles(w) THEN "torn" ELSE debt
  BY DEF Restart, Recompiles
<1>6. TypeOK'
  BY <1>1, <1>2, <1>4, <1>5 DEF TypeOK
<1>7. /\ (Modular' <=> Modular) /\ Registered' = Registered
      /\ \A a \in Agents : Current(a)' = Current(a)
  BY <1>1, <1>2 DEF Modular, Registered, Current
<1>8. LibraryLinks' /\ UnregisteredBare'
  BY <1>1, <1>2, <1>7 DEF IInv, LibraryLinks, UnregisteredBare, Stored, Registered
<1>9. BundlesMatchStore'
  BY <1>2, <1>3, <1>5, <1>7 DEF IInv, BundlesMatchStore, Registered
<1>10. debt' # "torn" => \A a \in Agents : InMode(agents[a].bundle)'
  BY <1>2, <1>3, <1>5, <1>7 DEF IInv, BundlesInMode, InMode
<1>11. ~Modular' => debt' # "stale"
  BY <1>5, <1>7 DEF IInv, ClassicIsSettled
<1>12. QED
  BY <1>4, <1>6, <1>8, <1>9, <1>10, <1>11, IdleIInv

\* Nothing the invariant speaks of depends on opa or on the bound.
LEMMA QuietIInv ==
  ASSUME IInv, UNCHANGED <<store, binding, agents, lock, job, debt>>, opa' \in BOOLEAN
  PROVE  IInv'
<1>1. TypeOK' /\ LibraryLinks' /\ UnregisteredBare' /\ BundlesMatchStore'
  BY DEF IInv, TypeOK, LibraryLinks, UnregisteredBare, BundlesMatchStore,
         Modular, Stored, Registered, Current
<1>2. LockDiscipline' /\ JobShape' /\ FanoutIsFresh' /\ RowIsFresh'
  BY DEF IInv, LockDiscipline, JobShape, FanoutIsFresh, RowIsFresh, Stage, Modular, Registered,
         Matches, Current, InMode
<1>3. BundlesInMode' /\ FlipFoundMatching' /\ RecompilesOwe' /\ ClassicIsSettled'
  BY DEF IInv, BundlesInMode, FlipFoundMatching, RecompilesOwe, ClassicIsSettled,
         InMode, Modular, Registered, Recompiles, Flips, Stage
<1>4. QED
  BY <1>1, <1>2, <1>3 DEF IInv

LEMMA NextIInv == IInv /\ [Next]_vars => IInv'
<1> SUFFICES ASSUME IInv, [Next]_vars PROVE IInv'
  OBVIOUS
<1>1. CASE UNCHANGED vars
  BY <1>1, QuietIInv DEF vars, IInv, TypeOK
<1>2. CASE OpaComesAndGoes
  BY <1>2, QuietIInv DEF OpaComesAndGoes, IInv, TypeOK
<1>3. CASE Restart
  BY <1>3, RestartIInv
<1>4. ASSUME NEW w \in Writers, WriterStep(w)
      PROVE  IInv'
  <2>1. ASSUME NEW m \in Modules, NEW c \in Contents, PutModule(w, m, c)
        PROVE  IInv'
    BY <2>1, PutModuleIInv
  <2>2. ASSUME NEW m \in Modules, DeleteModule(w, m)
        PROVE  IInv'
    BY <2>2, DeleteModuleIInv
  <2>3. ASSUME NEW b \in Bindings, PutRoles(w, b)
        PROVE  IInv'
    BY <2>3, PutRolesIInv
  <2>4. ASSUME NEW a \in Agents, Register(w, a)
        PROVE  IInv'
    BY <2>4, RegisterIInv
  <2>5. ASSUME NEW a \in Agents, NEW y \in Texts, UpdateAgent(w, a, y)
        PROVE  IInv'
    BY <2>5, UpdateAgentIInv
  <2>6. CASE Compile(w)
    BY <2>6, CompileIInv
  <2>7. CASE Install(w)
    BY <2>7, InstallIInv
  <2>8. CASE Keep(w)
    BY <2>8, KeepIInv
  <2>9. CASE InstallFails(w)
    BY <2>9, InstallFailsIInv
  <2>10. CASE Undo(w)
    BY <2>10, UndoIInv
  <2>11. CASE UndoFails(w)
    BY <2>11, UndoFailsIInv
  <2>12. QED
    BY <1>4, <2>1, <2>2, <2>3, <2>4, <2>5, <2>6, <2>7, <2>8, <2>9, <2>10, <2>11 DEF WriterStep
<1>5. QED
  BY <1>1, <1>2, <1>3, <1>4 DEF Next

LEMMA Invariance == Spec => []IInv
  BY InitIInv, NextIInv, PTL DEF Spec

-----------------------------------------------------------------------------
(* What holds in every state, and what no step does.                       *)

\* Rows, bundles, jobs and the debt keep the shapes the code gives them.
THEOREM TypeCorrect == Spec => []TypeOK
<1>1. IInv => TypeOK
  BY DEF IInv
<1>2. QED
  BY <1>1, Invariance, PTL

\* The checks of put_module, delete_module and put_roles, each of its own half,
\* together keep a modular project linkable.
THEOREM LibraryAlwaysLinks == Spec => []LibraryLinks
<1>1. IInv => LibraryLinks
  BY DEF IInv
<1>2. QED
  BY <1>1, Invariance, PTL

\* Under the project lock no bundle of an older store lands on a newer one, and
\* the writes that skip the recompile owe none.
THEOREM BundlesAlwaysMatch == Spec => []BundlesMatchStore
<1>1. IInv => BundlesMatchStore
  BY DEF IInv
<1>2. QED
  BY <1>1, Invariance, PTL

\* Between writes, a project whose second commits did not fail is enforced in
\* one mode.
THEOREM AlwaysOneMode == Spec => []OneMode
<1>1. IInv => OneMode
  <2> SUFFICES ASSUME IInv, lock = Free, debt # "torn"
               PROVE  \A a \in Agents : InMode(agents[a].bundle)
    BY DEF OneMode, InMode
  <2>1. ~\E w \in Writers : Recompiles(w)
    BY OnlyTheHolder DEF Recompiles
  <2>2. QED
    BY <2>1 DEF IInv, BundlesInMode
<1>2. QED
  BY <1>1, Invariance, PTL

\* A live bundle of a modular project is replaced, never taken away: by the
\* rows of the job that commits, or by a restart that only fills gaps.
THEOREM LastGoodAlwaysStays == Spec => LastGoodStays
<1> DEFINE Kept == \A a \in Agents :
                      (Modular /\ Modular' /\ agents[a].bundle # NoBundle)
                          => agents'[a].bundle # NoBundle
<1>1. IInv /\ [Next]_vars => [Kept]_vars
  <2> SUFFICES ASSUME IInv, [Next]_vars, NEW a \in Agents, Modular, agents[a].bundle # NoBundle
               PROVE  agents'[a].bundle # NoBundle
    BY DEF Kept
  <2>1. TypeOK
    BY DEF IInv
  <2>2. CASE Restart
    BY <2>1, <2>2, BackfilledRows DEF Restart
  <2>3. ASSUME NEW w \in Writers, Install(w)
        PROVE  agents'[a].bundle # NoBundle
    <3>1. CASE a \notin DOMAIN job[w].rows
      BY <2>1, <2>3, <3>1, InstallRows
    <3>2. CASE a \in DOMAIN job[w].rows
      <4>1. agents'[a] = job[w].rows[a] /\ Stage(w) = "install" /\ job[w].ok
        BY <2>1, <2>3, <3>2, InstallRows DEF Install
      <4>2. job[w].rows[a].bundle # NoBundle
        BY <3>2, <4>1 DEF IInv, FanoutIsFresh, RowIsFresh
      <4>3. QED
        BY <4>1, <4>2
    <3>3. QED
      BY <3>1, <3>2
  <2>4. CASE UNCHANGED agents
    BY <2>4
  <2>5. Restart \/ (\E w \in Writers : Install(w)) \/ UNCHANGED agents
    BY DEF Next, WriterStep, vars, OpaComesAndGoes, PutModule, DeleteModule, PutRoles, Register,
           UpdateAgent, Prepare, Compile, Keep, InstallFails, Undo, UndoFails
  <2>6. QED
    BY <2>2, <2>3, <2>4, <2>5
<1>2. QED
  BY <1>1, Invariance, PTL DEF Spec, LastGoodStays

-----------------------------------------------------------------------------
(* The refresh of a binding.                                               *)

Accepted(e) ==
    \/ e \in {Wasm(b) : b \in Verified}
    \/ ~strict /\ e \in {Pydantic(y) : y \in Loadable}

SourceLocked == \A r \in Runs : pc[r] \in {"asking", "answered"} <=> sourceLock = r

Responses ==
    \A r \in Runs :
        IF pc[r] = "answered"
        THEN \/ resp[r] = NotModified /\ cache.etag # None
             \/ \E v \in Rows : resp[r] = Full(v)
        ELSE resp[r] = NoResponse

HandsAccepted ==
    \A r \in Runs : IF pc[r] = "fetched" THEN Accepted(hand[r]) ELSE hand[r] = NoEngine

CacheAccepted == Accepted(cache.engine)

RefreshInv ==
    /\ RefreshTypeOK
    /\ CacheIsPaired
    /\ NeverUnverified
    /\ SourceLocked
    /\ Responses
    /\ HandsAccepted
    /\ CacheAccepted

\* An accepted row yields an accepted engine.
LEMMA RowAccepted ==
  ASSUME NEW v \in Rows, Accepts(strict, v)
  PROVE  Engine(v) \in Engines /\ Accepted(Engine(v))
  BY KindsAssumption DEF Rows, Accepts, Engine, Engines, Accepted, Wasm, Pydantic

LEMMA RefreshBegins == RefreshInit => RefreshInv
<1> SUFFICES ASSUME RefreshInit PROVE RefreshInv
  OBVIOUS
<1>1. row \in Rows /\ Accepts(strict, row)
  BY DEF RefreshInit
<1>2. Engine(row) \in Engines /\ Accepted(Engine(row))
  BY <1>1, RowAccepted
<1>3. RefreshTypeOK
  BY <1>1, <1>2 DEF RefreshInit, RefreshTypeOK, Seed, Rows
<1>4. CacheIsPaired
  BY <1>1 DEF RefreshInit, CacheIsPaired, Seed, Rows, Engine
<1>5. NeverUnverified /\ CacheAccepted
  BY <1>2 DEF RefreshInit, NeverUnverified, CacheAccepted, Accepted, Seed
<1>6. SourceLocked /\ Responses /\ HandsAccepted
  BY NoneAssumption DEF RefreshInit, SourceLocked, Responses, HandsAccepted
<1>7. QED
  BY <1>3, <1>4, <1>5, <1>6 DEF RefreshInv

\* What fetch adopts is what the SDK accepts, and the cache it leaves is paired
\* and holds the engine of the payload.
LEMMA AdoptsIsAccepts ==
  ASSUME RefreshInv, NEW v \in Rows
  PROVE  /\ Adopts(v) <=> Accepts(strict, v)
         /\ Adopts(v) => /\ Updated(v).engine = Engine(v)
                         /\ Updated(v) \in [engine : Engines, etag : Bundles \union {None},
                                            yaml : Yamls \union {None}]
<1>1. v.yaml = cache.yaml => v.yaml \in Loadable /\ cache.engine = Pydantic(v.yaml)
  <2> SUFFICES ASSUME v.yaml = cache.yaml
               PROVE  v.yaml \in Loadable /\ cache.engine = Pydantic(v.yaml)
    OBVIOUS
  <2>1. cache.yaml # None
    BY NoneAssumption DEF Rows
  <2>2. cache.engine = Pydantic(v.yaml)
    BY <2>1 DEF RefreshInv, CacheIsPaired
  <2>3. \A b \in Verified : cache.engine # Wasm(b)
    BY <2>2 DEF Wasm, Pydantic
  <2>4. PICK y \in Loadable : cache.engine = Pydantic(y)
    BY <2>3 DEF RefreshInv, CacheAccepted, Accepted
  <2>5. v.yaml = y
    BY <2>2, <2>4 DEF Pydantic
  <2>6. QED
    BY <2>2, <2>5
<1>2. Adopts(v) <=> Accepts(strict, v)
  BY <1>1 DEF Adopts, Accepts
<1>3. Adopts(v) => Updated(v).engine = Engine(v)
  BY <1>1 DEF Adopts, Updated, Engine, RefreshInv, RefreshTypeOK
<1>4. ASSUME Adopts(v)
      PROVE  Updated(v) \in [engine : Engines, etag : Bundles \union {None},
                             yaml : Yamls \union {None}]
  <2>1. Engine(v) \in Engines
    BY <1>2, <1>4, RowAccepted
  <2>2. CASE v.bundle # None
    BY <2>1, <2>2 DEF Updated, Engine, Rows
  <2>3. CASE v.bundle = None /\ v.yaml = cache.yaml
    BY <2>3 DEF Updated, RefreshInv, RefreshTypeOK
  <2>4. CASE v.bundle = None /\ v.yaml # cache.yaml
    BY <2>1, <2>4 DEF Updated, Engine, Rows
  <2>5. QED
    BY <2>2, <2>3, <2>4
<1>5. QED
  BY <1>2, <1>3, <1>4

\* The cache a payload leaves is paired again.
LEMMA UpdatedIsPaired ==
  ASSUME RefreshInv, NEW v \in Rows, Adopts(v), cache' = Updated(v)
  PROVE  CacheIsPaired'
<1> USE DEF CacheIsPaired, Updated
<1>1. CASE v.bundle # None
  BY <1>1
<1>2. CASE v.bundle = None /\ v.yaml = cache.yaml
  BY <1>2 DEF RefreshInv, RefreshTypeOK
<1>3. CASE v.bundle = None /\ v.yaml # cache.yaml
  BY <1>3
<1>4. QED
  BY <1>1, <1>2, <1>3

\* Steps that fetch nothing keep the invariant.
LEMMA RefreshQuiet ==
  ASSUME RefreshInv, NEW r \in Runs, Ask(r) \/ Serve(r) \/ Fail(r)
  PROVE  RefreshInv'
<1> USE NoneAssumption DEF RefreshInv
<1>1. UNCHANGED <<strict, row, cache, hand, enforced>>
  BY DEF Ask, Serve, Fail
<1>2. CacheIsPaired' /\ NeverUnverified' /\ CacheAccepted'
  BY <1>1 DEF CacheIsPaired, NeverUnverified, CacheAccepted, Accepted
<1>3. SourceLocked'
  BY DEF Ask, Serve, Fail, SourceLocked, RefreshTypeOK
<1>4. RefreshTypeOK'
  BY DEF Ask, Serve, Fail, RefreshTypeOK
<1>5. Responses'
  <2>1. CASE Serve(r)
    <3>1. row.bundle = cache.etag /\ row.bundle # None => cache.etag # None
      OBVIOUS
    <3>2. row \in Rows
      BY DEF RefreshTypeOK
    <3>3. QED
      BY <2>1, <3>1, <3>2 DEF Serve, Responses, RefreshTypeOK
  <2>2. CASE Ask(r) \/ Fail(r)
    BY <2>2 DEF Ask, Fail, Responses, RefreshTypeOK
  <2>3. QED
    BY <2>1, <2>2
<1>6. HandsAccepted'
  BY <1>1 DEF Ask, Serve, Fail, HandsAccepted, Accepted, RefreshTypeOK
<1>7. QED
  BY <1>2, <1>3, <1>4, <1>5, <1>6

\* Digesting a response keeps it: the holder of the lock is the only refresh
\* whose response depends on the cache.
LEMMA DigestIInv ==
  ASSUME RefreshInv, NEW r \in Runs, Digest(r)
  PROVE  RefreshInv'
<1> USE NoneAssumption DEF RefreshInv
<1>1. \A q \in Runs : q # r => pc[q] \notin {"asking", "answered"} /\ pc'[q] = pc[q]
  BY DEF Digest, SourceLocked, RefreshTypeOK
<1>2. \A q \in Runs : q # r => resp'[q] = NoResponse /\ hand'[q] = hand[q]
  BY <1>1 DEF Digest, Responses, RefreshTypeOK
<1>3. pc'[r] \in {"idle", "fetched"} /\ resp'[r] = NoResponse /\ sourceLock' = None
  BY DEF Digest, RefreshTypeOK
<1>4. SourceLocked'
  BY <1>1, <1>3 DEF SourceLocked
<1>5. Responses'
  BY <1>1, <1>2, <1>3 DEF Responses
<1>6. NeverUnverified'
  BY DEF Digest, NeverUnverified
<1>7. strict' = strict
  BY DEF Digest
<1>8. CASE cache' = cache /\ pc'[r] = "idle" /\ hand' = hand
  <2>1. hand[r] = NoEngine
    BY DEF Digest, HandsAccepted
  <2>2. HandsAccepted'
    BY <1>1, <1>2, <1>7, <1>8, <2>1 DEF HandsAccepted, Accepted
  <2>3. CacheIsPaired' /\ CacheAccepted'
    BY <1>7, <1>8 DEF CacheIsPaired, CacheAccepted, Accepted
  <2>4. RefreshTypeOK'
    BY <1>8 DEF Digest, RefreshTypeOK
  <2>5. QED
    BY <1>4, <1>5, <1>6, <2>2, <2>3, <2>4
<1>9. CASE /\ pc'[r] = "fetched"
           /\ hand' = [hand EXCEPT ![r] = cache'.engine]
           /\ \/ cache' = cache
              \/ \E v \in Rows : Adopts(v) /\ cache' = Updated(v)
  <2>1. /\ cache' \in [engine : Engines, etag : Bundles \union {None},
                       yaml : Yamls \union {None}]
        /\ Accepted(cache'.engine)
        /\ CacheIsPaired'
    <3>1. CASE cache' = cache
      BY <3>1 DEF RefreshTypeOK, CacheAccepted, CacheIsPaired
    <3>2. CASE \E v \in Rows : Adopts(v) /\ cache' = Updated(v)
      <4>1. PICK v \in Rows : Adopts(v) /\ cache' = Updated(v)
        BY <3>2
      <4>2. Updated(v).engine = Engine(v) /\ Accepted(Engine(v))
        BY <4>1, AdoptsIsAccepts, RowAccepted
      <4>3. Updated(v) \in [engine : Engines, etag : Bundles \union {None},
                            yaml : Yamls \union {None}]
        BY <4>1, AdoptsIsAccepts
      <4>4. CacheIsPaired'
        BY <4>1, UpdatedIsPaired
      <4>5. QED
        BY <4>1, <4>2, <4>3, <4>4
    <3>3. QED
      BY <1>9, <3>1, <3>2
  <2>2. CacheAccepted'
    BY <1>7, <2>1 DEF CacheAccepted, Accepted
  <2>3. hand'[r] = cache'.engine
    BY <1>9 DEF RefreshTypeOK
  <2>4. HandsAccepted'
    BY <1>1, <1>2, <1>7, <1>9, <2>1, <2>3 DEF HandsAccepted, Accepted
  <2>5. RefreshTypeOK'
    BY <1>9, <2>1 DEF Digest, RefreshTypeOK
  <2>6. QED
    BY <1>4, <1>5, <1>6, <2>1, <2>2, <2>4, <2>5
<1>10. \/ cache' = cache /\ pc'[r] = "idle" /\ hand' = hand
       \/ /\ pc'[r] = "fetched"
          /\ hand' = [hand EXCEPT ![r] = cache'.engine]
          /\ \/ cache' = cache
             \/ \E v \in Rows : Adopts(v) /\ cache' = Updated(v)
  <2>1. CASE resp[r].status = "304"
    BY <2>1 DEF Digest, RefreshTypeOK
  <2>2. CASE resp[r].status = "200"
    <3>1. resp[r].body \in Rows
      <4>1. resp[r] = NotModified \/ \E v \in Rows : resp[r] = Full(v)
        BY DEF Digest, Responses
      <4>2. resp[r] # NotModified
        BY <2>2 DEF NotModified
      <4>3. PICK v \in Rows : resp[r] = Full(v)
        BY <4>1, <4>2
      <4>4. QED
        BY <4>3 DEF Full
    <3>2. QED
      BY <2>2, <3>1 DEF Digest, RefreshTypeOK
  <2>3. QED
    BY <2>1, <2>2 DEF Digest
<1>11. QED
  BY <1>8, <1>9, <1>10

LEMMA SwapIInv ==
  ASSUME RefreshInv, NEW r \in Runs, Swap(r)
  PROVE  RefreshInv'
<1> USE NoneAssumption DEF RefreshInv
<1>1. Accepted(hand[r]) /\ hand[r] \in Engines
  BY DEF Swap, HandsAccepted, RefreshTypeOK, NoEngine, Accepted, Wasm, Pydantic
<1>2. NeverUnverified'
  BY <1>1 DEF Swap, NeverUnverified, Accepted
<1>3. RefreshTypeOK'
  BY <1>1 DEF Swap, RefreshTypeOK
<1>4. SourceLocked' /\ CacheIsPaired'
  BY DEF Swap, SourceLocked, CacheIsPaired, RefreshTypeOK
<1>5. CacheAccepted' /\ HandsAccepted'
  BY DEF Swap, CacheAccepted, HandsAccepted, Accepted, RefreshTypeOK
<1>6. Responses'
  BY DEF Swap, Responses, RefreshTypeOK
<1>7. QED
  BY <1>2, <1>3, <1>4, <1>5, <1>6

LEMMA RefreshKeeps == RefreshInv /\ [RefreshNext]_refreshVars => RefreshInv'
<1> SUFFICES ASSUME RefreshInv, [RefreshNext]_refreshVars PROVE RefreshInv'
  OBVIOUS
<1>1. CASE Publish
  BY <1>1 DEF Publish, RefreshInv, RefreshTypeOK, CacheIsPaired, NeverUnverified, SourceLocked,
              Responses, HandsAccepted, CacheAccepted, Accepted
<1>2. CASE \E r \in Runs : RunStep(r)
  BY <1>2, RefreshQuiet, DigestIInv, SwapIInv DEF RunStep
<1>3. CASE UNCHANGED refreshVars
  BY <1>3 DEF refreshVars, RefreshInv, RefreshTypeOK, CacheIsPaired, NeverUnverified, SourceLocked,
              Responses, HandsAccepted, CacheAccepted, Accepted
<1>4. QED
  BY <1>1, <1>2, <1>3 DEF RefreshNext

\* The strengthened invariant holds in every reachable state.
THEOREM RefreshInvariance == RefreshSpec => []RefreshInv
  BY RefreshBegins, RefreshKeeps, PTL DEF RefreshSpec

\* Every variable keeps its type.
THEOREM RefreshTyped == RefreshSpec => []RefreshTypeOK
<1>1. RefreshInv => RefreshTypeOK
  BY DEF RefreshInv
<1>2. QED
  BY <1>1, RefreshInvariance, PTL

\* The ETag and the yaml hash always name the engine they are cached with.
THEOREM CachePaired == RefreshSpec => []CacheIsPaired
<1>1. RefreshInv => CacheIsPaired
  BY DEF RefreshInv
<1>2. QED
  BY <1>1, RefreshInvariance, PTL

\* No refresh, and no interleaving of refreshes, ever enforces a policy that
\* was not verified, nor an unsigned one in strict mode.
THEOREM EnforcedWasVerified == RefreshSpec => []NeverUnverified
<1>1. RefreshInv => NeverUnverified
  BY DEF RefreshInv
<1>2. QED
  BY <1>1, RefreshInvariance, PTL

-----------------------------------------------------------------------------
(* The cached source implements the plain feed.                            *)

\* A refresh whose place, response and engine do not change, and that does not
\* rest on the cache, keeps the same engine in hand.
LEMMA InHandKept ==
  ASSUME NEW q \in Runs, pc'[q] = pc[q], resp'[q] = resp[q], hand'[q] = hand[q],
         strict' = strict, pc[q] = "answered" => cache' = cache
  PROVE  InHand(q)' = InHand(q)
  BY DEF InHand, Accepts

LEMMA QuietRefines ==
  ASSUME RefreshInv, NEW r \in Runs, Ask(r) \/ Fail(r)
  PROVE  UNCHANGED Feed!vars
<1>1. \A q \in Runs : q # r => InHand(q)' = InHand(q)
  BY InHandKept DEF Ask, Fail, RefreshInv, RefreshTypeOK
<1>2. InHand(r) = NoEngine /\ InHand(r)' = NoEngine
  BY DEF InHand, Ask, Fail, RefreshInv, RefreshTypeOK
<1>3. [q \in Runs |-> InHand(q)]' = [q \in Runs |-> InHand(q)]
  BY <1>1, <1>2
<1>4. QED
  BY <1>3 DEF Feed!vars, Ask, Fail

\* A served row the SDK will take is what the refresh then has in hand, whether
\* it came whole or as a 304; one it will refuse leaves it with nothing.
LEMMA ServeRefines ==
  ASSUME RefreshInv, NEW r \in Runs, Serve(r)
  PROVE  [Feed!Next]_(Feed!vars)
<1> DEFINE hands == [q \in Runs |-> InHand(q)]
<1> USE DEF RefreshInv
<1>1. row \in Rows /\ UNCHANGED <<strict, row, cache, hand, enforced>>
  BY DEF Serve, RefreshTypeOK
<1>2. \A q \in Runs : q # r => InHand(q)' = InHand(q)
  BY <1>1, InHandKept DEF Serve, RefreshTypeOK
<1>3. InHand(r) = NoEngine /\ pc'[r] = "answered"
  BY DEF Serve, InHand, RefreshTypeOK
<1>4. CASE Accepts(strict, row)
  <2>1. InHand(r)' = Engine(row)
    <3>1. CASE row.bundle # None /\ row.bundle = cache.etag
      <4>1. cache.engine = Engine(row)
        BY <3>1 DEF CacheIsPaired, Engine
      <4>2. resp'[r].status = "304"
        BY <3>1 DEF Serve, RefreshTypeOK, NotModified
      <4>3. QED
        BY <1>1, <1>3, <4>1, <4>2 DEF InHand
    <3>2. CASE ~(row.bundle # None /\ row.bundle = cache.etag)
      <4>1. resp'[r] = Full(row)
        BY <3>2 DEF Serve, RefreshTypeOK
      <4>2. resp'[r].status = "200" /\ resp'[r].body = row
        BY <4>1 DEF Full
      <4>3. QED
        BY <1>1, <1>3, <1>4, <4>2 DEF InHand, Accepts
    <3>3. QED
      BY <3>1, <3>2
  <2>2. hands' = [hands EXCEPT ![r] = Engine(row)]
    BY <1>2, <2>1
  <2>3. Feed!Read(r)
    BY <1>1, <1>3, <1>4, <2>2 DEF Feed!Read
  <2>4. QED
    BY <2>3 DEF Feed!Next
<1>5. CASE ~Accepts(strict, row)
  <2>1. ~(row.bundle # None /\ row.bundle = cache.etag)
    <3>1. SUFFICES ASSUME row.bundle # None, row.bundle = cache.etag
                   PROVE  row.bundle \in Verified
      BY <1>5 DEF Accepts
    <3>2. cache.engine = Wasm(row.bundle)
      BY <3>1 DEF CacheIsPaired
    <3>3. \A y \in Loadable : cache.engine # Pydantic(y)
      BY <3>2 DEF Wasm, Pydantic
    <3>4. PICK b \in Verified : cache.engine = Wasm(b)
      BY <3>3 DEF CacheAccepted, Accepted
    <3>5. QED
      BY <3>2, <3>4 DEF Wasm
  <2>2. resp'[r] = Full(row)
    BY <2>1 DEF Serve, RefreshTypeOK
  <2>3. resp'[r].status = "200" /\ resp'[r].body = row
    BY <2>2 DEF Full
  <2>4. InHand(r)' = NoEngine
    BY <1>1, <1>3, <1>5, <2>3 DEF InHand, Accepts
  <2>5. hands' = hands
    BY <1>2, <1>3, <2>4
  <2>6. QED
    BY <1>1, <2>5 DEF Feed!vars
<1>6. QED
  BY <1>4, <1>5

\* Digesting a response moves the engine in hand from the response to the
\* refresh: to the feed it is a stutter, for this refresh and for the others.
LEMMA DigestRefines ==
  ASSUME RefreshInv, NEW r \in Runs, Digest(r)
  PROVE  UNCHANGED Feed!vars
<1> USE NoneAssumption DEF RefreshInv
<1>1. \A q \in Runs : q # r => pc[q] # "answered" /\ pc'[q] = pc[q]
                               /\ resp'[q] = resp[q] /\ hand'[q] = hand[q]
  BY DEF Digest, SourceLocked, RefreshTypeOK
<1>2. strict' = strict /\ row' = row /\ enforced' = enforced
  BY DEF Digest
<1>3. \A q \in Runs : q # r => InHand(q)' = InHand(q)
  BY <1>1, <1>2, InHandKept
<1>4. InHand(r)' = InHand(r)
  <2>1. CASE resp[r].status = "304"
    <3>1. InHand(r) = cache.engine
      BY <2>1 DEF InHand, Digest
    <3>2. pc'[r] = "fetched" /\ hand'[r] = cache.engine
      BY <2>1 DEF Digest, RefreshTypeOK
    <3>3. QED
      BY <3>1, <3>2 DEF InHand
  <2>2. CASE resp[r].status = "200"
    <3>1. resp[r] = NotModified \/ \E v \in Rows : resp[r] = Full(v)
      BY DEF Digest, Responses
    <3>2. resp[r] # NotModified
      BY <2>2 DEF NotModified
    <3>3. PICK v \in Rows : resp[r] = Full(v)
      BY <3>1, <3>2
    <3>4. resp[r].body = v
      BY <3>3 DEF Full
    <3>5. CASE Adopts(v)
      <4>1. Accepts(strict, v) /\ Updated(v).engine = Engine(v)
        BY <3>5, AdoptsIsAccepts
      <4>2. InHand(r) = Engine(v)
        BY <2>2, <3>4, <4>1 DEF InHand, Digest
      <4>3. pc'[r] = "fetched" /\ hand'[r] = cache'.engine /\ cache' = Updated(v)
        BY <2>2, <3>4, <3>5 DEF Digest, RefreshTypeOK
      <4>4. QED
        BY <4>1, <4>2, <4>3 DEF InHand
    <3>6. CASE ~Adopts(v)
      <4>1. ~Accepts(strict, v)
        BY <3>6, AdoptsIsAccepts
      <4>2. InHand(r) = NoEngine
        BY <2>2, <3>4, <4>1 DEF InHand, Digest
      <4>3. pc'[r] = "idle"
        BY <2>2, <3>4, <3>6 DEF Digest, RefreshTypeOK
      <4>4. QED
        BY <4>2, <4>3 DEF InHand
    <3>7. QED
      BY <3>5, <3>6
  <2>3. QED
    BY <2>1, <2>2 DEF Digest
<1>5. [q \in Runs |-> InHand(q)]' = [q \in Runs |-> InHand(q)]
  BY <1>3, <1>4
<1>6. QED
  BY <1>2, <1>5 DEF Feed!vars

LEMMA SwapRefines ==
  ASSUME RefreshInv, NEW r \in Runs, Swap(r)
  PROVE  Feed!Next
<1> DEFINE hands == [q \in Runs |-> InHand(q)]
<1> USE DEF RefreshInv
<1>1. \A q \in Runs : q # r => InHand(q)' = InHand(q)
  BY InHandKept DEF Swap, RefreshTypeOK
<1>2. InHand(r) = hand[r] /\ InHand(r)' = NoEngine
  BY DEF InHand, Swap, RefreshTypeOK
<1>3. hand[r] # NoEngine
  BY DEF Swap, HandsAccepted, Accepted, Wasm, Pydantic, NoEngine
<1>4. hands' = [hands EXCEPT ![r] = NoEngine]
  BY <1>1, <1>2
<1>5. Feed!Swap(r)
  BY <1>2, <1>3, <1>4 DEF Feed!Swap, Swap
<1>6. QED
  BY <1>5 DEF Feed!Next

\* With its cache, ETags, hashes and lock, the source cannot be told from one
\* that downloads and checks the whole policy on every refresh.
THEOREM ImplementsFeed == RefreshSpec => FeedSpec
<1>1. RefreshInit => Feed!Init
  <2> SUFFICES ASSUME RefreshInit PROVE Feed!Init
    OBVIOUS
  <2>1. \A r \in Runs : InHand(r) = NoEngine
    BY DEF RefreshInit, InHand
  <2>2. QED
    BY <2>1 DEF RefreshInit, Feed!Init
<1>2. RefreshInv /\ [RefreshNext]_refreshVars => [Feed!Next]_(Feed!vars)
  <2> SUFFICES ASSUME RefreshInv, [RefreshNext]_refreshVars PROVE [Feed!Next]_(Feed!vars)
    OBVIOUS
  <2>1. CASE Publish
    <3>1. \A r \in Runs : InHand(r)' = InHand(r)
      BY <2>1, InHandKept DEF Publish
    <3>2. [r \in Runs |-> InHand(r)]' = [r \in Runs |-> InHand(r)]
      BY <3>1
    <3>3. Feed!Publish
      BY <2>1, <3>2 DEF Publish, Feed!Publish
    <3>4. QED
      BY <3>3 DEF Feed!Next
  <2>2. CASE \E r \in Runs : RunStep(r)
    BY <2>2, QuietRefines, ServeRefines, DigestRefines, SwapRefines DEF RunStep
  <2>3. CASE UNCHANGED refreshVars
    <3>1. \A r \in Runs : InHand(r)' = InHand(r)
      BY <2>3, InHandKept DEF refreshVars
    <3>2. [r \in Runs |-> InHand(r)]' = [r \in Runs |-> InHand(r)]
      BY <3>1
    <3>3. QED
      BY <2>3, <3>2 DEF refreshVars, Feed!vars
  <2>4. QED
    BY <2>1, <2>2, <2>3 DEF RefreshNext
<1>3. QED
  BY <1>1, <1>2, RefreshInvariance, PTL DEF RefreshSpec, FeedSpec, Feed!Spec
=============================================================================

---------------------------- MODULE Connections ----------------------------
(***************************************************************************)
(* The connection store (pipeline/connections.py), the cached overlay that *)
(* replaces its share of the environment, the toggles in config.json       *)
(* (pipeline/config_store.py), the endpoints that write them               *)
(* (api/routers/connections.py, config.py), the startup import of .env, a  *)
(* run that reads them, and the key rotation of another process.           *)
(***************************************************************************)
EXTENDS Integers, FiniteSets

CONSTANTS
  Ids,        \* connection ids: each a source the collectors know
  Names,      \* the names of the secrets of a connection
  Threads,    \* requests and runs inside the API process
  None,
  Env,        \* ids that .env declares
  Rejected,   \* those of Env whose declaration cannot be stored
  Ops,        \* requests used in this instance
  MaxOps, MaxFaults, MaxCrashes   \* bounds

ASSUME IdAssumption == Rejected \subseteq Env /\ Env \subseteq Ids
ASSUME NoneAssumption == None \notin Threads
ASSUME BoundAssumption == MaxOps \in Nat /\ MaxFaults \in Nat /\ MaxCrashes \in Nat

VARIABLES
  live, secrets, tombs,   \* the Connection and Tombstone tables
  toggles,                \* config.json, active_sources
  up,
  retained,               \* _unseeded
  version,                \* _version
  cache,                  \* _overlay_cache
  writeLock,              \* _write_lock
  overlayLock,            \* _overlay_lock
  fileLock,               \* config_store._lock
  job,                    \* where each thread is, and its locals
  cli,                    \* python -m pipeline.crypto rotate
  tally,                  \* how many requests, faults and crashes there were
  gone,                   \* ghost: the request that deleted an id last, 0 if it was created since
  deleted,                \* ghost: ids whose last answered create or delete was a delete
  overtaken,              \* ghost: ids deleted or created while another create of them ran
  stored,                 \* ghost: the secrets as the last acknowledged writes left them
  run                     \* ghost: what the last run collected from

tables == <<live, secrets, tombs>>
process == <<up, retained, version, cache, writeLock, overlayLock>>
fates == <<gone, deleted, overtaken>>
ghosts == <<fates, stored, run>>
vars == <<tables, toggles, process, fileLock, job, cli, tally, ghosts>>

-----------------------------------------------------------------------------
(* Records *)

Envelope == [Names -> Nat]
Blank == [n \in Names |-> 0]
Store == [live : SUBSET Ids, secrets : [Ids -> Envelope]]
NoStore == [live |-> {}, secrets |-> [x \in Ids |-> Blank]]
Toggle == {"on", "off", "unset"}
Unset == [x \in Ids |-> "unset"]

\* The points where a thread asks for the overlay, and where it goes on with it.
Return == [ask |-> "known", toggle |-> "toggled", load |-> "loaded", save |-> "saved",
           snap |-> "plan"]
\* The points after a commit, while the write lock is held, and what follows.
After == [created |-> "ask", deleted |-> "forget", updated |-> "idle", undone |-> "untomb"]
\* The points where a thread waits for the file lock, and what it does under it.
Under == [switch |-> "toggle", get |-> "load", put |-> "save"]
\* A create between its commit and its answer, and from its read of the tombstones on.
Made == {"created", "ask", "known", "switch", "toggle", "toggled", "undo", "undone", "untomb"}
Making == Made \cup {"create"}

Pc == {"idle", "create", "known", "toggled", "undo", "untomb", "delete", "forget", "update",
       "merge", "loaded", "page", "saved", "plan"}
      \cup DOMAIN Return \cup DOMAIN After \cup DOMAIN Under

\* seen, build and got are overlay_provider's locals; file is the config file or
\* page a thread has read.
Job == [pc : Pc, id : Ids \cup {None}, name : Names \cup {None}, value : Nat, had : BOOLEAN,
        build : {"no", "read", "built"}, seen : Nat, got : Store, known : SUBSET Ids,
        file : [Ids -> Toggle], read : Envelope, gone : [Ids -> Nat]]
NoJob == [pc |-> "idle", id |-> None, name |-> None, value |-> 0, had |-> FALSE,
          build |-> "no", seen |-> 0, got |-> NoStore, known |-> {},
          file |-> Unset, read |-> Blank, gone |-> [x \in Ids |-> 0]]

NoCache == [version |-> -1, known |-> {}, secrets |-> NoStore.secrets]
NoCli == [on |-> FALSE, locked |-> FALSE, read |-> NoStore.secrets]

Holds(t, pcs) == job[t].pc \in pcs
Go(t, pc) == job' = [job EXCEPT ![t].pc = pc]
Done(t) == job' = [job EXCEPT ![t] = NoJob]

Init ==
  /\ live = {} /\ secrets = NoStore.secrets /\ tombs = {}
  /\ toggles = Unset
  /\ up = FALSE /\ retained = {} /\ version = 0 /\ cache = NoCache
  /\ writeLock = None /\ overlayLock = None /\ fileLock = None
  /\ job = [t \in Threads |-> NoJob]
  /\ cli = NoCli
  /\ tally = [ops |-> 0, faults |-> 0, crashes |-> 0]
  /\ gone = [x \in Ids |-> 0] /\ deleted = {} /\ overtaken = {}
  /\ stored = NoStore.secrets /\ run = {}

Fault ==
  /\ tally.faults < MaxFaults
  /\ tally' = [tally EXCEPT !.faults = tally.faults + 1]

\* A request arrives at an idle thread.
Start(t, op) ==
  /\ up /\ job[t].pc = "idle"
  /\ op \in Ops /\ tally.ops < MaxOps
  /\ tally' = [tally EXCEPT !.ops = tally.ops + 1]

Value == tally.ops + 1

\* The threads, other than t, at one of the points pcs of a request about x.
Others(t, x, pcs) == {u \in Threads \ {t} : Holds(u, pcs) /\ job[u].id = x}

-----------------------------------------------------------------------------
(* connections.py: writes *)

\* The store's writers hold _write_lock; another process's transaction is waited for.
MayWrite == writeLock = None /\ ~cli.locked

\* create() of a request: tables, and the tombstone cleared.
CreateCommit(t) ==
  /\ job[t].pc = "create" /\ MayWrite
  /\ LET x == job[t].id
     IN IF x \in live
        THEN Done(t) /\ UNCHANGED <<tables, writeLock, gone, stored>>
        ELSE /\ live' = live \cup {x}
             /\ secrets' = [secrets EXCEPT ![x] = [n \in Names |-> job[t].value]]
             /\ tombs' = tombs \ {x}
             /\ writeLock' = t
             /\ Go(t, "created")
             /\ gone' = [gone EXCEPT ![x] = 0]
             /\ stored' = [stored EXCEPT ![x] = [n \in Names |-> job[t].value]]
  /\ UNCHANGED <<toggles, up, retained, version, cache, overlayLock, fileLock, cli, tally, deleted,
                 overtaken, run>>

\* Mutant of Tombstoned: no tombstone for an id that came from .env.
TombstonedUI(x) == IF x \in Env THEN tombs ELSE tombs \cup {x}

Tombstoned(x) == tombs \cup {x}

\* delete(): the row goes, a tombstone stays.
Remove(t, x, next) ==
  /\ live' = live \ {x}
  /\ secrets' = [secrets EXCEPT ![x] = Blank]
  /\ tombs' = Tombstoned(x)
  /\ writeLock' = t
  /\ Go(t, next)
  /\ stored' = [stored EXCEPT ![x] = Blank]

DeleteCommit(t) ==
  /\ job[t].pc = "delete" /\ MayWrite
  /\ LET x == job[t].id
     IN IF x \in live
        THEN /\ Remove(t, x, "deleted")
             /\ gone' = [gone EXCEPT ![x] = job[t].value]
             /\ deleted' = deleted \cup {x}
             /\ overtaken' = IF Others(t, x, Making) = {} THEN overtaken \ {x} ELSE overtaken \cup {x}
        ELSE Done(t) /\ UNCHANGED <<tables, writeLock, fates, stored>>
  /\ UNCHANGED <<toggles, up, retained, version, cache, overlayLock, fileLock, cli, tally, run>>

\* update(): the envelope is read, merged and written under the lock.
UpdateRead(t) ==
  /\ job[t].pc = "update" /\ writeLock = None
  /\ IF job[t].id \in live
     THEN /\ writeLock' = t
          /\ job' = [job EXCEPT ![t].pc = "merge", ![t].read = secrets[job[t].id]]
     ELSE Done(t) /\ UNCHANGED writeLock
  /\ UNCHANGED <<tables, toggles, up, retained, version, cache, overlayLock, fileLock, cli, tally, ghosts>>

\* Mutant of Merged: the secrets sent replace the envelope.
MergedAll(t) == [n \in Names |-> IF n = job[t].name THEN job[t].value ELSE 0]

Merged(t) == [job[t].read EXCEPT ![job[t].name] = job[t].value]

UpdateCommit(t) ==
  /\ job[t].pc = "merge" /\ ~cli.locked
  /\ secrets' = [secrets EXCEPT ![job[t].id] = Merged(t)]
  /\ stored' = [stored EXCEPT ![job[t].id][job[t].name] = job[t].value]
  /\ Go(t, "updated")
  /\ UNCHANGED <<live, tombs, toggles, process, fileLock, cli, tally, fates, run>>

\* Mutant of Bumped: deletions do not bump.
BumpedByWrites(t) == IF job[t].pc = "deleted" THEN version ELSE version + 1

Bumped(t) == version + 1

\* _bump, still under the lock.
Bump(t) ==
  /\ job[t].pc \in DOMAIN After
  /\ version' = Bumped(t)
  /\ writeLock' = None
  /\ IF After[job[t].pc] = "idle" THEN Done(t) ELSE Go(t, After[job[t].pc])
  /\ UNCHANGED <<tables, toggles, up, retained, cache, overlayLock, fileLock, cli, tally, ghosts>>

-----------------------------------------------------------------------------
(* connections.overlay_provider, read by every env() *)

OverlayHit(t) ==
  /\ job[t].pc \in DOMAIN Return /\ job[t].build = "no"
  /\ overlayLock = None /\ cache.version = version
  /\ job' = [job EXCEPT ![t].pc = Return[job[t].pc], ![t].known = cache.known]
  /\ UNCHANGED <<tables, toggles, process, fileLock, cli, tally, ghosts>>

\* The version is read before the build.
OverlayMiss(t) ==
  /\ job[t].pc \in DOMAIN Return /\ job[t].build = "no"
  /\ overlayLock = None /\ cache.version # version
  /\ overlayLock' = t
  /\ job' = [job EXCEPT ![t].build = "read", ![t].seen = version]
  /\ UNCHANGED <<tables, toggles, up, retained, version, cache, writeLock, fileLock, cli, tally, ghosts>>

\* materialize
OverlayBuild(t) ==
  /\ job[t].build = "read"
  /\ job' = [job EXCEPT ![t].build = "built", ![t].got = [live |-> live, secrets |-> secrets]]
  /\ UNCHANGED <<tables, toggles, process, fileLock, cli, tally, ghosts>>

\* _live_unseeded: a row or a tombstone ends the retention.
LiveUnseeded == retained \ (live \cup tombs)

\* Mutant of BuiltAt: the version is read after the build.
BuiltLate(t) == version

BuiltAt(t) == job[t].seen

OverlayStore(t) ==
  /\ job[t].build = "built"
  /\ retained' = LiveUnseeded
  /\ LET known == job[t].got.live \cup LiveUnseeded
     IN /\ cache' = [version |-> BuiltAt(t), known |-> known, secrets |-> job[t].got.secrets]
        /\ job' = [job EXCEPT ![t].pc = Return[job[t].pc], ![t].known = known,
                              ![t].build = "no", ![t].seen = 0, ![t].got = NoStore]
  /\ overlayLock' = None
  /\ UNCHANGED <<tables, toggles, up, version, writeLock, fileLock, cli, tally, ghosts>>

-----------------------------------------------------------------------------
(* config_store.py *)

\* Mutant of FileFree: load and save do not share one hold of the lock.
FileAlways == TRUE

FileFree == fileLock = None

\* set_source_active, load_config and save_config take the lock, read the file
\* (save takes the page) and ask for the known sources.
LockFile(t) ==
  /\ job[t].pc \in DOMAIN Under /\ FileFree
  /\ fileLock' = t
  /\ job' = [job EXCEPT ![t].pc = Under[job[t].pc],
                        ![t].file = IF job[t].pc = "put" THEN job[t].file ELSE toggles]
  /\ UNCHANGED <<tables, toggles, process, cli, tally, ghosts>>

\* _merge: the known sources, on unless the file says off.
Config(t) ==
  [x \in Ids |-> IF x \notin job[t].known THEN "unset"
                 ELSE IF job[t].file[x] = "off" THEN "off" ELSE "on"]

\* forget_source works on the raw file; the watermark reset that follows is in Runner.
Forget(t) ==
  /\ job[t].pc = "forget" /\ fileLock = None
  /\ toggles' = [toggles EXCEPT ![job[t].id] = "unset"]
  /\ Done(t)
  /\ UNCHANGED <<tables, process, fileLock, cli, tally, ghosts>>

-----------------------------------------------------------------------------
(* POST /connections *)

\* The tombstones are read before the create.
CreateStart(t) ==
  /\ Start(t, "create")
  /\ \E x \in Ids :
       /\ job' = [job EXCEPT ![t] =
            [NoJob EXCEPT !.pc = "create", !.id = x, !.value = Value, !.had = x \in tombs]]
       /\ overtaken' = IF Others(t, x, Making) = {} THEN overtaken ELSE overtaken \cup {x}
  /\ UNCHANGED <<tables, toggles, process, fileLock, cli, gone, deleted, stored, run>>

\* Mutant of Refused: the create asks again until its id is known.
AskedAgain == "ask"

Refused == "undo"

\* Membership first: an id that is not known could not be switched off.
CreateKnown(t) ==
  /\ job[t].pc = "known"
  /\ Go(t, IF job[t].id \in job[t].known THEN "switch" ELSE Refused)
  /\ UNCHANGED <<tables, toggles, process, fileLock, cli, tally, ghosts>>

\* set_source_active(id, False): the new connection is off, the request is answered.
SwitchOff(t) ==
  /\ job[t].pc = "toggled"
  /\ fileLock' = None
  /\ IF job[t].id \in job[t].known
     THEN /\ toggles' = [Config(t) EXCEPT ![job[t].id] = "off"]
          /\ deleted' = deleted \ {job[t].id}
          /\ Done(t)
     ELSE toggles' = Config(t) /\ Go(t, "undo") /\ UNCHANGED deleted
  /\ UNCHANGED <<tables, process, cli, tally, gone, overtaken, stored, run>>

\* Mutant of Released: the lock is not released when the write fails.
KeptFile == fileLock

Released == None

\* The file cannot be written.
FileFails(t) ==
  /\ Fault
  /\ \/ job[t].pc = "toggled" /\ Go(t, "undo")
     \/ job[t].pc = "saved" /\ Done(t)
  /\ fileLock' = Released
  /\ UNCHANGED <<tables, toggles, process, cli, ghosts>>

\* _roll_back_create: connections.delete, then the tombstone, unless there was one.
Undo(t) ==
  /\ job[t].pc = "undo" /\ MayWrite
  /\ IF job[t].id \in live
     THEN Remove(t, job[t].id, "undone")
     ELSE Go(t, "untomb") /\ UNCHANGED <<tables, writeLock, stored>>
  /\ UNCHANGED <<toggles, up, retained, version, cache, overlayLock, fileLock, cli, tally, fates, run>>

\* Mutant of Untombed: the tombstone goes whether or not there was one before.
UntombedAlways(t) == tombs \ {job[t].id}

Untombed(t) == IF job[t].had THEN tombs ELSE tombs \ {job[t].id}

\* Whoever wrote the tombstone.  With a tombstone from before, the id is deleted again.
Untomb(t) ==
  /\ job[t].pc = "untomb" /\ ~cli.locked
  /\ tombs' = Untombed(t)
  /\ gone' = [gone EXCEPT ![job[t].id] =
       IF job[t].had /\ job[t].id \in tombs THEN job[t].value ELSE @]
  /\ Done(t)
  /\ UNCHANGED <<live, secrets, toggles, process, fileLock, cli, tally, deleted, overtaken, stored, run>>

-----------------------------------------------------------------------------
(* The other requests, and a run *)

\* DELETE /connections/{id}
DeleteStart(t) ==
  /\ Start(t, "delete")
  /\ \E x \in live : job' = [job EXCEPT ![t] =
       [NoJob EXCEPT !.pc = "delete", !.id = x, !.value = Value]]
  /\ UNCHANGED <<tables, toggles, process, fileLock, cli, ghosts>>

\* PATCH /connections/{id}, or a sign-in that stores its token (set_secret).
UpdateStart(t) ==
  /\ Start(t, "update")
  /\ \E x \in live, n \in Names : job' = [job EXCEPT ![t] =
       [NoJob EXCEPT !.pc = "update", !.id = x, !.name = n, !.value = Value]]
  /\ UNCHANGED <<tables, toggles, process, fileLock, cli, ghosts>>

\* GET /config: the page shows every known source with its toggle.
PageStart(t) ==
  /\ Start(t, "page")
  /\ job' = [job EXCEPT ![t] = [NoJob EXCEPT !.pc = "get"]]
  /\ UNCHANGED <<tables, toggles, process, fileLock, cli, ghosts>>

PageLoaded(t) ==
  /\ job[t].pc = "loaded"
  /\ fileLock' = None
  /\ job' = [job EXCEPT ![t].pc = "page", ![t].file = Config(t), ![t].known = {}]
  /\ UNCHANGED <<tables, toggles, process, cli, tally, ghosts>>

\* The user flips one toggle of the page; PUT /config sends the whole page.
PageFlip(t) ==
  /\ job[t].pc = "page"
  /\ \E x \in Ids :
       /\ job[t].file[x] # "unset"
       /\ job' = [job EXCEPT ![t].pc = "put", ![t].id = x,
                    ![t].file = [job[t].file EXCEPT ![x] = IF @ = "on" THEN "off" ELSE "on"]]
  /\ UNCHANGED <<tables, toggles, process, fileLock, cli, tally, ghosts>>

PageLeft(t) ==
  /\ job[t].pc = "page"
  /\ Done(t)
  /\ UNCHANGED <<tables, toggles, process, fileLock, cli, tally, ghosts>>

PageSaved(t) ==
  /\ job[t].pc = "saved"
  /\ toggles' = Config(t)
  /\ fileLock' = None
  /\ Done(t)
  /\ UNCHANGED <<tables, process, cli, tally, fates, stored, run>>

\* Deletions that have been answered, where no removal by a rollback waits for its bump.
Answered ==
  [x \in Ids |-> IF \E t \in Threads : Holds(t, {"deleted", "forget", "undone"}) /\ job[t].id = x
                 THEN 0 ELSE gone[x]]

\* A run freezes the environment (env_snapshot), then loads the toggles.
RunStart(t) ==
  /\ up /\ job[t].pc = "idle" /\ "run" \in Ops
  /\ job' = [job EXCEPT ![t] = [NoJob EXCEPT !.pc = "snap", !.gone = Answered]]
  /\ run' = {}
  /\ UNCHANGED <<tables, toggles, process, fileLock, cli, tally, fates, stored>>

\* load_config needs no overlay here: the snapshot answers.
RunPlan(t) ==
  /\ job[t].pc = "plan" /\ fileLock = None
  /\ run' = {x \in job[t].known : toggles[x] # "off"}
  /\ Done(t)
  /\ UNCHANGED <<tables, toggles, process, fileLock, cli, tally, fates, stored>>

-----------------------------------------------------------------------------
(* Startup, and the other process *)

Seedable == (Env \ Rejected) \ (live \cup tombs)

\* seed_from_env: one create per declaration, each with its own commit.
Seed ==
  /\ ~up /\ ~cli.locked
  /\ \E x \in Seedable : live' = live \cup {x}
  /\ UNCHANGED <<secrets, tombs, toggles, process, fileLock, job, cli, tally, ghosts>>

Startup ==
  /\ ~up /\ Seedable = {}
  /\ up' = TRUE
  /\ retained' = Rejected \ (live \cup tombs)
  /\ UNCHANGED <<tables, toggles, version, cache, writeLock, overlayLock, fileLock, job, cli, tally, ghosts>>

\* What is left is on disk, a create without an answer included; the lifespan
\* starts from nothing.
Crash ==
  /\ up /\ tally.crashes < MaxCrashes
  /\ tally' = [tally EXCEPT !.crashes = tally.crashes + 1]
  /\ up' = FALSE /\ retained' = {} /\ version' = 0 /\ cache' = NoCache
  /\ writeLock' = None /\ overlayLock' = None /\ fileLock' = None
  /\ job' = [t \in Threads |-> NoJob]
  /\ run' = {}
  /\ deleted' = {x \in deleted : ~\E t \in Threads : Holds(t, Made) /\ job[t].id = x}
  /\ UNCHANGED <<tables, toggles, cli, gone, overtaken, stored>>

\* Mutant of Immediate: no BEGIN IMMEDIATE before the read.
Deferred == FALSE

Immediate == TRUE

\* rotate_all reads every envelope after BEGIN IMMEDIATE ...
RotateRead ==
  /\ ~cli.on /\ "rotate" \in Ops /\ tally.ops < MaxOps
  /\ tally' = [tally EXCEPT !.ops = tally.ops + 1]
  /\ cli' = [on |-> TRUE, locked |-> Immediate, read |-> secrets]
  /\ UNCHANGED <<tables, toggles, process, fileLock, job, ghosts>>

\* ... and writes them all under the new key, or none.
RotateEnd ==
  /\ cli.on
  /\ \/ secrets' = [x \in Ids |-> IF x \in live THEN cli.read[x] ELSE secrets[x]]
     \/ UNCHANGED secrets
  /\ cli' = NoCli
  /\ UNCHANGED <<live, tombs, toggles, process, fileLock, job, tally, ghosts>>

-----------------------------------------------------------------------------

Arrival(t) ==
  \/ CreateStart(t) \/ DeleteStart(t) \/ UpdateStart(t)
  \/ PageStart(t) \/ PageFlip(t) \/ PageLeft(t) \/ RunStart(t)

Step(t) ==
  \/ CreateCommit(t) \/ DeleteCommit(t) \/ UpdateRead(t) \/ UpdateCommit(t) \/ Bump(t)
  \/ OverlayHit(t) \/ OverlayMiss(t) \/ OverlayBuild(t) \/ OverlayStore(t)
  \/ LockFile(t) \/ Forget(t)
  \/ CreateKnown(t) \/ SwitchOff(t) \/ Undo(t) \/ Untomb(t)
  \/ PageLoaded(t) \/ PageSaved(t) \/ RunPlan(t)

Next ==
  \/ \E t \in Threads : Arrival(t) \/ Step(t) \/ FileFails(t)
  \/ Seed \/ Startup \/ Crash \/ RotateRead \/ RotateEnd

Spec == Init /\ [][Next]_vars

\* The threads of the API are scheduled, the command ends; the user owes nothing.
Fairness == WF_vars(RotateEnd) /\ \A t \in Threads : WF_vars(Step(t))

FairSpec == Spec /\ Fairness

-----------------------------------------------------------------------------
(* Properties *)

\* Every variable keeps its type, and each lock belongs to a thread at a point
\* that holds it.
TypeOK ==
  /\ live \subseteq Ids /\ tombs \subseteq Ids /\ secrets \in [Ids -> Envelope]
  /\ toggles \in [Ids -> Toggle]
  /\ up \in BOOLEAN /\ retained \subseteq Ids /\ version \in Nat
  /\ cache \in [version : Int, known : SUBSET Ids, secrets : [Ids -> Envelope]]
  /\ job \in [Threads -> Job]
  /\ cli \in [on : BOOLEAN, locked : BOOLEAN, read : [Ids -> Envelope]]
  /\ tally \in [ops : Nat, faults : Nat, crashes : Nat]
  /\ gone \in [Ids -> Nat] /\ deleted \subseteq Ids /\ overtaken \subseteq Ids /\ stored \in [Ids -> Envelope]
  /\ run \subseteq Ids
  /\ {writeLock, overlayLock, fileLock} \subseteq Threads \cup {None}
  /\ \A t \in Threads :
       /\ writeLock = t <=> Holds(t, {"merge"} \cup DOMAIN After)
       /\ overlayLock = t <=> job[t].build # "no"
       /\ fileLock = t <=> Holds(t, {"toggle", "toggled", "load", "loaded", "save", "saved"})

\* An overlay under the current version is what the store and the retained
\* declarations say, unless a write is between its commit and its bump
\* (overlay_provider: "the next call rebuilds instead of serving a stale overlay").
OverlayFresh ==
  cache.version = version /\ writeLock = None =>
    /\ cache.known = live \cup LiveUnseeded
    /\ \A x \in live : cache.secrets[x] = secrets[x]

\* A connection whose deletion was answered has no row, and a tombstone that keeps
\* .env from bringing it back at any later start, until a create of it is answered:
\* creates that fail and are rolled back, crashes and imports included.  Not so when
\* requests about the same id overlapped a create of it, whose rollback goes by the
\* tombstones it read before: it then removes the tombstone of the other request.
DeletedStaysDeleted ==
  \A x \in deleted \ overtaken :
    (\A t \in Threads : ~(Holds(t, Made) /\ job[t].id = x)) => x \notin live /\ x \in tombs

\* No acknowledged secret is lost to another request's merge or to a rotation.
SecretsKept == secrets = stored

\* A connection whose deletion was answered before a run started, and not created since, is not
\* collected from by that run, whatever the cache and .env still hold (but for the
\* overlapping creates of DeletedStaysDeleted).
DeletedNotCollected ==
  [][\A t \in Threads, x \in Ids \ overtaken :
       job[t].pc = "plan" /\ job'[t] # job[t] /\ job[t].gone[x] # 0 /\ job[t].gone[x] = gone[x]
         => x \notin run']_vars

\* No source that is switched off is on again behind its user's back: its toggle goes
\* with its deletion, with a source the writer does not know, or in a page that does not
\* show it as off.  (A page is written as it was loaded: what was switched off since then
\* is lost.  A create reads, merges and writes under one lock and loses nothing.)
TogglesKept ==
  [][\A t \in Threads, x \in Ids :
       toggles[x] = "off" /\ toggles'[x] # "off" /\ job'[t] # job[t] =>
         \/ job[t].pc = "forget" /\ job[t].id = x
         \/ job[t].pc \in {"toggled", "saved"} /\ x \notin job[t].known
         \/ job[t].pc = "saved" /\ job[t].file[x] # "off"]_vars

\* Every request and run that has begun ends: no lock is left behind and no two
\* threads wait for each other.
RequestsEnd ==
  \A t \in Threads : ~Holds(t, {"idle", "page"}) ~> Holds(t, {"idle", "page"})

=============================================================================

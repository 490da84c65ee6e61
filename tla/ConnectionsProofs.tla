------------------------- MODULE ConnectionsProofs -------------------------
(* Theorems about Connections, for every set of ids, names and threads, every *)
(* .env and every bound its assumptions allow.                                *)
EXTENDS Connections, TLAPS

-----------------------------------------------------------------------------
(* The inductive invariant. *)

\* What a thread holds in its locals agrees with the store: a merge works on the
\* envelope as it is, and an overlay built under the current version is the store
\* as it is, unless a write awaits its bump.
Sane(j) ==
  /\ j.pc = "create" => j.id \in Ids
  /\ j.build # "no" => j.pc \in DOMAIN Return /\ j.seen <= version
  /\ j.pc = "merge" => j.read = secrets[j.id]
  /\ j.build = "built" /\ j.seen = version /\ writeLock = None =>
       j.got.live = live /\ j.got.secrets = secrets

\* A cache is never ahead of the store; one under its version shows the store
\* and the retained declarations, which are neither stored nor deleted.
CacheSound ==
  /\ cache.version <= version
  /\ cache.version = version /\ writeLock = None =>
       /\ cache.known = live \cup retained
       /\ cache.secrets = secrets
       /\ retained \cap (live \cup tombs) = {}

\* The rows: the secrets acknowledged, no row beside its tombstone, and a rotation
\* that works on the secrets as they are.
RowsSound ==
  /\ SecretsKept
  /\ live \cap tombs = {}
  /\ cli.on => cli.locked /\ cli.read = secrets

IInv ==
  /\ TypeOK
  /\ \A t \in Threads : Sane(job[t])
  /\ RowsSound
  /\ CacheSound
  /\ ~up => cache.version < version /\ \A t \in Threads : job[t] = NoJob

-----------------------------------------------------------------------------
(* Records and tables. *)

WritePcs == {"merge", "created", "deleted", "updated", "undone"}
FilePcs == {"toggle", "toggled", "load", "loaded", "save", "saved"}

\* The tables of program points, spelt out.
LEMMA Points ==
  /\ DOMAIN Return = {"ask", "toggle", "load", "save", "snap"}
  /\ Return["ask"] = "known" /\ Return["toggle"] = "toggled" /\ Return["load"] = "loaded"
  /\ Return["save"] = "saved" /\ Return["snap"] = "plan"
  /\ DOMAIN After = {"created", "deleted", "updated", "undone"}
  /\ After["created"] = "ask" /\ After["deleted"] = "forget" /\ After["updated"] = "idle"
  /\ After["undone"] = "untomb"
  /\ DOMAIN Under = {"switch", "get", "put"}
  /\ Under["switch"] = "toggle" /\ Under["get"] = "load" /\ Under["put"] = "save"
BY DEF Return, After, Under

LEMMA Points2 ==
  Pc = {"idle", "create", "known", "toggled", "undo", "untomb", "delete", "forget", "update",
        "merge", "loaded", "page", "saved", "plan", "ask", "toggle", "load", "save", "snap",
        "created", "deleted", "updated", "undone", "switch", "get", "put"}
BY Points DEF Pc

LEMMA BlankTyped == Blank \in Envelope /\ NoStore \in Store
BY DEF Blank, Envelope, NoStore, Store

LEMMA NoJobTyped == NoJob \in Job
<1>1. Unset \in [Ids -> Toggle] /\ [x \in Ids |-> 0] \in [Ids -> Nat]
  BY DEF Unset, Toggle
<1> QED BY <1>1, BlankTyped, Points2 DEF NoJob, Job

LEMMA JobFields ==
  ASSUME NEW j \in Job
  PROVE  /\ j.pc \in Pc /\ j.id \in Ids \cup {None} /\ j.name \in Names \cup {None}
         /\ j.value \in Nat /\ j.had \in BOOLEAN /\ j.build \in {"no", "read", "built"}
         /\ j.seen \in Nat /\ j.got \in Store /\ j.known \subseteq Ids
         /\ j.file \in [Ids -> Toggle] /\ j.read \in Envelope /\ j.gone \in [Ids -> Nat]
BY DEF Job

\* The records a step can leave behind.
LEMMA JobChanges ==
  ASSUME NEW j \in Job, NEW pc \in Pc
  PROVE  /\ [j EXCEPT !.pc = pc] \in Job
         /\ \A known \in SUBSET Ids : [j EXCEPT !.pc = pc, !.known = known] \in Job
         /\ \A file \in [Ids -> Toggle] : [j EXCEPT !.pc = pc, !.file = file] \in Job
         /\ \A read \in Envelope : [j EXCEPT !.pc = pc, !.read = read] \in Job
BY DEF Job

\* The three locks belong to threads at the points that hold them.
Held(write, overlay, file, t, j) ==
  /\ write = t <=> j.pc \in WritePcs
  /\ overlay = t <=> j.build # "no"
  /\ file = t <=> j.pc \in FilePcs

Locks(t, j) == Held(writeLock, overlayLock, fileLock, t, j)

FatesTyped == gone \in [Ids -> Nat] /\ deleted \subseteq Ids /\ overtaken \subseteq Ids

Plain ==
  /\ live \subseteq Ids /\ tombs \subseteq Ids /\ secrets \in [Ids -> Envelope]
  /\ toggles \in [Ids -> Toggle]
  /\ up \in BOOLEAN /\ retained \subseteq Ids /\ version \in Nat
  /\ cache \in [version : Int, known : SUBSET Ids, secrets : [Ids -> Envelope]]
  /\ job \in [Threads -> Job]
  /\ cli \in [on : BOOLEAN, locked : BOOLEAN, read : [Ids -> Envelope]]
  /\ tally \in [ops : Nat, faults : Nat, crashes : Nat]
  /\ FatesTyped /\ stored \in [Ids -> Envelope]
  /\ run \subseteq Ids
  /\ writeLock \in Threads \cup {None} /\ overlayLock \in Threads \cup {None}
  /\ fileLock \in Threads \cup {None}

LEMMA TypeSplit == TypeOK <=> Plain /\ \A t \in Threads : Locks(t, job[t])
<1>1. {"merge"} \cup DOMAIN After = WritePcs
  BY Points DEF WritePcs
<1> QED BY <1>1 DEF TypeOK, Plain, FatesTyped, Held, Locks, Holds, FilePcs

\* How a lock may change in a step of thread t.
Passed(was, is, t) == is = was \/ (was = None /\ is = t) \/ (was = t /\ is = None)

\* After a step of t that leaves it with j: types and locks.
LEMMA TypeKept ==
  ASSUME TypeOK, NEW t \in Threads, NEW j \in Job, job' = [job EXCEPT ![t] = j],
         live' \subseteq Ids, tombs' \subseteq Ids, secrets' \in [Ids -> Envelope],
         toggles' \in [Ids -> Toggle], up' = up, retained' \subseteq Ids, version' \in Nat,
         cache' \in [version : Int, known : SUBSET Ids, secrets : [Ids -> Envelope]],
         cli' = cli, tally' \in [ops : Nat, faults : Nat, crashes : Nat],
         FatesTyped', stored' \in [Ids -> Envelope],
         run' \subseteq Ids,
         Passed(writeLock, writeLock', t), Passed(overlayLock, overlayLock', t),
         Passed(fileLock, fileLock', t), Held(writeLock', overlayLock', fileLock', t, j)
  PROVE  TypeOK'
<1>1. Plain /\ \A u \in Threads : Locks(u, job[u])
  BY TypeSplit
<1>2. /\ job' \in [Threads -> Job] /\ job'[t] = j
      /\ \A u \in Threads \ {t} : job'[u] = job[u]
  BY <1>1 DEF Plain
<1>3. Plain'
  BY <1>1, <1>2 DEF Plain, Passed
<1>4. \A u \in Threads : Locks(u, job[u])'
  <2> TAKE u \in Threads
  <2>1. CASE u = t
    BY <2>1, <1>2 DEF Held, Locks
  <2>2. CASE u # t
    BY <2>2, <1>1, <1>2, NoneAssumption DEF Held, Locks, Passed
  <2> QED BY <2>1, <2>2
<1>5. {"merge"} \cup DOMAIN After = WritePcs
  BY Points DEF WritePcs
<1> QED BY <1>3, <1>4, <1>5 DEF TypeOK, Plain, FatesTyped, Held, Locks, Holds, FilePcs

-----------------------------------------------------------------------------
(* Frames: what a step must establish. *)

\* A step of t that leaves the store, its cache and the ghosts alone.
LEMMA QuietKeeps ==
  ASSUME IInv, up, NEW t \in Threads, NEW j \in Job, job' = [job EXCEPT ![t] = j],
         FatesTyped', UNCHANGED <<tables, up, retained, version, cache, cli, stored>>,
         toggles' \in [Ids -> Toggle], tally' \in [ops : Nat, faults : Nat, crashes : Nat],
         run' \subseteq Ids,
         writeLock' = writeLock \/ (writeLock = None /\ writeLock' = t),
         Passed(overlayLock, overlayLock', t), Passed(fileLock, fileLock', t),
         Held(writeLock', overlayLock', fileLock', t, j), Sane(j)
  PROVE  IInv'
<1>1. TypeOK'
  BY TypeKept DEF IInv, TypeOK, Passed, tables
<1>2. (\A u \in Threads : Sane(job[u]))'
  BY NoneAssumption DEF IInv, TypeOK, Sane, tables
<1>3. RowsSound'
  BY DEF IInv, RowsSound, SecretsKept, tables
<1>4. CacheSound'
  BY NoneAssumption DEF IInv, CacheSound, tables
<1> QED BY <1>1, <1>2, <1>3, <1>4 DEF IInv

\* A commit of t to the store: t holds the write lock from here to its bump.
LEMMA WriteKeeps ==
  ASSUME IInv, up, NEW t \in Threads, NEW j \in Job, job' = [job EXCEPT ![t] = j],
         UNCHANGED <<toggles, up, retained, version, cache, overlayLock, fileLock, cli, tally, run>>,
         writeLock \in {None, t}, writeLock' = t, ~cli.locked,
         live' \subseteq Ids, tombs' \subseteq Ids, secrets' \in [Ids -> Envelope],
         FatesTyped', stored' \in [Ids -> Envelope],
         SecretsKept', (live \cap tombs = {})',
         j.pc \in DOMAIN After, Held(writeLock', overlayLock', fileLock', t, j), j.build = "no"
  PROVE  IInv'
<1>1. TypeOK'
  BY TypeKept DEF IInv, TypeOK, Passed
<1>2. \A u \in Threads \ {t} : job[u].pc # "merge" /\ job'[u] = job[u]
  BY NoneAssumption DEF IInv, TypeOK, Holds
<1>3. j.pc # "create" /\ j.pc # "merge" /\ job'[t] = j
  BY Points DEF IInv, TypeOK
<1>4. (\A u \in Threads : Sane(job[u]))'
  BY <1>2, <1>3, NoneAssumption DEF IInv, Sane
<1>5. ~cli.on
  BY DEF IInv, RowsSound
<1>6. RowsSound'
  BY <1>5 DEF RowsSound
<1>7. CacheSound'
  BY NoneAssumption DEF IInv, CacheSound
<1> QED BY <1>1, <1>4, <1>6, <1>7 DEF IInv

\* A thread that is not idle runs in a process that is up.
LEMMA Running ==
  ASSUME IInv, NEW t \in Threads, job[t].pc # "idle" \/ job[t].build # "no"
  PROVE  up
BY DEF IInv, NoJob

-----------------------------------------------------------------------------
(* Requests arrive; pages and runs. *)

LEMMA StartKeeps ==
  ASSUME IInv, NEW t \in Threads, NEW j \in Job, job' = [job EXCEPT ![t] = j],
         up, job[t].pc = "idle",
         j.build = "no", j.pc \in {"create", "delete", "update", "get", "snap"},
         j.pc = "create" => j.id \in Ids,
         FatesTyped', UNCHANGED <<tables, toggles, process, fileLock, cli, stored>>,
         tally' \in [ops : Nat, faults : Nat, crashes : Nat], run' \subseteq Ids
  PROVE  IInv'
<1>1. job[t].build = "no"
  BY Points DEF IInv, Sane
<1>2. Locks(t, job[t])
  BY TypeSplit DEF IInv
<1>3. Held(writeLock', overlayLock', fileLock', t, j) /\ Sane(j)
  BY <1>1, <1>2 DEF Held, Locks, WritePcs, FilePcs, process, Sane
<1> QED BY <1>3, QuietKeeps DEF IInv, TypeOK, Passed, process, tables

LEMMA Begun ==
  ASSUME IInv, NEW t, NEW op, Start(t, op)
  PROVE  /\ up /\ job[t].pc = "idle" /\ Value \in Nat
         /\ tally' \in [ops : Nat, faults : Nat, crashes : Nat]
<1>1. tally \in [ops : Nat, faults : Nat, crashes : Nat]
  BY DEF IInv, TypeOK
<1>2. Value \in Nat /\ tally' = [tally EXCEPT !.ops = Value]
  BY <1>1 DEF Start, Value
<1> QED BY <1>1, <1>2 DEF Start

LEMMA Arrivals ==
  ASSUME IInv, FatesTyped', NEW t \in Threads,
         CreateStart(t) \/ DeleteStart(t) \/ UpdateStart(t) \/ PageStart(t) \/ RunStart(t)
  PROVE  IInv'
<1>1. /\ live \subseteq Ids /\ run \subseteq Ids /\ tally \in [ops : Nat, faults : Nat, crashes : Nat]
      /\ Answered \in [Ids -> Nat]
  BY DEF IInv, TypeOK, Answered
<1>2. CASE CreateStart(t)
  <2>1. PICK x \in Ids : job' = [job EXCEPT ![t] =
            [NoJob EXCEPT !.pc = "create", !.id = x, !.value = Value, !.had = x \in tombs]]
    BY <1>2 DEF CreateStart
  <2> DEFINE j == [NoJob EXCEPT !.pc = "create", !.id = x, !.value = Value, !.had = x \in tombs]
  <2>2. up /\ job[t].pc = "idle" /\ Value \in Nat
        /\ tally' \in [ops : Nat, faults : Nat, crashes : Nat]
    BY <1>2, Begun DEF CreateStart
  <2>3. ASSUME NEW v \in Nat, NEW had \in BOOLEAN
        PROVE  LET r == [NoJob EXCEPT !.pc = "create", !.id = x, !.value = v, !.had = had]
               IN r \in Job /\ r.pc = "create" /\ r.build = "no" /\ r.id \in Ids
    BY NoJobTyped, Points2, ZenonT(40) DEF NoJob, Job
  <2>4. j \in Job /\ j.pc = "create" /\ j.build = "no" /\ j.id \in Ids
    <3>1. (x \in tombs) \in BOOLEAN
      OBVIOUS
    <3> QED BY <2>2, <2>3, <3>1
  <2> HIDE DEF j
  <2>5. job' = [job EXCEPT ![t] = j]
    BY <2>1 DEF j
  <2> QED BY <1>1, <1>2, <2>2, <2>4, <2>5, StartKeeps DEF CreateStart, ghosts
<1>3. CASE DeleteStart(t)
  <2>1. PICK x \in live : job' = [job EXCEPT ![t] =
            [NoJob EXCEPT !.pc = "delete", !.id = x, !.value = Value]]
    BY <1>3 DEF DeleteStart
  <2> DEFINE j == [NoJob EXCEPT !.pc = "delete", !.id = x, !.value = Value]
  <2>2. up /\ job[t].pc = "idle" /\ Value \in Nat
        /\ tally' \in [ops : Nat, faults : Nat, crashes : Nat]
    BY <1>3, Begun DEF DeleteStart
  <2>3. j \in Job /\ j.pc = "delete" /\ j.build = "no"
    BY <1>1, <2>2, NoJobTyped, Points2 DEF NoJob, Job
  <2> HIDE DEF j
  <2>4. job' = [job EXCEPT ![t] = j]
    BY <2>1 DEF j
  <2> QED BY <1>1, <1>3, <2>2, <2>3, <2>4, StartKeeps DEF DeleteStart, ghosts
<1>4. CASE UpdateStart(t)
  <2>1. PICK x \in live, n \in Names : job' = [job EXCEPT ![t] =
            [NoJob EXCEPT !.pc = "update", !.id = x, !.name = n, !.value = Value]]
    BY <1>4 DEF UpdateStart
  <2> DEFINE j == [NoJob EXCEPT !.pc = "update", !.id = x, !.name = n, !.value = Value]
  <2>2. up /\ job[t].pc = "idle" /\ Value \in Nat
        /\ tally' \in [ops : Nat, faults : Nat, crashes : Nat]
    BY <1>4, Begun DEF UpdateStart
  <2>3. j \in Job /\ j.pc = "update" /\ j.build = "no"
    BY <1>1, <2>2, NoJobTyped, Points2 DEF NoJob, Job
  <2> HIDE DEF j
  <2>4. job' = [job EXCEPT ![t] = j]
    BY <2>1 DEF j
  <2> QED BY <1>1, <1>4, <2>2, <2>3, <2>4, StartKeeps DEF UpdateStart, ghosts
<1>5. CASE PageStart(t)
  <2> DEFINE j == [NoJob EXCEPT !.pc = "get"]
  <2>1. j \in Job /\ j.pc = "get" /\ j.build = "no"
    BY NoJobTyped, Points2 DEF NoJob, Job
  <2> HIDE DEF j
  <2>2. job' = [job EXCEPT ![t] = j]
    BY <1>5 DEF j, PageStart
  <2>3. up /\ job[t].pc = "idle" /\ tally' \in [ops : Nat, faults : Nat, crashes : Nat]
    BY <1>5, Begun DEF PageStart
  <2> QED BY <1>1, <1>5, <2>1, <2>2, <2>3, StartKeeps DEF PageStart, ghosts
<1>6. CASE RunStart(t)
  <2> DEFINE j == [NoJob EXCEPT !.pc = "snap", !.gone = Answered]
  <2>1. j \in Job /\ j.pc = "snap" /\ j.build = "no"
    BY <1>1, NoJobTyped, Points2 DEF NoJob, Job
  <2> HIDE DEF j
  <2>2. job' = [job EXCEPT ![t] = j]
    BY <1>6 DEF j, RunStart
  <2> QED BY <1>1, <1>6, <2>1, <2>2, StartKeeps DEF RunStart
<1> QED BY <1>2, <1>3, <1>4, <1>5, <1>6

\* A step of t on the settings, the page or its own way.
LEMMA FileStepKeeps ==
  ASSUME IInv, NEW t \in Threads, NEW j \in Job, job' = [job EXCEPT ![t] = j],
         job[t].pc \in {"switch", "get", "put", "forget", "known", "toggled", "loaded", "page",
                        "saved", "plan"},
         j.build = job[t].build, j.pc \notin WritePcs \cup {"create"},
         FatesTyped', UNCHANGED <<tables, process, cli, stored>>,
         toggles' \in [Ids -> Toggle], tally' \in [ops : Nat, faults : Nat, crashes : Nat],
         run' \subseteq Ids,
         Passed(fileLock, fileLock', t), fileLock' = t <=> j.pc \in FilePcs
  PROVE  IInv'
<1>1. Locks(t, job[t]) /\ Sane(job[t])
  BY TypeSplit DEF IInv
<1>2. job[t].build = "no" /\ up
  BY <1>1, Points, Running DEF Sane
<1>3. Held(writeLock', overlayLock', fileLock', t, j) /\ Sane(j)
  BY <1>1, <1>2 DEF Held, Locks, WritePcs, process, Sane
<1> QED BY <1>2, <1>3, QuietKeeps DEF Passed, process

\* Steps of t on the settings file, and the short steps between them.
LEMMA FileSteps ==
  ASSUME IInv, FatesTyped', NEW t \in Threads,
         LockFile(t) \/ Forget(t) \/ CreateKnown(t) \/ SwitchOff(t) \/ FileFails(t)
           \/ PageLoaded(t) \/ PageFlip(t) \/ PageLeft(t) \/ PageSaved(t) \/ RunPlan(t)
  PROVE  IInv'
<1>1. /\ job[t] \in Job /\ toggles \in [Ids -> Toggle] /\ run \subseteq Ids
      /\ tally \in [ops : Nat, faults : Nat, crashes : Nat]
  BY DEF IInv, TypeOK
<1>2. /\ job[t].pc \in Pc /\ job[t].id \in Ids \cup {None} /\ job[t].known \subseteq Ids
      /\ job[t].file \in [Ids -> Toggle]
  BY <1>1, JobFields
<1>3. Config(t) \in [Ids -> Toggle]
  BY <1>2 DEF Config, Toggle
<1>4. fileLock = t <=> job[t].pc \in FilePcs
  BY TypeSplit DEF IInv, Held, Locks
<1>5. /\ \A pc \in Pc : [job[t] EXCEPT !.pc = pc] \in Job
                      /\ [job[t] EXCEPT !.pc = pc].pc = pc
                      /\ [job[t] EXCEPT !.pc = pc].build = job[t].build
  BY <1>1 DEF Job
<1>6. NoJob \in Job /\ NoJob.pc = "idle" /\ NoJob.build = "no"
  BY NoJobTyped DEF NoJob
<1>7. job[t].pc \notin DOMAIN Return => job[t].build = "no"
  BY DEF IInv, Sane
<1>8. {"switch", "undo", "toggle", "load", "save", "page", "put"} \subseteq Pc
  BY Points2
<1>9. CASE LockFile(t)
  <2> DEFINE file == IF job[t].pc = "put" THEN job[t].file ELSE toggles
             j == [job[t] EXCEPT !.pc = Under[job[t].pc], !.file = file]
  <2>1. job[t].pc \in {"switch", "get", "put"} /\ Under[job[t].pc] \in {"toggle", "load", "save"}
    BY <1>9, Points DEF LockFile
  <2>2. ASSUME NEW pc \in Pc, NEW f \in [Ids -> Toggle]
        PROVE  LET r == [job[t] EXCEPT !.pc = pc, !.file = f]
               IN r \in Job /\ r.pc = pc /\ r.build = job[t].build
    BY <1>1 DEF Job
  <2>3. file \in [Ids -> Toggle] /\ Under[job[t].pc] \in Pc
    BY <1>1, <1>2, <1>8, <2>1
  <2>4. j \in Job /\ j.pc = Under[job[t].pc] /\ j.build = job[t].build
    BY <2>2, <2>3
  <2>5. job' = [job EXCEPT ![t] = j]
    BY <1>9 DEF LockFile
  <2>6. Passed(fileLock, fileLock', t) /\ (fileLock' = t <=> j.pc \in FilePcs)
    BY <1>9, <2>1, <2>4 DEF LockFile, FileFree, Passed, FilePcs
  <2> HIDE DEF j
  <2> QED BY <1>1, <1>9, <2>1, <2>4, <2>5, <2>6, FileStepKeeps DEF LockFile, WritePcs, ghosts
<1>10. CASE Forget(t)
  <2>1. toggles' \in [Ids -> Toggle]
    BY <1>1, <1>10 DEF Forget, Toggle
  <2>2. job[t].build = "no"
    BY <1>7, <1>10, Points DEF Forget
  <2> QED BY <1>1, <1>4, <1>6, <1>10, <2>1, <2>2, FileStepKeeps
       DEF Forget, Done, WritePcs, FilePcs, Passed, ghosts
<1>11. CASE CreateKnown(t)
  <2> DEFINE pc == IF job[t].id \in job[t].known THEN "switch" ELSE Refused
             j == [job[t] EXCEPT !.pc = pc]
  <2>1. pc \in {"switch", "undo"}
    BY DEF Refused
  <2>2. j \in Job /\ j.pc \in {"switch", "undo"} /\ j.build = job[t].build
    BY <1>5, <1>8, <2>1
  <2>3. job' = [job EXCEPT ![t] = j]
    BY <1>11 DEF CreateKnown, Go
  <2> HIDE DEF j
  <2> QED BY <1>1, <1>4, <1>11, <2>2, <2>3, FileStepKeeps
       DEF CreateKnown, WritePcs, FilePcs, Passed, ghosts
<1>12. CASE SwitchOff(t)
  <2>1. toggles' \in [Ids -> Toggle]
    BY <1>3, <1>12 DEF SwitchOff, Toggle
  <2>2. job[t].build = "no"
    BY <1>7, <1>12, Points DEF SwitchOff
  <2> DEFINE j == [job[t] EXCEPT !.pc = "undo"]
  <2>3. j \in Job /\ j.pc = "undo" /\ j.build = "no"
    BY <1>5, <1>8, <2>2
  <2>4. job' = [job EXCEPT ![t] = NoJob] \/ job' = [job EXCEPT ![t] = j]
    BY <1>12 DEF SwitchOff, Done, Go
  <2> HIDE DEF j
  <2>5. fileLock = t
    BY <1>4, <1>12 DEF SwitchOff, FilePcs
  <2>6. fileLock' = None /\ None # t
    BY <1>12, NoneAssumption DEF SwitchOff
  <2> QED BY <1>1, <1>6, <1>12, <2>1, <2>2, <2>3, <2>4, <2>5, <2>6, FileStepKeeps
       DEF SwitchOff, WritePcs, FilePcs, Passed, ghosts
<1>13. CASE FileFails(t)
  <2>1. tally' \in [ops : Nat, faults : Nat, crashes : Nat]
    BY <1>1, <1>13 DEF FileFails, Fault
  <2>2. job[t].pc \in {"toggled", "saved"} /\ job[t].build = "no"
    BY <1>7, <1>13, Points DEF FileFails
  <2> DEFINE j == [job[t] EXCEPT !.pc = "undo"]
  <2>3. j \in Job /\ j.pc = "undo" /\ j.build = "no"
    BY <1>5, <1>8, <2>2
  <2>4. job' = [job EXCEPT ![t] = NoJob] \/ job' = [job EXCEPT ![t] = j]
    BY <1>13 DEF FileFails, Done, Go
  <2> HIDE DEF j
  <2>5. fileLock = t
    BY <1>4, <2>2 DEF FilePcs
  <2>6. fileLock' = None /\ None # t
    BY <1>13, NoneAssumption DEF FileFails, Released
  <2> QED BY <1>1, <1>6, <1>13, <2>1, <2>2, <2>3, <2>4, <2>5, <2>6, FileStepKeeps
       DEF FileFails, WritePcs, FilePcs, Passed, ghosts
<1>14. CASE PageLoaded(t)
  <2> DEFINE j == [job[t] EXCEPT !.pc = "page", !.file = Config(t), !.known = {}]
  <2>1. ASSUME NEW pc \in Pc, NEW f \in [Ids -> Toggle]
        PROVE  LET r == [job[t] EXCEPT !.pc = pc, !.file = f, !.known = {}]
               IN r \in Job /\ r.pc = pc /\ r.build = job[t].build
    BY <1>1 DEF Job
  <2>2. j \in Job /\ j.pc = "page" /\ j.build = job[t].build
    <3>1. "page" \in Pc
      BY <1>8
    <3> QED BY <1>3, <2>1, <3>1
  <2>3. job' = [job EXCEPT ![t] = j]
    BY <1>14 DEF PageLoaded
  <2> HIDE DEF j
  <2>4. fileLock = t /\ fileLock' = None /\ None # t
    BY <1>4, <1>14, NoneAssumption DEF PageLoaded, FilePcs
  <2> QED BY <1>1, <1>14, <2>2, <2>3, <2>4, FileStepKeeps
       DEF PageLoaded, WritePcs, FilePcs, Passed, ghosts
<1>15. CASE PageFlip(t)
  <2>1. PICK x \in Ids : job' = [job EXCEPT ![t].pc = "put", ![t].id = x,
                 ![t].file = [job[t].file EXCEPT ![x] = IF @ = "on" THEN "off" ELSE "on"]]
    BY <1>15 DEF PageFlip
  <2> DEFINE file == [job[t].file EXCEPT ![x] = IF @ = "on" THEN "off" ELSE "on"]
             j == [job[t] EXCEPT !.pc = "put", !.id = x, !.file = file]
  <2>2. file \in [Ids -> Toggle]
    BY <1>2 DEF Toggle
  <2>3. ASSUME NEW pc \in Pc, NEW f \in [Ids -> Toggle]
        PROVE  LET r == [job[t] EXCEPT !.pc = pc, !.id = x, !.file = f]
               IN r \in Job /\ r.pc = pc /\ r.build = job[t].build
    BY <1>1 DEF Job
  <2> HIDE DEF file
  <2>4. j \in Job /\ j.pc = "put" /\ j.build = job[t].build
    BY <1>8, <2>2, <2>3
  <2>5. job' = [job EXCEPT ![t] = j]
    BY <2>1 DEF file
  <2> HIDE DEF j
  <2> QED BY <1>1, <1>4, <1>15, <2>4, <2>5, FileStepKeeps
       DEF PageFlip, WritePcs, FilePcs, Passed, ghosts
<1>16. CASE PageLeft(t)
  <2>1. job[t].build = "no"
    BY <1>7, <1>16, Points DEF PageLeft
  <2> QED BY <1>1, <1>4, <1>6, <1>16, <2>1, FileStepKeeps
       DEF PageLeft, Done, WritePcs, FilePcs, Passed, ghosts
<1>17. CASE PageSaved(t)
  <2>1. job[t].build = "no"
    BY <1>7, <1>17, Points DEF PageSaved
  <2>2. toggles' \in [Ids -> Toggle]
    BY <1>1, <1>3, <1>17 DEF PageSaved
  <2>3. fileLock = t /\ fileLock' = None /\ None # t
    BY <1>4, <1>17, NoneAssumption DEF PageSaved, FilePcs
  <2> QED BY <1>1, <1>6, <1>17, <2>1, <2>2, <2>3, FileStepKeeps
       DEF PageSaved, Done, WritePcs, FilePcs, Passed
<1>18. CASE RunPlan(t)
  <2>1. job[t].build = "no"
    BY <1>7, <1>18, Points DEF RunPlan
  <2>2. run' \subseteq Ids
    BY <1>2, <1>18 DEF RunPlan
  <2> QED BY <1>1, <1>4, <1>6, <1>18, <2>1, <2>2, FileStepKeeps
       DEF RunPlan, Done, WritePcs, FilePcs, Passed
<1> QED BY <1>9, <1>10, <1>11, <1>12, <1>13, <1>14, <1>15, <1>16, <1>17, <1>18

-----------------------------------------------------------------------------
(* The overlay. *)

\* Where the overlay is asked for decides the file lock as much as where it goes on.
LEMMA Returned ==
  ASSUME NEW pc \in DOMAIN Return
  PROVE  /\ Return[pc] \in Pc /\ pc \notin WritePcs /\ pc # "create" /\ pc # "idle"
         /\ Return[pc] \notin WritePcs \cup {"create", "idle"}
         /\ Return[pc] \in FilePcs <=> pc \in FilePcs
BY Points, Points2 DEF WritePcs, FilePcs

LEMMA OverlayReads ==
  ASSUME IInv, FatesTyped', NEW t \in Threads, OverlayHit(t) \/ OverlayMiss(t) \/ OverlayBuild(t)
  PROVE  IInv'
<1>1. /\ job[t] \in Job /\ toggles \in [Ids -> Toggle] /\ run \subseteq Ids
      /\ tally \in [ops : Nat, faults : Nat, crashes : Nat]
      /\ cache.known \subseteq Ids /\ version \in Nat /\ live \subseteq Ids
      /\ secrets \in [Ids -> Envelope]
  BY DEF IInv, TypeOK
<1>2. Locks(t, job[t]) /\ Sane(job[t])
  BY TypeSplit DEF IInv
<1>3. job[t].pc \in DOMAIN Return
  BY <1>2 DEF OverlayHit, OverlayMiss, OverlayBuild, Sane
<1>4. /\ up /\ Return[job[t].pc] \in Pc /\ job[t].pc \notin WritePcs /\ job[t].pc # "create"
      /\ Return[job[t].pc] \notin WritePcs \cup {"create"}
      /\ Return[job[t].pc] \in FilePcs <=> job[t].pc \in FilePcs
  BY <1>3, Returned, Running
<1>5. job[t].pc # "merge" /\ Return[job[t].pc] # "merge"
  BY <1>4 DEF WritePcs
<1>6. CASE OverlayHit(t)
  <2> DEFINE j == [job[t] EXCEPT !.pc = Return[job[t].pc], !.known = cache.known]
  <2>1. ASSUME NEW pc \in Pc, NEW k \in SUBSET Ids
        PROVE  LET r == [job[t] EXCEPT !.pc = pc, !.known = k]
               IN r \in Job /\ r.pc = pc /\ r.build = job[t].build
    BY <1>1 DEF Job
  <2>2. j \in Job /\ j.pc = Return[job[t].pc] /\ j.build = job[t].build
    BY <1>1, <1>4, <2>1
  <2>3. job' = [job EXCEPT ![t] = j] /\ job[t].build = "no"
    BY <1>6 DEF OverlayHit
  <2> HIDE DEF j
  <2>4. Held(writeLock', overlayLock', fileLock', t, j) /\ Sane(j)
    BY <1>2, <1>4, <1>5, <1>6, <2>2, <2>3 DEF Held, Locks, Sane, OverlayHit, process
  <2> QED BY <1>1, <1>4, <1>6, <2>2, <2>3, <2>4, QuietKeeps DEF OverlayHit, process, ghosts, Passed
<1>7. CASE OverlayMiss(t)
  <2> DEFINE j == [job[t] EXCEPT !.build = "read", !.seen = version]
  <2>1. /\ j \in Job /\ j.pc = job[t].pc /\ j.build = "read" /\ j.seen = version
    BY <1>1 DEF Job
  <2>2. job' = [job EXCEPT ![t] = j] /\ overlayLock = None /\ overlayLock' = t
    BY <1>7 DEF OverlayMiss
  <2> HIDE DEF j
  <2>3. Held(writeLock', overlayLock', fileLock', t, j) /\ Sane(j)
    BY <1>1, <1>2, <1>3, <1>4, <1>5, <1>7, <2>1, <2>2 DEF Held, Locks, Sane, OverlayMiss
  <2> QED BY <1>1, <1>4, <1>7, <2>1, <2>2, <2>3, QuietKeeps DEF OverlayMiss, ghosts, Passed
<1>8. CASE OverlayBuild(t)
  <2> DEFINE now == [live |-> live, secrets |-> secrets]
             j == [job[t] EXCEPT !.build = "built", !.got = now]
  <2>1. now \in Store /\ now.live = live /\ now.secrets = secrets
    BY <1>1 DEF Store
  <2>2. ASSUME NEW g \in Store
        PROVE  LET r == [job[t] EXCEPT !.build = "built", !.got = g]
               IN r \in Job /\ r.pc = job[t].pc /\ r.build = "built" /\ r.seen = job[t].seen /\ r.got = g
    BY <1>1 DEF Job
  <2> HIDE DEF now
  <2>3. j \in Job /\ j.pc = job[t].pc /\ j.build = "built" /\ j.seen = job[t].seen /\ j.got = now
    BY <2>1, <2>2
  <2>4. job' = [job EXCEPT ![t] = j] /\ job[t].build = "read"
    BY <1>8 DEF OverlayBuild, now
  <2> HIDE DEF j
  <2>5. Held(writeLock', overlayLock', fileLock', t, j) /\ Sane(j)
    BY <1>2, <1>3, <1>4, <1>5, <1>8, <2>1, <2>3, <2>4 DEF Held, Locks, Sane, OverlayBuild, process
  <2> QED BY <1>1, <1>4, <1>8, <2>3, <2>4, <2>5, QuietKeeps DEF OverlayBuild, process, ghosts, Passed
<1> QED BY <1>6, <1>7, <1>8

\* An overlay built at the current version is the store as it is; what it prunes
\* from the retained declarations has a row or a tombstone now.
LEMMA OverlayStored ==
  ASSUME IInv, FatesTyped', NEW t \in Threads, OverlayStore(t)
  PROVE  IInv'
<1>1. /\ job[t] \in Job /\ toggles \in [Ids -> Toggle] /\ run \subseteq Ids
      /\ tally \in [ops : Nat, faults : Nat, crashes : Nat] /\ retained \subseteq Ids
      /\ version \in Nat /\ live \subseteq Ids /\ tombs \subseteq Ids /\ secrets \in [Ids -> Envelope]
      /\ gone \in [Ids -> Nat] /\ stored \in [Ids -> Envelope]
  BY DEF IInv, TypeOK
<1>2. Locks(t, job[t]) /\ Sane(job[t]) /\ job[t].build = "built"
  BY TypeSplit DEF IInv, OverlayStore
<1>3. /\ up /\ Return[job[t].pc] \in Pc /\ job[t].pc \notin WritePcs
      /\ Return[job[t].pc] \notin WritePcs \cup {"create"}
      /\ Return[job[t].pc] \in FilePcs <=> job[t].pc \in FilePcs
  BY <1>2, Returned, Running DEF Sane
<1> DEFINE got == job[t].got
           known == got.live \cup LiveUnseeded
           j == [job[t] EXCEPT !.pc = Return[job[t].pc], !.known = known,
                               !.build = "no", !.seen = 0, !.got = NoStore]
<1>4. got.live \subseteq Ids /\ got.secrets \in [Ids -> Envelope] /\ job[t].seen \in Nat
  BY <1>1, JobFields DEF Store
<1>5. known \in SUBSET Ids
  BY <1>1, <1>4 DEF LiveUnseeded
<1>6. ASSUME NEW pc \in Pc, NEW k \in SUBSET Ids
      PROVE  LET r == [job[t] EXCEPT !.pc = pc, !.known = k, !.build = "no", !.seen = 0,
                                     !.got = NoStore]
             IN r \in Job /\ r.pc = pc /\ r.build = "no"
  BY <1>1, BlankTyped DEF Job
<1> HIDE DEF known
<1>7. j \in Job /\ j.pc = Return[job[t].pc] /\ j.build = "no"
  BY <1>3, <1>5, <1>6
<1>8. /\ job' = [job EXCEPT ![t] = j]
      /\ cache' = [version |-> job[t].seen, known |-> known, secrets |-> got.secrets]
      /\ retained' = LiveUnseeded
  BY DEF OverlayStore, BuiltAt, known
<1> HIDE DEF j
<1>9. overlayLock' = None /\ overlayLock = t
  BY <1>2 DEF OverlayStore, Held, Locks
<1>10. UNCHANGED <<tables, toggles, up, version, writeLock, fileLock, cli, tally, ghosts>>
  BY DEF OverlayStore
<1>11. cache' \in [version : Int, known : SUBSET Ids, secrets : [Ids -> Envelope]]
  BY <1>4, <1>5, <1>8
<1>12. Held(writeLock', overlayLock', fileLock', t, j)
  BY <1>2, <1>3, <1>7, <1>10, <1>9, NoneAssumption DEF Held, Locks
<1>13. retained' \subseteq Ids
  BY <1>1, <1>8 DEF LiveUnseeded
<1>14. TypeOK'
  BY <1>1, <1>7, <1>8, <1>10, <1>11, <1>12, <1>13, <1>9, TypeKept DEF IInv, tables, ghosts, Passed
<1>15. (\A u \in Threads : Sane(job[u]))'
  <2>1. Sane(j)
    BY <1>3, <1>7 DEF Sane, WritePcs
  <2>2. \A u \in Threads : job'[u] = IF u = t THEN j ELSE job[u]
    BY <1>8 DEF IInv, TypeOK
  <2> QED BY <1>10, <2>1, <2>2 DEF IInv, Sane, tables
<1>16. RowsSound'
  BY <1>10 DEF IInv, RowsSound, SecretsKept, tables, ghosts
<1>17. CacheSound'
  <2>1. job[t].seen <= version
    BY <1>2 DEF Sane
  <2>2. job[t].seen = version /\ writeLock = None => got.live = live /\ got.secrets = secrets
    BY <1>2 DEF Sane
  <2>3. cache'.version = job[t].seen /\ cache'.known = known /\ cache'.secrets = got.secrets
    BY <1>8
  <2> HIDE DEF got
  <2> QED BY <1>8, <1>10, <2>1, <2>2, <2>3 DEF CacheSound, known, LiveUnseeded, tables
<1> QED BY <1>3, <1>10, <1>14, <1>15, <1>16, <1>17 DEF IInv

-----------------------------------------------------------------------------
(* Writes. *)

\* A writer that finds nothing to do ends, or goes on to the tombstone.
LEMMA NothingWritten ==
  ASSUME IInv, FatesTyped', NEW t \in Threads, NEW j \in Job, job' = [job EXCEPT ![t] = j],
         job[t].pc \in {"create", "delete", "update", "undo"},
         j.pc \in {"idle", "untomb"}, j.build = "no",
         UNCHANGED <<tables, toggles, process, fileLock, cli, tally, ghosts>>
  PROVE  IInv'
<1>1. Locks(t, job[t]) /\ job[t].build = "no" /\ up
  BY TypeSplit, Points, Running DEF IInv, Sane
<1>2. Held(writeLock', overlayLock', fileLock', t, j) /\ Sane(j)
  BY <1>1 DEF Held, Locks, WritePcs, FilePcs, process, Sane
<1>3. /\ toggles \in [Ids -> Toggle] /\ tally \in [ops : Nat, faults : Nat, crashes : Nat]
      /\ run \subseteq Ids
  BY DEF IInv, TypeOK
<1> QED BY <1>1, <1>2, <1>3, QuietKeeps DEF Passed, process, ghosts

\* The record of a thread that has committed.
LEMMA Committed ==
  ASSUME IInv, NEW t \in Threads, NEW pc \in DOMAIN After,
         job[t].pc \in {"create", "delete", "undo", "merge"}
  PROVE  LET j == [job[t] EXCEPT !.pc = pc]
         IN /\ j \in Job /\ j.pc = pc /\ j.build = "no" /\ up
            /\ Held(t, overlayLock, fileLock, t, j)
<1>1. Locks(t, job[t]) /\ job[t].build = "no" /\ up /\ job[t] \in Job
  BY TypeSplit, Points, Running DEF IInv, Sane, TypeOK
<1> DEFINE j == [job[t] EXCEPT !.pc = pc]
<1>2. j \in Job /\ j.pc = pc /\ j.build = "no"
  BY <1>1, Points, Points2 DEF Job
<1> HIDE DEF j
<1>3. Held(t, overlayLock, fileLock, t, j)
  BY <1>1, <1>2, Points DEF Held, Locks, WritePcs, FilePcs
<1> QED BY <1>1, <1>2, <1>3 DEF j

LEMMA Removed ==
  ASSUME IInv, FatesTyped', NEW t \in Threads, NEW next \in {"deleted", "undone"}, NEW x \in live,
         job[t].pc \in {"delete", "undo"}, MayWrite, Remove(t, x, next),
         UNCHANGED <<toggles, up, retained, version, cache, overlayLock, fileLock, cli, tally, run>>
  PROVE  IInv'
<1>1. /\ live \subseteq Ids /\ tombs \subseteq Ids /\ secrets \in [Ids -> Envelope]
      /\ stored \in [Ids -> Envelope]
      /\ SecretsKept /\ live \cap tombs = {}
  BY DEF IInv, TypeOK, RowsSound
<1> DEFINE j == [job[t] EXCEPT !.pc = next]
<1>2. next \in DOMAIN After
  BY Points
<1>3. /\ j \in Job /\ j.pc = next /\ j.build = "no" /\ up
      /\ Held(t, overlayLock, fileLock, t, j)
  BY <1>2, Committed
<1>4. job' = [job EXCEPT ![t] = j] /\ writeLock' = t
  BY DEF Remove, Go
<1> HIDE DEF j
<1>5. Held(writeLock', overlayLock', fileLock', t, j)
  BY <1>3, <1>4
<1>6. /\ live' \subseteq Ids /\ tombs' \subseteq Ids /\ secrets' \in [Ids -> Envelope]
      /\ stored' \in [Ids -> Envelope]
  BY <1>1, BlankTyped DEF Remove, Tombstoned
<1>7. SecretsKept'
  BY <1>1 DEF Remove, SecretsKept
<1>8. (live \cap tombs = {})'
  BY <1>1 DEF Remove, Tombstoned
<1>9. writeLock = None /\ ~cli.locked
  BY DEF MayWrite
<1> QED BY <1>2, <1>3, <1>4, <1>5, <1>6, <1>7, <1>8, <1>9, WriteKeeps

LEMMA Writes ==
  ASSUME IInv, FatesTyped', NEW t \in Threads,
         CreateCommit(t) \/ DeleteCommit(t) \/ UpdateRead(t) \/ UpdateCommit(t) \/ Undo(t)
  PROVE  IInv'
<1>1. /\ live \subseteq Ids /\ tombs \subseteq Ids /\ secrets \in [Ids -> Envelope]
      /\ stored \in [Ids -> Envelope] /\ gone \in [Ids -> Nat]
      /\ toggles \in [Ids -> Toggle] /\ tally \in [ops : Nat, faults : Nat, crashes : Nat]
      /\ run \subseteq Ids /\ job[t] \in Job
      /\ SecretsKept /\ live \cap tombs = {}
  BY DEF IInv, TypeOK, RowsSound
<1>2. Sane(job[t]) /\ Locks(t, job[t])
  BY TypeSplit DEF IInv
<1>3. job[t].value \in Nat /\ job[t].read \in Envelope
  BY <1>1, JobFields
<1>4. NoJob \in Job /\ NoJob.pc = "idle" /\ NoJob.build = "no"
  BY NoJobTyped DEF NoJob
<1>5. CASE CreateCommit(t)
  <2> DEFINE x == job[t].id
             new == [n \in Names |-> job[t].value]
  <2>1. CASE x \in live
    BY <1>4, <1>5, <2>1, NothingWritten DEF CreateCommit, Done, process, fates, ghosts
  <2>2. CASE x \notin live
    <3>1. x \in Ids /\ new \in Envelope
      BY <1>2, <1>3, <1>5 DEF Sane, CreateCommit, Envelope
    <3> DEFINE j == [job[t] EXCEPT !.pc = "created"]
    <3>2. "created" \in DOMAIN After
      BY Points
    <3>3. /\ j \in Job /\ j.pc = "created" /\ j.build = "no" /\ up
          /\ Held(t, overlayLock, fileLock, t, j)
      BY <1>5, <3>2, Committed DEF CreateCommit
    <3> HIDE DEF new
    <3>4. /\ live' = live \cup {x} /\ secrets' = [secrets EXCEPT ![x] = new]
          /\ tombs' = tombs \ {x} /\ writeLock' = t
          /\ job' = [job EXCEPT ![t] = j]
          /\ stored' = [stored EXCEPT ![x] = new]
      BY <1>5, <2>2 DEF CreateCommit, Go, new
    <3>5. UNCHANGED <<toggles, up, retained, version, cache, overlayLock, fileLock, cli, tally, run>>
      BY <1>5 DEF CreateCommit
    <3>6. writeLock = None /\ ~cli.locked
      BY <1>5 DEF CreateCommit, MayWrite
    <3> HIDE DEF j, x
    <3>7. Held(writeLock', overlayLock', fileLock', t, j)
      BY <3>3, <3>4, <3>5
    <3>8. /\ live' \subseteq Ids /\ tombs' \subseteq Ids /\ secrets' \in [Ids -> Envelope]
          /\ stored' \in [Ids -> Envelope]
      BY <1>1, <3>1, <3>4
    <3>9. SecretsKept' /\ (live \cap tombs = {})'
      BY <1>1, <3>4 DEF SecretsKept
    <3> QED BY <3>2, <3>3, <3>4, <3>5, <3>6, <3>7, <3>8, <3>9, WriteKeeps
  <2> QED BY <2>1, <2>2
<1>6. CASE DeleteCommit(t)
  <2>1. CASE job[t].id \in live
    BY <1>6, <2>1, Removed DEF DeleteCommit
  <2>2. CASE job[t].id \notin live
    BY <1>4, <1>6, <2>2, NothingWritten DEF DeleteCommit, Done, process, ghosts
  <2> QED BY <2>1, <2>2
<1>7. CASE UpdateRead(t)
  <2>1. CASE job[t].id \in live
    <3> DEFINE read == secrets[job[t].id]
               j == [job[t] EXCEPT !.pc = "merge", !.read = read]
    <3>1. read \in Envelope
      BY <1>1, <2>1
    <3>2. j \in Job /\ j.pc = "merge" /\ j.read = read /\ j.build = job[t].build /\ j.id = job[t].id
      <4>1. ASSUME NEW e \in Envelope
            PROVE  LET r == [job[t] EXCEPT !.pc = "merge", !.read = e]
                   IN r \in Job /\ r.pc = "merge" /\ r.read = e /\ r.build = job[t].build
                      /\ r.id = job[t].id
        BY <1>1, Points2 DEF Job
      <4> HIDE DEF read
      <4> QED BY <3>1, <4>1
    <3>3. /\ job' = [job EXCEPT ![t] = j] /\ writeLock' = t /\ writeLock = None
          /\ UNCHANGED <<tables, toggles, up, retained, version, cache, overlayLock, fileLock, cli, tally, ghosts>>
      BY <1>7, <2>1 DEF UpdateRead
    <3>4. job[t].build = "no" /\ up /\ job[t].pc = "update"
      BY <1>2, <1>7, Points, Running DEF Sane, UpdateRead
    <3> HIDE DEF j
    <3>5. Held(writeLock', overlayLock', fileLock', t, j) /\ Sane(j)
      BY <1>2, <3>2, <3>3, <3>4 DEF Held, Locks, WritePcs, FilePcs, Sane
    <3> QED BY <1>1, <3>2, <3>3, <3>4, <3>5, QuietKeeps DEF Passed, ghosts
  <2>2. CASE job[t].id \notin live
    BY <1>4, <1>7, <2>2, NothingWritten DEF UpdateRead, Done, process, ghosts
  <2> QED BY <2>1, <2>2
<1>8. CASE UpdateCommit(t)
  <2> DEFINE x == job[t].id
             j == [job[t] EXCEPT !.pc = "updated"]
  <2>1. "updated" \in DOMAIN After
    BY Points
  <2>2. /\ j \in Job /\ j.pc = "updated" /\ j.build = "no" /\ up
        /\ Held(t, overlayLock, fileLock, t, j)
    BY <1>8, <2>1, Committed DEF UpdateCommit
  <2>3. /\ secrets' = [secrets EXCEPT ![x] = Merged(t)]
        /\ stored' = [stored EXCEPT ![x][job[t].name] = job[t].value]
        /\ job' = [job EXCEPT ![t] = j] /\ ~cli.locked
        /\ UNCHANGED <<live, tombs, toggles, process, fileLock, cli, tally, run>>
    BY <1>8 DEF UpdateCommit, Go
  <2>4. writeLock = t
    BY <1>2, <1>8 DEF Held, Locks, UpdateCommit, WritePcs
  <2>5. Merged(t) \in Envelope
    BY <1>3 DEF Merged, Envelope
  <2>6. job[t].read = secrets[x]
    BY <1>2, <1>8 DEF Sane, UpdateCommit
  <2> HIDE DEF j
  <2>7. SecretsKept'
    BY <1>1, <2>3, <2>6 DEF SecretsKept, Merged
  <2>8. secrets' \in [Ids -> Envelope] /\ stored' \in [Ids -> Envelope]
    <3>1. secrets' = [secrets EXCEPT ![x] = Merged(t)] /\ secrets' = stored'
      BY <2>3, <2>7 DEF SecretsKept
    <3>2. secrets \in [Ids -> Envelope]
      BY <1>1
    <3> HIDE DEF x
    <3> QED BY ONLY <2>5, <3>1, <3>2
  <2>9. (live \cap tombs = {})'
    BY <1>1, <2>3
  <2>10. Held(writeLock', overlayLock', fileLock', t, j)
    BY <2>2, <2>3, <2>4 DEF process
  <2> QED BY <1>1, <2>1, <2>2, <2>3, <2>4, <2>7, <2>8, <2>9, <2>10, WriteKeeps DEF process
<1>9. CASE Undo(t)
  <2>1. CASE job[t].id \in live
    BY <1>1, <1>9, <2>1, Removed DEF Undo
  <2>2. CASE job[t].id \notin live
    <3> DEFINE j == [job[t] EXCEPT !.pc = "untomb"]
    <3>1. job[t].build = "no"
      BY <1>2, <1>9, Points DEF Sane, Undo
    <3>2. j \in Job /\ j.pc = "untomb" /\ j.build = "no"
      BY <1>1, <3>1, Points2 DEF Job
    <3>3. job' = [job EXCEPT ![t] = j] /\ job[t].pc = "undo"
      BY <1>9, <2>2 DEF Undo, Go
    <3> HIDE DEF j
    <3>4. UNCHANGED <<tables, toggles, process, fileLock, cli, tally, ghosts>>
      BY <1>9, <2>2 DEF Undo, process, ghosts
    <3> QED BY <3>2, <3>3, <3>4, NothingWritten
  <2> QED BY <2>1, <2>2
<1> QED BY <1>5, <1>6, <1>7, <1>8, <1>9

-----------------------------------------------------------------------------
(* The bump, and the end of a rollback. *)

\* The bump outdates the cache and every overlay being built.
LEMMA Bumps ==
  ASSUME IInv, FatesTyped', NEW t \in Threads, Bump(t)
  PROVE  IInv'
<1>1. /\ live \subseteq Ids /\ tombs \subseteq Ids /\ secrets \in [Ids -> Envelope]
      /\ stored \in [Ids -> Envelope] /\ gone \in [Ids -> Nat]
      /\ toggles \in [Ids -> Toggle] /\ tally \in [ops : Nat, faults : Nat, crashes : Nat]
      /\ run \subseteq Ids /\ retained \subseteq Ids /\ version \in Nat
      /\ cache \in [version : Int, known : SUBSET Ids, secrets : [Ids -> Envelope]]
  BY DEF IInv, TypeOK
<1>2. Locks(t, job[t]) /\ Sane(job[t]) /\ job[t] \in Job /\ job[t].pc \in DOMAIN After
  BY TypeSplit DEF IInv, TypeOK, Bump
<1>3. job[t].build = "no" /\ up /\ writeLock = t /\ fileLock # t /\ overlayLock # t
  BY <1>2, Points, Running DEF Sane, Held, Locks, WritePcs, FilePcs
<1> DEFINE next == After[job[t].pc]
<1>4. next \in {"ask", "forget", "idle", "untomb"}
  BY <1>2, Points
<1>5. \E j \in Job : /\ job' = [job EXCEPT ![t] = j] /\ j.build = "no"
                     /\ j.pc \in {"ask", "forget", "idle", "untomb"}
  <2>1. NoJob \in Job /\ NoJob.pc = "idle" /\ NoJob.build = "no"
    BY NoJobTyped DEF NoJob
  <2> DEFINE j == [job[t] EXCEPT !.pc = next]
  <2>2. j \in Job /\ j.pc = next /\ j.build = "no"
    BY <1>2, <1>3, <1>4, Points2 DEF Job
  <2>3. job' = [job EXCEPT ![t] = NoJob] \/ job' = [job EXCEPT ![t] = j]
    BY DEF Bump, Done, Go
  <2> HIDE DEF j, next
  <2> QED BY <1>4, <2>1, <2>2, <2>3
<1>6. PICK j \in Job : /\ job' = [job EXCEPT ![t] = j] /\ j.build = "no"
                       /\ j.pc \in {"ask", "forget", "idle", "untomb"}
  BY <1>5
<1>7. /\ version' = version + 1 /\ writeLock' = None /\ None # t
      /\ UNCHANGED <<tables, toggles, up, retained, cache, overlayLock, fileLock, cli, tally, ghosts>>
  BY NoneAssumption DEF Bump, Bumped
<1>8. Held(writeLock', overlayLock', fileLock', t, j)
  BY <1>3, <1>6, <1>7 DEF Held, WritePcs, FilePcs
<1>9. TypeOK'
  <2>1. version' \in Nat
    BY <1>1, <1>7
  <2>2. /\ Passed(writeLock, writeLock', t) /\ Passed(overlayLock, overlayLock', t)
        /\ Passed(fileLock, fileLock', t)
    BY <1>3, <1>7 DEF Passed
  <2> QED BY <1>1, <1>6, <1>7, <1>8, <2>1, <2>2, TypeKept DEF IInv, tables, ghosts
<1>10. (\A u \in Threads : Sane(job[u]))'
  <2>1. \A u \in Threads : job'[u] = IF u = t THEN j ELSE job[u]
    BY <1>6 DEF IInv, TypeOK
  <2>2. \A u \in Threads : Sane(job[u]) /\ job[u].seen \in Nat
    BY JobFields DEF IInv, TypeOK
  <2>3. \A u \in Threads \ {t} : job[u].build # "no" => job[u].seen < version'
    BY <1>1, <1>7, <2>2 DEF Sane
  <2>4. \A u \in Threads : job'[u].build # "no" => u # t /\ job'[u].seen < version'
    BY <1>6, <2>1, <2>3
  <2> QED BY <1>1, <1>6, <1>7, <2>1, <2>2, <2>4 DEF Sane, tables
<1>11. RowsSound'
  BY <1>7 DEF IInv, RowsSound, SecretsKept, tables, ghosts
<1>12. CacheSound'
  BY <1>1, <1>7 DEF IInv, CacheSound
<1> QED BY <1>3, <1>7, <1>9, <1>10, <1>11, <1>12 DEF IInv

LEMMA Untombs ==
  ASSUME IInv, FatesTyped', NEW t \in Threads, Untomb(t)
  PROVE  IInv'
<1>1. /\ live \subseteq Ids /\ tombs \subseteq Ids /\ secrets \in [Ids -> Envelope]
      /\ stored \in [Ids -> Envelope] /\ gone \in [Ids -> Nat]
      /\ toggles \in [Ids -> Toggle] /\ tally \in [ops : Nat, faults : Nat, crashes : Nat]
      /\ run \subseteq Ids /\ retained \subseteq Ids /\ version \in Nat
      /\ cache \in [version : Int, known : SUBSET Ids, secrets : [Ids -> Envelope]]
      /\ job \in [Threads -> Job] /\ job[t].value \in Nat
      /\ live \cap tombs = {}
  BY JobFields DEF IInv, TypeOK, RowsSound
<1>2. Locks(t, job[t]) /\ Sane(job[t]) /\ job[t].pc = "untomb"
  BY TypeSplit DEF IInv, Untomb
<1>3. job[t].build = "no" /\ up /\ writeLock # t /\ fileLock # t /\ overlayLock # t
  BY <1>2, Points, Running DEF Sane, Held, Locks, WritePcs, FilePcs
<1>4. NoJob \in Job /\ NoJob.pc = "idle" /\ NoJob.build = "no"
  BY NoJobTyped DEF NoJob
<1>5. /\ job' = [job EXCEPT ![t] = NoJob]
      /\ UNCHANGED <<live, secrets, toggles, process, fileLock, cli, tally, stored, run>>
  BY DEF Untomb, Done
<1>6. tombs' \subseteq tombs /\ (job[t].had => tombs' = tombs) /\ tombs \ {job[t].id} \subseteq tombs'
  BY DEF Untomb, Untombed
<1>9. Held(writeLock', overlayLock', fileLock', t, NoJob)
  BY <1>3, <1>4, <1>5 DEF Held, WritePcs, FilePcs, process
<1>10. TypeOK'
  <2>1. tombs' \subseteq Ids
    BY <1>1, <1>6
  <2> QED BY <1>1, <1>4, <1>5, <1>9, <2>1, TypeKept DEF IInv, Passed, process
<1>11. (\A u \in Threads : Sane(job[u]))'
  <2>1. \A u \in Threads : job'[u] = IF u = t THEN NoJob ELSE job[u]
    BY <1>1, <1>5
  <2> QED BY <1>4, <1>5, <2>1 DEF IInv, Sane, process
<1>13. RowsSound'
  BY <1>1, <1>5, <1>6 DEF IInv, RowsSound, SecretsKept
<1>14. CacheSound'
  BY <1>5, <1>6 DEF IInv, CacheSound, process
<1> QED BY <1>3, <1>5, <1>10, <1>11, <1>13, <1>14 DEF IInv, process

-----------------------------------------------------------------------------
(* The types of what is remembered of the deletions. *)

LEMMA Fated ==
  ASSUME IInv, [Next]_vars
  PROVE  FatesTyped'
<1>1. /\ gone \in [Ids -> Nat] /\ deleted \subseteq Ids /\ overtaken \subseteq Ids /\ live \subseteq Ids
      /\ job \in [Threads -> Job]
  BY DEF IInv, TypeOK
<1>2. \A t \in Threads : job[t].value \in Nat
  BY <1>1, JobFields
<1>3. ASSUME NEW t \in Threads, CreateStart(t) PROVE FatesTyped'
  <2>1. PICK x \in Ids : overtaken' \in {overtaken, overtaken \cup {x}}
    BY <1>3 DEF CreateStart
  <2> QED BY <1>1, <1>3, <2>1 DEF CreateStart, FatesTyped
<1>4. ASSUME NEW t \in Threads, CreateCommit(t) PROVE FatesTyped'
  BY <1>1, <1>4 DEF CreateCommit, FatesTyped
<1>5. ASSUME NEW t \in Threads, DeleteCommit(t) PROVE FatesTyped'
  <2>1. CASE job[t].id \in live
    <3>1. /\ gone' = [gone EXCEPT ![job[t].id] = job[t].value]
          /\ deleted' = deleted \cup {job[t].id}
          /\ overtaken' \in {overtaken \ {job[t].id}, overtaken \cup {job[t].id}}
      BY <1>5, <2>1 DEF DeleteCommit
    <3> QED BY <1>1, <1>2, <2>1, <3>1 DEF FatesTyped
  <2>2. CASE job[t].id \notin live
    BY <1>1, <1>5, <2>2 DEF DeleteCommit, FatesTyped, fates
  <2> QED BY <2>1, <2>2
<1>6. ASSUME NEW t \in Threads, SwitchOff(t) PROVE FatesTyped'
  BY <1>1, <1>6 DEF SwitchOff, FatesTyped
<1>7. ASSUME NEW t \in Threads, Untomb(t) PROVE FatesTyped'
  BY <1>1, <1>2, <1>7 DEF Untomb, FatesTyped
<1>8. CASE UNCHANGED fates
  BY <1>1, <1>8 DEF FatesTyped, fates
<1>9. CASE Crash
  BY <1>1, <1>9 DEF Crash, FatesTyped
<1>10. ASSUME NEW t \in Threads, Arrival(t) \/ Step(t) \/ FileFails(t) PROVE FatesTyped'
  <2>1. \/ CreateStart(t) \/ CreateCommit(t) \/ DeleteCommit(t) \/ SwitchOff(t) \/ Untomb(t)
        \/ UNCHANGED fates
    BY <1>10 DEF Arrival, DeleteStart, UpdateStart, PageStart, PageFlip, PageLeft, RunStart, Step,
       UpdateRead, UpdateCommit, Bump, OverlayHit, OverlayMiss, OverlayBuild, OverlayStore, LockFile,
       Forget, CreateKnown, Undo, PageLoaded, PageSaved, RunPlan, FileFails, ghosts
  <2> QED BY <1>3, <1>4, <1>5, <1>6, <1>7, <1>8, <2>1
<1>11. Seed \/ Startup \/ RotateRead \/ RotateEnd \/ UNCHANGED vars => UNCHANGED fates
  BY DEF Seed, Startup, RotateRead, RotateEnd, vars, ghosts
<1> QED BY <1>8, <1>9, <1>10, <1>11 DEF Next

-----------------------------------------------------------------------------
(* Startup, crash and rotation. *)

LEMMA Outside ==
  ASSUME IInv, FatesTyped', Seed \/ Startup \/ Crash \/ RotateRead \/ RotateEnd
  PROVE  IInv'
<1>1. CASE Seed
  <2>1. UNCHANGED <<secrets, tombs, toggles, process, fileLock, job, cli, tally, ghosts>> /\ ~up
    BY <1>1 DEF Seed
  <2>2. PICK x \in Seedable : live' = live \cup {x}
    BY <1>1 DEF Seed
  <2>3. x \in Ids /\ x \notin tombs
    BY IdAssumption DEF Seedable
  <2>4. TypeOK'
    BY <2>1, <2>2, <2>3 DEF IInv, TypeOK, Holds, process, fates, ghosts
  <2>5. (\A u \in Threads : Sane(job[u]))'
    <3>1. \A u \in Threads : job'[u] = NoJob
      BY <2>1 DEF IInv
    <3> QED BY <3>1 DEF Sane, NoJob
  <2>6. RowsSound'
    BY <2>1, <2>2, <2>3 DEF IInv, RowsSound, SecretsKept, ghosts
  <2>7. CacheSound'
    BY <2>1 DEF IInv, TypeOK, CacheSound, process
  <2> QED BY <2>1, <2>4, <2>5, <2>6, <2>7 DEF IInv, process
<1>2. CASE Startup
  <2>1. /\ UNCHANGED <<tables, toggles, version, cache, writeLock, overlayLock, fileLock, job, cli, tally, ghosts>>
        /\ ~up /\ up' = TRUE /\ retained' \subseteq Ids
    BY <1>2, IdAssumption DEF Startup
  <2>2. up' \in BOOLEAN
    BY <2>1, Zenon
  <2>3. TypeOK'
    BY <2>1, <2>2 DEF IInv, TypeOK, Holds, tables, fates, ghosts
  <2>4. (\A u \in Threads : Sane(job[u]))'
    BY <2>1 DEF IInv, Sane, tables
  <2>5. RowsSound' /\ CacheSound'
    BY <2>1 DEF IInv, TypeOK, RowsSound, CacheSound, SecretsKept, tables, ghosts
  <2> QED BY <2>1, <2>3, <2>4, <2>5 DEF IInv
<1>3. CASE Crash
  <2>1. /\ UNCHANGED <<tables, toggles, cli, stored>>
        /\ up' = FALSE /\ retained' = {} /\ version' = 0 /\ cache' = NoCache
        /\ writeLock' = None /\ overlayLock' = None /\ fileLock' = None
        /\ job' = [u \in Threads |-> NoJob] /\ run' = {}
        /\ tally' = [tally EXCEPT !.crashes = tally.crashes + 1]
    BY <1>3 DEF Crash
  <2>2. up' \in BOOLEAN
    BY <2>1, Zenon
  <2>3. cache' \in [version : Int, known : SUBSET Ids, secrets : [Ids -> Envelope]]
        /\ cache'.version = -1
    BY <2>1, BlankTyped DEF NoCache, Store
  <2>4. tally' \in [ops : Nat, faults : Nat, crashes : Nat]
    BY <2>1 DEF IInv, TypeOK
  <2>5. \A u \in Threads : job'[u] = NoJob
    BY <2>1
  <2>6. TypeOK'
    <3>1. {"merge"} \cup DOMAIN After = WritePcs
      BY Points DEF WritePcs
    <3>2. NoJob.pc = "idle" /\ NoJob.build = "no"
      BY DEF NoJob
    <3> QED BY <2>1, <2>2, <2>3, <2>4, <2>5, <3>1, <3>2, NoJobTyped, NoneAssumption
         DEF IInv, TypeOK, FatesTyped, Holds, WritePcs, tables
  <2>7. (\A u \in Threads : Sane(job[u]))'
    BY <2>5 DEF Sane, NoJob
  <2>8. RowsSound' /\ CacheSound'
    BY <2>1, <2>3 DEF IInv, RowsSound, CacheSound, SecretsKept, tables
  <2> QED BY <2>1, <2>3, <2>5, <2>6, <2>7, <2>8 DEF IInv
<1>4. CASE RotateRead
  <2>1. /\ UNCHANGED <<tables, toggles, process, fileLock, job, ghosts>>
        /\ cli' = [on |-> TRUE, locked |-> TRUE, read |-> secrets]
        /\ tally' = [tally EXCEPT !.ops = tally.ops + 1]
    BY <1>4 DEF RotateRead, Immediate
  <2>2. cli' \in [on : BOOLEAN, locked : BOOLEAN, read : [Ids -> Envelope]]
        /\ cli'.locked /\ cli'.read = secrets
    <3>1. \A a, b \in BOOLEAN : [on |-> a, locked |-> b, read |-> secrets]
                                  \in [on : BOOLEAN, locked : BOOLEAN, read : [Ids -> Envelope]]
      BY DEF IInv, TypeOK
    <3> QED BY <2>1, <3>1
  <2>3. tally' \in [ops : Nat, faults : Nat, crashes : Nat]
    BY <2>1 DEF IInv, TypeOK
  <2>4. TypeOK'
    BY <2>1, <2>2, <2>3 DEF IInv, TypeOK, Holds, tables, process, fates, ghosts
  <2>5. (\A u \in Threads : Sane(job[u]))'
    BY <2>1 DEF IInv, Sane, tables, process
  <2>6. RowsSound' /\ CacheSound'
    BY <2>1, <2>2 DEF IInv, RowsSound, CacheSound, SecretsKept, tables, ghosts, process
  <2> QED BY <2>1, <2>4, <2>5, <2>6 DEF IInv, process
<1>5. CASE RotateEnd
  <2>1. /\ UNCHANGED <<live, tombs, toggles, process, fileLock, job, tally, ghosts>>
        /\ cli' = NoCli
    BY <1>5 DEF RotateEnd
  <2>2. secrets \in [Ids -> Envelope] /\ cli.on /\ cli.read = secrets
    BY <1>5 DEF RotateEnd, IInv, TypeOK, RowsSound
  <2>3. secrets' = secrets
    BY <1>5, <2>2 DEF RotateEnd
  <2>4. cli' \in [on : BOOLEAN, locked : BOOLEAN, read : [Ids -> Envelope]] /\ ~cli'.on
    <3>1. \A a, b \in BOOLEAN : [on |-> a, locked |-> b, read |-> NoStore.secrets]
                                  \in [on : BOOLEAN, locked : BOOLEAN, read : [Ids -> Envelope]]
      BY BlankTyped DEF Store
    <3> QED BY <2>1, <3>1 DEF NoCli
  <2>5. TypeOK'
    BY <2>1, <2>3, <2>4 DEF IInv, TypeOK, Holds, process, fates, ghosts
  <2>6. (\A u \in Threads : Sane(job[u]))'
    BY <2>1, <2>3 DEF IInv, Sane, process
  <2>7. RowsSound' /\ CacheSound'
    BY <2>1, <2>3, <2>4 DEF IInv, RowsSound, CacheSound, SecretsKept, ghosts, process
  <2> QED BY <2>1, <2>5, <2>6, <2>7 DEF IInv, process
<1> QED BY <1>1, <1>2, <1>3, <1>4, <1>5

-----------------------------------------------------------------------------
(* Theorems. *)

LEMMA InitSound == Init => IInv
<1> SUFFICES ASSUME Init PROVE IInv
  OBVIOUS
<1>1. \A t \in Threads : job[t] = NoJob
  BY DEF Init
<1>2. NoJob.pc = "idle" /\ NoJob.build = "no"
  BY DEF NoJob
<1>3. {"merge"} \cup DOMAIN After = WritePcs
  BY Points DEF WritePcs
<1>4. up \in BOOLEAN
  <2>1. up = FALSE
    BY DEF Init
  <2> QED BY <2>1, Zenon
<1>5. cli \in [on : BOOLEAN, locked : BOOLEAN, read : [Ids -> Envelope]] /\ ~cli.on
  <2>1. \A a, b \in BOOLEAN : [on |-> a, locked |-> b, read |-> NoStore.secrets]
                                \in [on : BOOLEAN, locked : BOOLEAN, read : [Ids -> Envelope]]
    BY BlankTyped DEF Store
  <2> QED BY <2>1 DEF Init, NoCli
<1>6. /\ cache \in [version : Int, known : SUBSET Ids, secrets : [Ids -> Envelope]]
      /\ cache.version = -1
  BY BlankTyped DEF Init, NoCache, Store
<1>7. /\ toggles \in [Ids -> Toggle] /\ secrets \in [Ids -> Envelope] /\ stored = secrets
      /\ gone \in [Ids -> Nat]
  BY BlankTyped DEF Init, Unset, Toggle, Store
<1>8. job \in [Threads -> Job]
  BY NoJobTyped DEF Init
<1>9. TypeOK
  BY <1>1, <1>2, <1>3, <1>4, <1>5, <1>6, <1>7, <1>8, NoneAssumption
     DEF Init, TypeOK, Holds, WritePcs
<1>10. (\A t \in Threads : Sane(job[t])) /\ RowsSound /\ CacheSound
  BY <1>1, <1>2, <1>5, <1>6, <1>7
     DEF Init, Sane, RowsSound, CacheSound, SecretsKept
<1> QED BY <1>1, <1>6, <1>9, <1>10 DEF Init, IInv

LEMMA StepSound == IInv /\ [Next]_vars => IInv'
<1> SUFFICES ASSUME IInv, [Next]_vars PROVE IInv'
  OBVIOUS
<1>0. FatesTyped'
  BY Fated
<1>1. CASE UNCHANGED vars
  BY <1>1 DEF vars, tables, process, ghosts, fates, IInv, TypeOK, Holds, Sane, RowsSound, CacheSound,
              SecretsKept
<1>2. ASSUME NEW t \in Threads, Arrival(t) \/ Step(t) \/ FileFails(t)
      PROVE  IInv'
  BY <1>2, <1>0, Arrivals, FileSteps, OverlayReads, OverlayStored, Writes, Bumps, Untombs
     DEF Arrival, Step
<1> QED BY <1>0, <1>1, <1>2, Outside DEF Next

LEMMA Inductive == Spec => []IInv
BY InitSound, StepSound, PTL DEF Spec

\* Types, and who may hold which lock, at every step of every instance.
THEOREM TypeCorrect == Spec => []TypeOK
<1>1. IInv => TypeOK
  BY DEF IInv
<1> QED BY <1>1, Inductive, PTL

\* What env() answers from the cache is what the store says, unless a write waits
\* for its bump: no reader is served an overlay older than the last finished write.
THEOREM CacheIsFresh == Spec => []OverlayFresh
<1>1. IInv => OverlayFresh
  BY DEF IInv, CacheSound, OverlayFresh, LiveUnseeded
<1> QED BY <1>1, Inductive, PTL

\* An acknowledged secret survives every other request, rotation and crash.
THEOREM SecretsSurvive == Spec => []SecretsKept
<1>1. IInv => SecretsKept
  BY DEF IInv, RowsSound
<1> QED BY <1>1, Inductive, PTL



\* Only a thread with the lock, or one that finds it free, writes the file.
LEMMA FileWriters ==
  ASSUME IInv, NEW t \in Threads, Arrival(t) \/ Step(t) \/ FileFails(t)
  PROVE  /\ \A u \in Threads \ {t} : job'[u] = job[u]
         /\ toggles' = toggles \/ fileLock \in {t, None}
<1>1. job \in [Threads -> Job] /\ (fileLock = t <=> job[t].pc \in FilePcs)
  BY TypeSplit DEF IInv, TypeOK, Held, Locks
<1>2. \A u \in Threads \ {t} : job'[u] = job[u]
  <2>1. ASSUME Arrival(t) PROVE \A u \in Threads \ {t} : job'[u] = job[u]
    BY <1>1, <2>1 DEF Arrival, CreateStart, DeleteStart, UpdateStart, PageStart, PageFlip, PageLeft,
       RunStart, Done
  <2>2. ASSUME Step(t) \/ FileFails(t) PROVE \A u \in Threads \ {t} : job'[u] = job[u]
    BY <1>1, <2>2 DEF Step, CreateCommit, DeleteCommit, UpdateRead, UpdateCommit, Bump, OverlayHit,
       OverlayMiss, OverlayBuild, OverlayStore, LockFile, Forget, CreateKnown, SwitchOff, Undo, Untomb,
       PageLoaded, PageSaved, RunPlan, FileFails, Remove, Go, Done
  <2> QED BY <2>1, <2>2
<1>3. toggles' = toggles \/ Forget(t) \/ SwitchOff(t) \/ PageSaved(t)
  BY DEF Arrival, CreateStart, DeleteStart, UpdateStart, PageStart, PageFlip, PageLeft, RunStart,
     Step, CreateCommit, DeleteCommit, UpdateRead, UpdateCommit, Bump, OverlayHit, OverlayMiss,
     OverlayBuild, OverlayStore, LockFile, CreateKnown, Undo, Untomb, PageLoaded, RunPlan, FileFails
<1>4. Forget(t) \/ SwitchOff(t) \/ PageSaved(t) => fileLock \in {t, None}
  BY <1>1 DEF Forget, SwitchOff, PageSaved, FilePcs
<1> QED BY <1>2, <1>3, <1>4

-----------------------------------------------------------------------------
(* What is left of a deletion: the second inductive invariant. *)

\* A create before a rollback removes its row again, and after.
Row == {"created", "ask", "known", "switch", "toggle", "toggled", "undo"}
Late == {"undone", "untomb"}

\* A deleted id has no row and a tombstone.
Gone == \A x \in Ids \ overtaken : gone[x] # 0 => x \notin live /\ x \in tombs

\* A rollback that will remove the tombstone of its id has nobody's deletion to lose.
Sole ==
  \A t \in Threads, x \in Ids \ overtaken :
    job[t].pc \in Made /\ job[t].id = x /\ ~job[t].had => gone[x] = 0

\* Two creates of one id overlap.
Alone ==
  \A t, u \in Threads, x \in Ids \ overtaken :
    job[t].pc \in Making /\ job[u].pc \in Making /\ job[t].id = x /\ job[u].id = x => t = u

\* What was answered as deleted is gone, or on its way to be created or gone again.
Pending(t, x) ==
  /\ job[t].id = x /\ job[t].had
  /\ \/ job[t].pc \in Row /\ x \in live
     \/ job[t].pc \in Late /\ x \in tombs

Lasting == \A x \in deleted \ overtaken : gone[x] # 0 \/ \E t \in Threads : Pending(t, x)

\* A create of a deleted id has read its tombstone; creates and deletions have numbers.
Noticed ==
  \A t \in Threads :
    /\ job[t].pc = "create" /\ job[t].id \in deleted \ overtaken => job[t].had
    /\ job[t].pc \in Making \cup {"delete"} => job[t].value # 0

Deletions == Gone /\ Sole /\ Alone /\ Lasting /\ Noticed

LEMMA Phases == Made = Row \cup Late /\ Making = Made \cup {"create"}
BY DEF Made, Making, Row, Late

\* What a step leaves of a request that is no commit, answer or end of a rollback.
Goes(j, k) ==
  /\ k.pc \in Making \cup {"delete"} => k.value # 0
  /\ k.pc \in Making => k.id = j.id /\ k.had = j.had
  /\ k.pc \in Row <=> j.pc \in Row
  /\ k.pc \in Late <=> j.pc \in Late
  /\ k.pc = "create" => j.pc = "create"

LEMMA GoesKeeps ==
  ASSUME Deletions, NEW t \in Threads, \A u \in Threads \ {t} : job'[u] = job[u],
         UNCHANGED <<live, tombs, fates>>, Goes(job[t], job'[t])
  PROVE  Deletions'
<1>1. UNCHANGED <<live, tombs, gone, deleted, overtaken>>
  BY DEF fates
<1>2. \A u \in Threads : Goes(job[u], job'[u])
  BY Phases DEF Goes, Deletions, Noticed
<1>3. \A u \in Threads : /\ job'[u].pc \in Made => job[u].pc \in Made
                         /\ job'[u].pc \in Making => job[u].pc \in Making
  BY <1>2, Phases DEF Goes
<1>4. Gone'
  BY <1>1 DEF Deletions, Gone
<1>5. Sole'
  BY <1>1, <1>2, <1>3, Phases DEF Deletions, Sole, Goes
<1>6. Alone'
  BY <1>1, <1>2, <1>3 DEF Deletions, Alone, Goes
<1>7. Lasting'
  <2>1. \A u \in Threads, x \in deleted : Pending(u, x) => Pending(u, x)'
    BY <1>1, <1>2, Phases DEF Pending, Goes
  <2> QED BY <1>1, <2>1 DEF Deletions, Lasting
<1>8. Noticed'
  BY <1>1, <1>2, Phases DEF Deletions, Noticed, Goes
<1> QED BY <1>4, <1>5, <1>6, <1>7, <1>8 DEF Deletions

\* A request that ends or was at no create, and one that goes on with a create.
LEMMA Ends ==
  ASSUME NEW j, NEW k, j.pc \notin Row \cup Late, k.pc \notin Making \cup {"delete"}
  PROVE  Goes(j, k)
BY Phases DEF Goes

LEMMA Moves ==
  ASSUME Deletions, NEW t \in Threads, NEW k, k.id = job[t].id, k.had = job[t].had,
         k.value = job[t].value, k.pc \in Row <=> job[t].pc \in Row,
         k.pc \in Late <=> job[t].pc \in Late, k.pc \notin {"create", "delete"}
  PROVE  Goes(job[t], k)
BY Phases DEF Goes, Deletions, Noticed

LEMMA Shapes ==
  ASSUME IInv, NEW t \in Threads
  PROVE  /\ job \in [Threads -> Job] /\ job[t] \in Job
         /\ NoJob.pc = "idle" /\ NoJob.pc \notin Row \cup Late \cup Making \cup {"create", "delete"}
BY Phases DEF IInv, TypeOK, NoJob, Row, Late

\* Requests arrive, pages and runs.
LEMMA ArrivalsGo ==
  ASSUME IInv, Deletions, NEW t \in Threads,
         DeleteStart(t) \/ UpdateStart(t) \/ PageStart(t) \/ PageFlip(t) \/ PageLeft(t) \/ RunStart(t)
  PROVE  Deletions'
<1>1. job \in [Threads -> Job] /\ job[t] \in Job /\ Value # 0
  BY DEF IInv, TypeOK, Value
<1>2. job[t].pc \in {"idle", "page"}
  BY DEF DeleteStart, UpdateStart, PageStart, PageFlip, PageLeft, RunStart, Start
<1>3. /\ \A u \in Threads \ {t} : job'[u] = job[u]
      /\ UNCHANGED <<live, tombs, fates>>
  BY <1>1 DEF DeleteStart, UpdateStart, PageStart, PageFlip, PageLeft, RunStart, Done, tables, ghosts
<1>4. /\ job'[t].pc \in {"delete", "update", "get", "put", "idle", "snap"}
      /\ job'[t].pc = "delete" => job'[t].value # 0
  <2>1. CASE DeleteStart(t)
    <3>1. PICK x \in live : job' = [job EXCEPT ![t] =
              [NoJob EXCEPT !.pc = "delete", !.id = x, !.value = Value]]
      BY <2>1 DEF DeleteStart
    <3> QED BY <1>1, <3>1 DEF NoJob
  <2>2. CASE UpdateStart(t)
    <3>1. PICK x \in live, n \in Names : job' = [job EXCEPT ![t] =
              [NoJob EXCEPT !.pc = "update", !.id = x, !.name = n, !.value = Value]]
      BY <2>2 DEF UpdateStart
    <3> QED BY <1>1, <3>1 DEF NoJob
  <2>3. CASE PageFlip(t)
    <3>1. PICK x \in Ids : job' = [job EXCEPT ![t].pc = "put", ![t].id = x,
                 ![t].file = [job[t].file EXCEPT ![x] = IF @ = "on" THEN "off" ELSE "on"]]
      BY <2>3 DEF PageFlip
    <3> QED BY <1>1, <3>1 DEF Job
  <2>4. CASE PageStart(t)
    BY <1>1, <2>4 DEF PageStart, NoJob
  <2>5. CASE PageLeft(t)
    BY <1>1, <2>5 DEF PageLeft, Done, NoJob
  <2>6. CASE RunStart(t)
    BY <1>1, <2>6 DEF RunStart, NoJob
  <2> QED BY <2>1, <2>2, <2>3, <2>4, <2>5, <2>6
<1>5. Goes(job[t], job'[t])
  BY <1>2, <1>4 DEF Goes, Making, Made, Row, Late
<1> QED BY <1>3, <1>5, GoesKeeps

\* The steps between a commit and an answer.
LEMMA StepsGo ==
  ASSUME IInv, Deletions, NEW t \in Threads,
         \/ UpdateRead(t) \/ UpdateCommit(t) \/ Bump(t)
         \/ OverlayHit(t) \/ OverlayMiss(t) \/ OverlayBuild(t) \/ OverlayStore(t)
         \/ LockFile(t) \/ Forget(t) \/ CreateKnown(t) \/ FileFails(t)
         \/ PageLoaded(t) \/ PageSaved(t) \/ RunPlan(t)
  PROVE  Deletions'
<1>1. job \in [Threads -> Job] /\ job[t] \in Job
  BY Shapes
<1>2. NoJob.pc \notin Making \cup {"delete"}
  BY Shapes
<1>3. \A u \in Threads \ {t} : job'[u] = job[u]
  BY FileWriters DEF Step
<1>4. UNCHANGED <<live, tombs, fates>>
  BY DEF UpdateRead, UpdateCommit, Bump, OverlayHit, OverlayMiss, OverlayBuild, OverlayStore, LockFile,
     Forget, CreateKnown, FileFails, PageLoaded, PageSaved, RunPlan, tables, ghosts
<1>5. ASSUME job'[t] = NoJob, job[t].pc \notin Row \cup Late PROVE Goes(job[t], job'[t])
  BY <1>2, <1>5, Ends
<1>6. ASSUME job'[t].id = job[t].id, job'[t].had = job[t].had, job'[t].value = job[t].value,
             job'[t].pc \in Row <=> job[t].pc \in Row, job'[t].pc \in Late <=> job[t].pc \in Late,
             job'[t].pc \notin {"create", "delete"}
      PROVE  Goes(job[t], job'[t])
  BY <1>6, Moves
<1>7. CASE UpdateRead(t)
  <2>1. ASSUME job[t].id \in live PROVE Goes(job[t], job'[t])
    BY <1>1, <1>6, <1>7, <2>1 DEF UpdateRead, Job, Row, Late
  <2>2. ASSUME job[t].id \notin live PROVE Goes(job[t], job'[t])
    BY <1>1, <1>5, <1>7, <2>2 DEF UpdateRead, Done, Row, Late
  <2> QED BY <1>3, <1>4, <2>1, <2>2, GoesKeeps
<1>8. CASE UpdateCommit(t)
  <2>1. Goes(job[t], job'[t])
    BY <1>1, <1>6, <1>8 DEF UpdateCommit, Go, Job, Row, Late
  <2> QED BY <1>3, <1>4, <2>1, GoesKeeps
<1>9. CASE Bump(t)
  <2>1. job[t].pc \in {"created", "deleted", "updated", "undone"}
    BY <1>9, Points DEF Bump
  <2>2. ASSUME job[t].pc = "updated" PROVE Goes(job[t], job'[t])
    BY <1>1, <1>5, <1>9, <2>2, Points DEF Bump, Done, Row, Late
  <2>3. ASSUME job[t].pc # "updated" PROVE Goes(job[t], job'[t])
    <3>1. After[job[t].pc] \in {"ask", "forget", "untomb"}
      BY <2>1, <2>3, Points
    <3>2. job' = [job EXCEPT ![t].pc = After[job[t].pc]]
      BY <1>9, <3>1 DEF Bump, Go
    <3>3. /\ job'[t].id = job[t].id /\ job'[t].had = job[t].had /\ job'[t].value = job[t].value
          /\ job'[t].pc = After[job[t].pc]
      BY <1>1, <3>2 DEF Job
    <3> QED BY <1>6, <2>1, <2>3, <3>3, Points DEF Row, Late
  <2> QED BY <1>3, <1>4, <2>2, <2>3, GoesKeeps
<1>10. CASE OverlayHit(t) \/ OverlayMiss(t) \/ OverlayBuild(t) \/ OverlayStore(t)
  <2>1. job[t].pc \in DOMAIN Return
    BY <1>10 DEF OverlayHit, OverlayMiss, OverlayBuild, OverlayStore, IInv, Sane
  <2>2. /\ job'[t].pc \in {job[t].pc, Return[job[t].pc]}
        /\ job'[t].id = job[t].id /\ job'[t].had = job[t].had /\ job'[t].value = job[t].value
    <3>1. CASE OverlayHit(t)
      BY <1>1, <3>1 DEF OverlayHit, Job
    <3>2. CASE OverlayMiss(t)
      BY <1>1, <3>2 DEF OverlayMiss, Job
    <3>3. CASE OverlayBuild(t)
      BY <1>1, <3>3 DEF OverlayBuild, Job
    <3>4. CASE OverlayStore(t)
      BY <1>1, <3>4 DEF OverlayStore, Job
    <3> QED BY <1>10, <3>1, <3>2, <3>3, <3>4
  <2>3. Goes(job[t], job'[t])
    BY <1>6, <2>1, <2>2, Points DEF Row, Late
  <2> QED BY <1>3, <1>4, <2>3, GoesKeeps
<1>11. CASE LockFile(t)
  <2>1. job[t].pc \in DOMAIN Under /\ job'[t].pc = Under[job[t].pc]
        /\ job'[t].id = job[t].id /\ job'[t].had = job[t].had /\ job'[t].value = job[t].value
    BY <1>1, <1>11 DEF LockFile, Job
  <2>2. Goes(job[t], job'[t])
    BY <1>6, <2>1, Points DEF Row, Late
  <2> QED BY <1>3, <1>4, <2>2, GoesKeeps
<1>12. CASE Forget(t) \/ PageSaved(t) \/ RunPlan(t)
  <2>1. job'[t] = NoJob /\ job[t].pc \notin Row \cup Late
    BY <1>1, <1>12 DEF Forget, PageSaved, RunPlan, Done, Row, Late
  <2> QED BY <1>3, <1>4, <1>5, <2>1, GoesKeeps
<1>13. CASE CreateKnown(t)
  <2>1. job[t].pc = "known" /\ \E pc \in {"switch", "undo"} : job' = [job EXCEPT ![t].pc = pc]
    BY <1>13 DEF CreateKnown, Refused, Go
  <2>2. /\ job'[t].id = job[t].id /\ job'[t].had = job[t].had /\ job'[t].value = job[t].value
        /\ job'[t].pc \in {"switch", "undo"}
    BY <1>1, <2>1 DEF Job
  <2>3. Goes(job[t], job'[t])
    BY <1>6, <2>1, <2>2 DEF Row, Late
  <2> QED BY <1>3, <1>4, <2>3, GoesKeeps
<1>14. CASE FileFails(t)
  <2>1. ASSUME job[t].pc = "toggled", job' = [job EXCEPT ![t].pc = "undo"] PROVE Goes(job[t], job'[t])
    BY <1>1, <1>6, <2>1 DEF Job, Row, Late
  <2>2. ASSUME job[t].pc = "saved", job' = [job EXCEPT ![t] = NoJob] PROVE Goes(job[t], job'[t])
    BY <1>1, <1>5, <2>2 DEF Row, Late
  <2> QED BY <1>3, <1>4, <1>14, <2>1, <2>2, GoesKeeps DEF FileFails, Go, Done
<1>15. CASE PageLoaded(t)
  <2>1. Goes(job[t], job'[t])
    BY <1>1, <1>6, <1>15 DEF PageLoaded, Job, Row, Late
  <2> QED BY <1>3, <1>4, <2>1, GoesKeeps
<1> QED BY <1>7, <1>8, <1>9, <1>10, <1>11, <1>12, <1>13, <1>14, <1>15

\* A create that begins has read the tombstone of a deletion nobody is undoing.
LEMMA CreateStartKeeps ==
  ASSUME IInv, Deletions, NEW t \in Threads, CreateStart(t)
  PROVE  Deletions'
<1>1. job \in [Threads -> Job] /\ job[t].pc = "idle" /\ Value # 0
  BY DEF IInv, TypeOK, Value, CreateStart, Start
<1>2. PICK x \in Ids :
        /\ job' = [job EXCEPT ![t] =
             [NoJob EXCEPT !.pc = "create", !.id = x, !.value = Value, !.had = x \in tombs]]
        /\ overtaken' = IF Others(t, x, Making) = {} THEN overtaken ELSE overtaken \cup {x}
  BY DEF CreateStart
<1>3. /\ \A u \in Threads \ {t} : job'[u] = job[u]
      /\ job'[t].pc = "create" /\ job'[t].id = x /\ job'[t].value # 0 /\ job'[t].had = (x \in tombs)
  BY <1>1, <1>2 DEF NoJob
<1>4. UNCHANGED <<live, tombs, gone, deleted>> /\ overtaken \subseteq overtaken'
  BY <1>2 DEF CreateStart, tables
<1>5. x \notin overtaken' => \A u \in Threads \ {t} : ~(job[u].pc \in Making /\ job[u].id = x)
  BY <1>2 DEF Others, Holds
<1>6. job[t].pc \notin Making /\ job'[t].pc \in Making /\ job'[t].pc \notin Made
  BY <1>1, <1>3 DEF Making, Made
<1>7. Gone'
  BY <1>4 DEF Deletions, Gone
<1>8. Sole'
  BY <1>3, <1>4, <1>6 DEF Deletions, Sole
<1>9. Alone'
  BY <1>3, <1>4, <1>5, <1>6 DEF Deletions, Alone
<1>10. Lasting'
  <2>1. \A u \in Threads, y \in deleted : Pending(u, y) => Pending(u, y)'
    BY <1>3, <1>4, <1>6, Phases DEF Pending
  <2> QED BY <1>4, <2>1 DEF Deletions, Lasting
<1>11. Noticed'
  <2>1. ASSUME x \in deleted \ overtaken' PROVE x \in tombs
    <3>1. \A u \in Threads : ~Pending(u, x)
      BY <1>5, <1>6, <2>1, Phases DEF Pending
    <3> QED BY <1>4, <2>1, <3>1 DEF Deletions, Lasting, Gone
  <2> QED BY <1>3, <1>4, <2>1 DEF Deletions, Noticed
<1> QED BY <1>7, <1>8, <1>9, <1>10, <1>11 DEF Deletions

LEMMA CreateCommitKeeps ==
  ASSUME IInv, Deletions, NEW t \in Threads, CreateCommit(t)
  PROVE  Deletions'
<1> DEFINE x == job[t].id
<1>1. job \in [Threads -> Job] /\ job[t] \in Job /\ job[t].pc = "create" /\ x \in Ids
      /\ gone \in [Ids -> Nat]
  BY DEF IInv, TypeOK, Sane, CreateCommit
<1>2. CASE x \in live
  <2>1. /\ \A u \in Threads \ {t} : job'[u] = job[u]
        /\ job'[t] = NoJob /\ UNCHANGED <<live, tombs, fates>>
    BY <1>1, <1>2 DEF CreateCommit, Done, tables, fates
  <2>2. Goes(job[t], job'[t])
    BY <1>1, <2>1, Ends, Shapes DEF Row, Late
  <2> QED BY <2>1, <2>2, GoesKeeps
<1>3. CASE x \notin live
  <2>1. /\ \A u \in Threads \ {t} : job'[u] = job[u]
        /\ job'[t].pc = "created" /\ job'[t].id = x /\ job'[t].had = job[t].had
        /\ job'[t].value = job[t].value
    BY <1>1, <1>3 DEF CreateCommit, Go, Job
  <2>2. /\ live' = live \cup {x} /\ tombs' = tombs \ {x} /\ gone' = [gone EXCEPT ![x] = 0]
        /\ UNCHANGED <<deleted, overtaken>>
    BY <1>3 DEF CreateCommit
  <2> HIDE DEF x
  <2>3. x \notin overtaken => \A u \in Threads \ {t} : ~(job[u].pc \in Making /\ job[u].id = x)
    BY <1>1, Phases DEF Deletions, Alone, x
  <2>4. /\ job[t].pc \in Making /\ job[t].pc \notin Made /\ job'[t].pc \in Made /\ job[t].value # 0
        /\ job'[t].pc \in Making /\ job'[t].pc \in Row
    BY <1>1, <2>1, Phases DEF Row, Late, Deletions, Noticed
  <2>5. Gone'
    BY <1>1, <2>2 DEF Deletions, Gone
  <2>6. Sole'
    BY <1>1, <2>1, <2>2, <2>4 DEF Deletions, Sole
  <2>7. Alone'
    BY <2>1, <2>2, <2>4 DEF Deletions, Alone, x
  <2>8. Lasting'
    <3> SUFFICES ASSUME NEW y \in deleted', y \notin overtaken', gone'[y] = 0
                 PROVE  \E u \in Threads : Pending(u, y)'
      BY DEF Lasting
    <3>1. CASE y = x
      <4>1. job[t].had
        BY <1>1, <2>2, <3>1 DEF Deletions, Noticed, x
      <4>2. Pending(t, y)'
        BY <2>1, <2>2, <2>4, <3>1, <4>1 DEF Pending
      <4> QED BY <4>2
    <3>2. CASE y # x
      <4>1. PICK u \in Threads : Pending(u, y)
        BY <1>1, <2>2, <3>2 DEF Deletions, Lasting
      <4>2. u # t
        BY <2>4, <4>1, Phases DEF Pending
      <4> QED BY <2>1, <2>2, <3>2, <4>1, <4>2 DEF Pending
    <3> QED BY <3>1, <3>2
  <2>9. Noticed'
    BY <2>1, <2>2, <2>4 DEF Deletions, Noticed
  <2> QED BY <2>5, <2>6, <2>7, <2>8, <2>9 DEF Deletions
<1> QED BY <1>2, <1>3

LEMMA DeleteCommitKeeps ==
  ASSUME IInv, Deletions, NEW t \in Threads, DeleteCommit(t)
  PROVE  Deletions'
<1> DEFINE x == job[t].id
<1>1. job \in [Threads -> Job] /\ job[t] \in Job /\ job[t].pc = "delete" /\ gone \in [Ids -> Nat]
      /\ live \subseteq Ids
  BY DEF IInv, TypeOK, DeleteCommit
<1>2. CASE x \notin live
  <2>1. /\ \A u \in Threads \ {t} : job'[u] = job[u]
        /\ job'[t] = NoJob /\ UNCHANGED <<live, tombs, fates>>
    BY <1>1, <1>2 DEF DeleteCommit, Done, tables
  <2>2. Goes(job[t], job'[t])
    BY <1>1, <2>1, Ends, Shapes DEF Row, Late
  <2> QED BY <2>1, <2>2, GoesKeeps
<1>3. CASE x \in live
  <2>1. \A u \in Threads \ {t} : job'[u] = job[u]
    BY <1>1, <1>3 DEF DeleteCommit, Remove, Go
  <2>2. job'[t].pc = "deleted"
    BY <1>1, <1>3 DEF DeleteCommit, Remove, Go, Job
  <2>3. /\ live' = live \ {x} /\ tombs' = tombs \cup {x} /\ gone' = [gone EXCEPT ![x] = job[t].value]
        /\ deleted' = deleted \cup {x}
        /\ overtaken' = IF Others(t, x, Making) = {} THEN overtaken \ {x} ELSE overtaken \cup {x}
    BY <1>3 DEF DeleteCommit, Remove, Tombstoned
  <2>4. job[t].value # 0
    BY <1>1 DEF Deletions, Noticed
  <2> HIDE DEF x
  <2>5. x \notin overtaken' => \A u \in Threads : ~(job'[u].pc \in Making /\ job'[u].id = x)
    BY <2>1, <2>2, <2>3 DEF Others, Holds, Making, Made
  <2>6. \A y \in Ids \ {x} : (y \in overtaken' <=> y \in overtaken) /\ gone'[y] = gone[y]
    BY <1>1, <2>3
  <2>7. job'[t].pc \notin Making /\ job'[t].pc \notin Made /\ job[t].pc \notin Made
    BY <1>1, <2>2 DEF Making, Made
  <2>8. Gone'
    BY <1>1, <2>3, <2>6 DEF Deletions, Gone
  <2>9. Sole'
    BY <2>1, <2>5, <2>6, <2>7, Phases DEF Deletions, Sole
  <2>10. Alone'
    BY <2>1, <2>5, <2>6, <2>7 DEF Deletions, Alone
  <2>11. Lasting'
    <3> SUFFICES ASSUME NEW y \in deleted', y \notin overtaken', gone'[y] = 0
                 PROVE  \E u \in Threads : Pending(u, y)'
      BY DEF Lasting
    <3>1. y # x
      BY <1>1, <1>3, <2>3, <2>4 DEF x
    <3>2. y \in deleted /\ y \notin overtaken /\ y \in Ids /\ gone[y] = 0
      BY <2>3, <2>6, <3>1 DEF IInv, TypeOK
    <3>3. PICK u \in Threads : Pending(u, y)
      BY <3>2 DEF Deletions, Lasting
    <3>4. u # t
      BY <2>7, <3>3, Phases DEF Pending
    <3> QED BY <2>1, <2>3, <3>1, <3>3, <3>4 DEF Pending
  <2>12. Noticed'
    <3> SUFFICES ASSUME NEW u \in Threads
                 PROVE  /\ job'[u].pc = "create" /\ job'[u].id \in deleted' \ overtaken' => job'[u].had
                        /\ job'[u].pc \in Making \cup {"delete"} => job'[u].value # 0
      BY DEF Noticed
    <3>1. CASE u = t
      BY <2>2, <2>7, <3>1
    <3>2. CASE u # t
      <4>1. job'[u].pc = "create" /\ job'[u].id \in deleted' \ overtaken' =>
              job[u].id \in deleted \ overtaken
        BY <2>1, <2>3, <2>5, <3>2, Phases
      <4> QED BY <2>1, <3>2, <4>1 DEF Deletions, Noticed
    <3> QED BY <3>1, <3>2
  <2> QED BY <2>8, <2>9, <2>10, <2>11, <2>12 DEF Deletions
<1> QED BY <1>2, <1>3

\* A create that is answered leaves no deletion; one that is refused goes on.
LEMMA SwitchOffKeeps ==
  ASSUME IInv, Deletions, NEW t \in Threads, SwitchOff(t)
  PROVE  Deletions'
<1>1. job \in [Threads -> Job] /\ job[t] \in Job /\ job[t].pc = "toggled"
  BY DEF IInv, TypeOK, SwitchOff
<1>2. /\ \A u \in Threads \ {t} : job'[u] = job[u]
      /\ UNCHANGED <<live, tombs, gone, overtaken>>
  BY <1>1 DEF SwitchOff, Done, Go, tables
<1>3. CASE job[t].id \notin job[t].known
  <2>1. UNCHANGED <<live, tombs, fates>>
    BY <1>2, <1>3 DEF SwitchOff, fates
  <2>2. Goes(job[t], job'[t])
    BY <1>1, <1>3, Moves DEF SwitchOff, Go, Job, Row, Late
  <2> QED BY <1>2, <2>1, <2>2, GoesKeeps
<1>4. CASE job[t].id \in job[t].known
  <2>1. job'[t] = NoJob /\ deleted' = deleted \ {job[t].id}
    BY <1>1, <1>4 DEF SwitchOff, Done
  <2>2. job'[t].pc \notin Making \cup {"delete"} /\ job'[t].pc \notin Made /\ job'[t].pc # "create"
    BY <2>1, Shapes, Phases
  <2>3. Gone' /\ Sole' /\ Alone'
    BY <1>2, <2>2 DEF Deletions, Gone, Sole, Alone
  <2>4. Lasting'
    <3>1. \A u \in Threads, y \in deleted' : Pending(u, y) => Pending(u, y)'
      BY <1>2, <2>1 DEF Pending
    <3> QED BY <1>2, <2>1, <3>1 DEF Deletions, Lasting
  <2>5. Noticed'
    BY <1>2, <2>1, <2>2 DEF Deletions, Noticed
  <2> QED BY <2>3, <2>4, <2>5 DEF Deletions
<1> QED BY <1>3, <1>4

\* A rollback removes the row it made.
LEMMA UndoKeeps ==
  ASSUME IInv, Deletions, NEW t \in Threads, Undo(t)
  PROVE  Deletions'
<1> DEFINE x == job[t].id
<1>1. job \in [Threads -> Job] /\ job[t] \in Job /\ job[t].pc = "undo"
  BY DEF IInv, TypeOK, Undo
<1>2. /\ \A u \in Threads \ {t} : job'[u] = job[u]
      /\ job'[t].pc \in Late /\ job'[t].id = x /\ job'[t].had = job[t].had /\ job'[t].value = job[t].value
  BY <1>1 DEF Undo, Remove, Go, Job, Late
<1>3. /\ UNCHANGED <<gone, deleted, overtaken>> /\ live' = live \ {x} /\ tombs \subseteq tombs'
      /\ x \in live => x \in tombs'
  BY DEF Undo, Remove, Tombstoned, tables, fates
<1>4. /\ job[t].pc \in Row /\ job[t].pc \in Making /\ job[t].pc \in Made /\ job[t].value # 0
      /\ job'[t].pc \in Making /\ job'[t].pc \in Made /\ job'[t].pc # "create" /\ job[t].pc \notin Late
  BY <1>1, <1>2, Phases DEF Row, Late, Deletions, Noticed
<1> HIDE DEF x
<1>5. Gone'
  BY <1>3 DEF Deletions, Gone
<1>6. Sole'
  BY <1>2, <1>3, <1>4 DEF Deletions, Sole, x
<1>7. Alone'
  BY <1>2, <1>3, <1>4 DEF Deletions, Alone, x
<1>8. Lasting'
  <2> SUFFICES ASSUME NEW y \in deleted, y \notin overtaken, gone[y] = 0
               PROVE  \E u \in Threads : Pending(u, y)'
    BY <1>3 DEF Lasting
  <2>1. PICK u \in Threads : Pending(u, y)
    BY DEF Deletions, Lasting
  <2>2. CASE u = t
    <3>1. y = x /\ y \in live /\ job[t].had
      BY <1>4, <2>1, <2>2 DEF Pending, x
    <3>2. Pending(t, y)'
      BY <1>2, <1>3, <3>1 DEF Pending
    <3> QED BY <3>2
  <2>3. CASE u # t
    <3>1. y # x
      <4>1. y \in Ids /\ job[u].pc \in Making /\ job[u].id = y
        BY <2>1, Phases DEF Pending, IInv, TypeOK
      <4> QED BY <1>4, <2>3, <4>1 DEF Deletions, Alone, x
    <3>2. Pending(u, y)'
      BY <1>2, <1>3, <2>1, <2>3, <3>1 DEF Pending
    <3> QED BY <3>2
  <2> QED BY <2>2, <2>3
<1>9. Noticed'
  BY <1>2, <1>3, <1>4 DEF Deletions, Noticed
<1> QED BY <1>5, <1>6, <1>7, <1>8, <1>9 DEF Deletions

\* The end of a rollback takes the tombstone only when there was none before.
LEMMA UntombKeeps ==
  ASSUME IInv, Deletions, NEW t \in Threads, Untomb(t)
  PROVE  Deletions'
<1> DEFINE x == job[t].id
<1>1. /\ job \in [Threads -> Job] /\ job[t] \in Job /\ job[t].pc = "untomb" /\ gone \in [Ids -> Nat]
      /\ live \cap tombs = {}
  BY DEF IInv, TypeOK, RowsSound, Untomb
<1>2. /\ \A u \in Threads \ {t} : job'[u] = job[u]
      /\ job'[t] = NoJob
  BY <1>1 DEF Untomb, Done
<1>3. /\ UNCHANGED <<live, deleted, overtaken>>
      /\ tombs' = IF job[t].had THEN tombs ELSE tombs \ {x}
      /\ gone' = [gone EXCEPT ![x] = IF job[t].had /\ x \in tombs THEN job[t].value ELSE @]
  BY DEF Untomb, Untombed
<1>4. job[t].pc \in Late /\ job[t].pc \in Making /\ job[t].pc \in Made /\ job[t].value # 0 /\ job[t].pc \notin Row
  BY <1>1, Phases DEF Row, Late, Deletions, Noticed
<1>5. job'[t].pc \notin Making \cup {"delete"} /\ job'[t].pc \notin Made
  BY <1>2, Shapes, Phases
<1> HIDE DEF x
<1>6. ASSUME NEW y \in Ids, y \notin overtaken, NEW u \in Threads \ {t}, job[u].pc \in Making, job[u].id = y
      PROVE  y # x
  BY <1>4, <1>6 DEF Deletions, Alone, x
<1>7. \A y \in Ids \ {x} : gone'[y] = gone[y] /\ (y \in tombs' <=> y \in tombs)
  BY <1>1, <1>3
<1>8. Gone'
  <2> SUFFICES ASSUME NEW y \in Ids, y \notin overtaken, gone'[y] # 0
               PROVE  y \notin live /\ y \in tombs'
    BY <1>3 DEF Gone
  <2>1. CASE y # x
    BY <1>7, <2>1 DEF Deletions, Gone
  <2>2. CASE y = x /\ job[t].had
    BY <1>1, <1>3, <2>2 DEF Deletions, Gone
  <2>3. CASE y = x /\ ~job[t].had
    BY <1>1, <1>3, <1>4, <2>3 DEF Deletions, Sole, x
  <2> QED BY <2>1, <2>2, <2>3
<1>9. Sole'
  <2> SUFFICES ASSUME NEW u \in Threads, NEW y \in Ids, y \notin overtaken,
                      job'[u].pc \in Made, job'[u].id = y, ~job'[u].had
               PROVE  gone'[y] = 0
    BY <1>3 DEF Sole
  <2>1. u # t /\ job[u].pc \in Made /\ job[u].id = y /\ ~job[u].had
    BY <1>2, <1>5
  <2>2. y # x
    BY <1>6, <2>1, Phases
  <2> QED BY <1>7, <2>1, <2>2 DEF Deletions, Sole
<1>10. Alone'
  BY <1>2, <1>3, <1>5 DEF Deletions, Alone
<1>11. Lasting'
  <2> SUFFICES ASSUME NEW y \in deleted, y \notin overtaken, gone'[y] = 0
               PROVE  \E u \in Threads : Pending(u, y)'
    BY <1>3 DEF Lasting
  <2>1. y \in Ids
    BY DEF IInv, TypeOK
  <2>2. gone[y] = 0 /\ ~(y = x /\ job[t].had /\ x \in tombs)
    BY <1>1, <1>3, <1>4, <2>1
  <2>3. PICK u \in Threads : Pending(u, y)
    BY <2>2 DEF Deletions, Lasting
  <2>4. u # t
    BY <1>4, <2>2, <2>3 DEF Pending, x
  <2>5. y # x
    BY <1>6, <2>1, <2>3, <2>4, Phases DEF Pending
  <2>6. Pending(u, y)'
    BY <1>2, <1>3, <1>7, <2>1, <2>3, <2>4, <2>5 DEF Pending
  <2> QED BY <2>6
<1>12. Noticed'
  BY <1>2, <1>3, <1>5, Phases DEF Deletions, Noticed
<1> QED BY <1>8, <1>9, <1>10, <1>11, <1>12 DEF Deletions

\* Imports make rows of ids that are not deleted; a crash ends every request.
LEMMA OutsideGoes ==
  ASSUME IInv, Deletions, Seed \/ Startup \/ Crash \/ RotateRead \/ RotateEnd
  PROVE  Deletions'
<1>1. tombs' = tombs /\ gone' = gone /\ overtaken' = overtaken
  BY DEF Seed, Startup, Crash, RotateRead, RotateEnd, tables, fates, ghosts
<1>2. CASE Crash
  <2>1. /\ live' = live /\ \A u \in Threads : job'[u].pc = "idle"
        /\ deleted' = {x \in deleted : ~\E u \in Threads : job[u].pc \in Made /\ job[u].id = x}
    BY <1>2 DEF Crash, NoJob, tables, Holds
  <2>2. Gone'
    BY <1>1, <2>1 DEF Deletions, Gone
  <2>3. Sole' /\ Alone' /\ Noticed'
    BY <2>1, Zenon DEF Sole, Alone, Noticed, Making, Made
  <2>4. Lasting'
    BY <1>1, <2>1, Phases DEF Deletions, Lasting, Pending
  <2> QED BY <2>2, <2>3, <2>4 DEF Deletions
<1>3. CASE ~Crash
  <2>1. UNCHANGED <<job, deleted>> /\ live \subseteq live'
    BY <1>3 DEF Seed, Startup, RotateRead, RotateEnd, tables, fates, ghosts
  <2>2. \A x \in tombs : x \in live' => x \in live
    BY <1>3 DEF Seed, Startup, RotateRead, RotateEnd, tables, Seedable
  <2>3. Gone'
    BY <1>1, <2>1, <2>2 DEF Deletions, Gone
  <2>4. Sole' /\ Alone' /\ Noticed'
    BY <1>1, <2>1 DEF Deletions, Sole, Alone, Noticed
  <2>5. Lasting'
    BY <1>1, <2>1 DEF Deletions, Lasting, Pending
  <2> QED BY <2>3, <2>4, <2>5 DEF Deletions
<1> QED BY <1>2, <1>3

LEMMA DeletionsSound ==
  /\ Init => Deletions
  /\ IInv /\ Deletions /\ [Next]_vars => Deletions'
<1>1. ASSUME Init PROVE Deletions
  <2>1. /\ \A t \in Threads : job[t].pc = "idle"
        /\ gone = [x \in Ids |-> 0] /\ deleted = {} /\ overtaken = {}
    BY <1>1 DEF Init, NoJob
  <2>2. Sole /\ Alone /\ Noticed
    BY <2>1 DEF Sole, Alone, Noticed, Making, Made
  <2> QED BY <2>1, <2>2 DEF Deletions, Gone, Lasting
<1>2. ASSUME IInv, Deletions, [Next]_vars PROVE Deletions'
  <2>1. CASE UNCHANGED vars
    <3>1. UNCHANGED <<live, tombs, gone, deleted, overtaken, job>>
      BY <2>1 DEF vars, tables, fates, ghosts
    <3> QED BY <1>2, <3>1 DEF Deletions, Gone, Sole, Alone, Lasting, Pending, Noticed
  <2>2. ASSUME NEW t \in Threads, Arrival(t) \/ Step(t) \/ FileFails(t)
        PROVE  Deletions'
    BY <1>2, <2>2, ArrivalsGo, StepsGo, CreateStartKeeps, CreateCommitKeeps, DeleteCommitKeeps,
       SwitchOffKeeps, UndoKeeps, UntombKeeps DEF Arrival, Step
  <2> QED BY <1>2, <2>1, <2>2, OutsideGoes DEF Next
<1> QED BY <1>1, <1>2

LEMMA Deleting == Spec => []Deletions
BY DeletionsSound, Inductive, PTL DEF Spec

\* A deletion that was answered lasts until a create of the id is answered: through
\* refused creates and their rollbacks, crashes and imports of .env, as long as no
\* create of the id overlapped the deletion or another create of it.
THEOREM DeletionLasts == Spec => []DeletedStaysDeleted
<1>1. IInv /\ Deletions => DeletedStaysDeleted
  <2> SUFFICES ASSUME IInv, Deletions, NEW x \in deleted \ overtaken,
                      \A t \in Threads : ~(Holds(t, Made) /\ job[t].id = x)
               PROVE  x \notin live /\ x \in tombs
    BY DEF DeletedStaysDeleted
  <2>1. x \in Ids /\ \A t \in Threads : ~Pending(t, x)
    BY Phases DEF IInv, TypeOK, Pending, Holds
  <2> QED BY <2>1 DEF Deletions, Lasting, Gone
<1> QED BY <1>1, Inductive, Deleting, PTL

-----------------------------------------------------------------------------
(* What a run must not see: the third inductive invariant. *)

\* A removal is committed and its bump is to come.
Removing == {"deleted", "undone"}
Unbumped(x) == \E u \in Threads : job[u].pc \in Removing /\ job[u].id = x

\* The points of a request that may still answer for a deletion of its id.
Owed == {"delete", "create", "created", "ask", "known", "switch", "toggle", "toggled",
         "undo", "undone", "untomb"}

\* A tombstone whose removal is bumped is out of a current cache and of an overlay
\* built under the current version.
Uncached ==
  \A x \in tombs : ~Unbumped(x) =>
    /\ cache.version = version => x \notin cache.known
    /\ \A u \in Threads :
         job[u].build = "built" /\ job[u].seen = version => x \notin job[u].got.live

\* Requests are numbered as they come, and no two deletions have one number: what a
\* run has seen deleted is not deleted a second time under the same number.
Past ==
  /\ \A y \in Ids : gone[y] <= tally.ops
  /\ \A u \in Threads : job[u].value <= tally.ops /\ \A y \in Ids : job[u].gone[y] <= tally.ops

Fresh ==
  \A u \in Threads : job[u].pc \in Owed =>
    /\ job[u].value # 0
    /\ \A y \in Ids : gone[y] # job[u].value
    /\ \A w \in Threads, y \in Ids : job[w].gone[y] # job[u].value
    /\ \A w \in Threads \ {u} : job[w].pc \in Owed => job[w].value # job[u].value

\* While an id a run knows deleted stays deleted, the run's overlay is without it.
Unseen ==
  \A t \in Threads, x \in Ids \ overtaken :
    job[t].pc \in {"snap", "plan"} /\ job[t].gone[x] # 0 /\ job[t].gone[x] = gone[x] =>
      /\ ~Unbumped(x)
      /\ job[t].pc = "snap" /\ job[t].build = "built" => x \notin job[t].got.live
      /\ job[t].pc = "plan" => x \notin job[t].known

History == Uncached /\ Past /\ Fresh /\ Unseen

LEMMA Numbers ==
  ASSUME IInv
  PROVE  /\ job \in [Threads -> Job] /\ gone \in [Ids -> Nat] /\ version \in Nat
         /\ tally.ops \in Nat /\ cache.version \in Int /\ tombs \subseteq Ids
         /\ \A u \in Threads : /\ job[u] \in Job /\ job[u].value \in Nat /\ job[u].seen \in Nat
                               /\ job[u].gone \in [Ids -> Nat] /\ job[u].pc \in Pc
<1>1. /\ job \in [Threads -> Job] /\ gone \in [Ids -> Nat] /\ version \in Nat
      /\ tally \in [ops : Nat, faults : Nat, crashes : Nat] /\ tombs \subseteq Ids
      /\ cache \in [version : Int, known : SUBSET Ids, secrets : [Ids -> Envelope]]
  BY DEF IInv, TypeOK
<1> QED BY <1>1, JobFields

\* A step of t that neither removes an id, nor bumps, nor changes a ghost.
LEMMA SteadyKeeps ==
  ASSUME IInv, IInv', Deletions, History, NEW t \in Threads,
         \A u \in Threads \ {t} : job'[u] = job[u],
         version' = version, gone' = gone, overtaken \subseteq overtaken', tombs' = tombs,
         tally'.ops = tally.ops,
         job[t].pc \notin Removing, job'[t].pc \notin Removing,
         job'[t].value \in {job[t].value, 0},
         job'[t].gone \in {job[t].gone, [x \in Ids |-> 0]},
         job'[t].pc \in Owed => job[t].pc \in Owed /\ job'[t].value = job[t].value,
         job'[t].build = "built" =>
           \/ job[t].build = "built" /\ job'[t].got = job[t].got /\ job'[t].seen = job[t].seen
           \/ job'[t].got.live \cap tombs = {},
         job'[t].pc \in {"snap", "plan"} => job[t].pc = "snap" /\ job'[t].gone = job[t].gone,
         job'[t].pc = "plan" => \A x \in Ids \ overtaken :
           job[t].gone[x] # 0 /\ job[t].gone[x] = gone[x] => x \notin job'[t].known,
         \A x \in tombs : ~Unbumped(x) /\ cache'.version = version => x \notin cache'.known
  PROVE  History'
<1>1. \A x : Unbumped(x)' <=> Unbumped(x)
  BY DEF Unbumped
<1>2. tally.ops \in Nat /\ \A x \in Ids : [y \in Ids |-> 0][x] = 0
  BY Numbers
<1>3. Uncached'
  <2> SUFFICES ASSUME NEW x \in tombs', ~Unbumped(x)'
               PROVE  /\ cache'.version = version' => x \notin cache'.known
                      /\ \A u \in Threads : job'[u].build = "built" /\ job'[u].seen = version'
                                              => x \notin job'[u].got.live
    BY DEF Uncached
  <2>1. x \in tombs /\ ~Unbumped(x)
    BY <1>1
  <2>2. ASSUME NEW u \in Threads, job'[u].build = "built", job'[u].seen = version'
        PROVE  x \notin job'[u].got.live
    <3>1. CASE u # t
      BY <2>1, <2>2, <3>1 DEF History, Uncached
    <3>2. CASE u = t /\ job'[t].got.live \cap tombs = {}
      BY <2>1, <3>2
    <3>3. CASE u = t /\ job[t].build = "built" /\ job'[t].got = job[t].got /\ job'[t].seen = job[t].seen
      BY <2>1, <2>2, <3>3 DEF History, Uncached
    <3> QED BY <2>2, <3>1, <3>2, <3>3
  <2> QED BY <2>1, <2>2
<1>4. Past'
  <2>1. job'[t].value <= tally.ops /\ \A y \in Ids : job'[t].gone[y] <= tally.ops
    <3>1. job[t].value <= tally.ops /\ \A y \in Ids : job[t].gone[y] <= tally.ops
      BY DEF History, Past
    <3> QED BY <1>2, <3>1
  <2> QED BY <2>1 DEF History, Past
<1>5. Fresh'
  <2> SUFFICES ASSUME NEW u \in Threads, job'[u].pc \in Owed
               PROVE  /\ job'[u].value # 0
                      /\ \A y \in Ids : gone'[y] # job'[u].value
                      /\ \A w \in Threads, y \in Ids : job'[w].gone[y] # job'[u].value
                      /\ \A w \in Threads \ {u} : job'[w].pc \in Owed => job'[w].value # job'[u].value
    BY DEF Fresh
  <2>1. job[u].pc \in Owed /\ job'[u].value = job[u].value
    OBVIOUS
  <2>2. /\ job[u].value # 0
        /\ \A y \in Ids : gone[y] # job[u].value
        /\ \A w \in Threads, y \in Ids : job[w].gone[y] # job[u].value
        /\ \A w \in Threads \ {u} : job[w].pc \in Owed => job[w].value # job[u].value
    BY <2>1 DEF History, Fresh
  <2>3. \A w \in Threads, y \in Ids : job'[w].gone[y] \in {job[w].gone[y], 0}
    BY <1>2
  <2>4. \A w \in Threads : job'[w].pc \in Owed => job[w].pc \in Owed /\ job'[w].value = job[w].value
    OBVIOUS
  <2> QED BY <2>1, <2>2, <2>3, <2>4
<1>6. Unseen'
  <2> SUFFICES ASSUME NEW u \in Threads, NEW x \in Ids \ overtaken', job'[u].pc \in {"snap", "plan"},
                      job'[u].gone[x] # 0, job'[u].gone[x] = gone'[x]
               PROVE  /\ ~Unbumped(x)'
                      /\ job'[u].pc = "snap" /\ job'[u].build = "built" => x \notin job'[u].got.live
                      /\ job'[u].pc = "plan" => x \notin job'[u].known
    BY DEF Unseen
  <2>1. CASE u # t
    BY <1>1, <2>1 DEF History, Unseen
  <2>2. CASE u = t
    <3>1. job[t].pc = "snap" /\ job'[t].gone = job[t].gone /\ job[t].gone[x] # 0 /\ job[t].gone[x] = gone[x]
      BY <2>2
    <3>2. ~Unbumped(x) /\ (job[t].build = "built" => x \notin job[t].got.live)
      BY <3>1 DEF History, Unseen
    <3>3. x \in tombs
      BY <3>1 DEF Deletions, Gone
    <3> QED BY <1>1, <2>2, <3>1, <3>2, <3>3
  <2> QED BY <2>1, <2>2
<1> QED BY <1>3, <1>4, <1>5, <1>6 DEF History


\* A step of t that ends its request, or moves it along.
LEMMA MoveKeeps ==
  ASSUME IInv, IInv', Deletions, History, NEW t \in Threads,
         \A u \in Threads \ {t} : job'[u] = job[u],
         UNCHANGED <<version, gone, overtaken, tombs, cache>>, tally'.ops = tally.ops,
         job[t].pc \notin Removing,
         \/ job'[t] = NoJob
         \/ /\ job'[t].value = job[t].value /\ job'[t].gone = job[t].gone
            /\ job'[t].build = job[t].build /\ job'[t].got = job[t].got /\ job'[t].seen = job[t].seen
            /\ job'[t].pc \notin Removing \cup {"snap", "plan"}
            /\ job'[t].pc \in Owed => job[t].pc \in Owed
  PROVE  History'
<1>1. \A x \in tombs : ~Unbumped(x) /\ cache'.version = version => x \notin cache'.known
  BY DEF History, Uncached
<1>2. CASE job'[t] = NoJob
  <2>1. NoJob.pc = "idle" /\ NoJob.build = "no" /\ NoJob.value = 0 /\ NoJob.gone = [x \in Ids |-> 0]
    BY DEF NoJob
  <2> QED BY <1>1, <1>2, <2>1, SteadyKeeps DEF Removing, Owed
<1>3. CASE job'[t] # NoJob
  BY <1>1, <1>3, SteadyKeeps
<1> QED BY <1>2, <1>3

\* What a step of t on the settings does to the request: the pairs of points.
LEMMA SettingsKeep ==
  ASSUME IInv, IInv', Deletions, History, NEW t \in Threads,
         LockFile(t) \/ Forget(t) \/ CreateKnown(t) \/ SwitchOff(t) \/ FileFails(t)
           \/ PageLoaded(t) \/ PageFlip(t) \/ PageLeft(t) \/ PageSaved(t) \/ RunPlan(t)
  PROVE  History'
<1>1. job \in [Threads -> Job] /\ job[t] \in Job /\ tally \in [ops : Nat, faults : Nat, crashes : Nat]
  BY DEF IInv, TypeOK
<1> USE DEF Removing, Owed, tables, process, fates, ghosts, Go, Done
<1>2. CASE LockFile(t)
  <2>1. job[t].pc \in {"switch", "get", "put"} /\ Under[job[t].pc] \in {"toggle", "load", "save"}
        /\ (Under[job[t].pc] = "toggle" => job[t].pc = "switch")
    BY <1>2, Points DEF LockFile
  <2>2. /\ \A u \in Threads \ {t} : job'[u] = job[u]
        /\ job'[t].value = job[t].value /\ job'[t].gone = job[t].gone /\ job'[t].build = job[t].build
        /\ job'[t].got = job[t].got /\ job'[t].seen = job[t].seen
        /\ job'[t].pc = Under[job[t].pc]
    BY <1>1, <1>2 DEF LockFile, Job
  <2>3. UNCHANGED <<version, gone, overtaken, tombs, cache>> /\ tally'.ops = tally.ops
    BY <1>1, <1>2 DEF LockFile
  <2> QED BY <1>2, <2>1, <2>2, <2>3, MoveKeeps DEF LockFile
<1>3. CASE Forget(t)
  BY <1>1, <1>3, MoveKeeps DEF Forget
<1>4. CASE CreateKnown(t)
  <2>1. job[t].pc = "known" /\ \E pc \in {"switch", "undo"} : job' = [job EXCEPT ![t].pc = pc]
    BY <1>4 DEF CreateKnown, Refused
  <2>2. /\ \A u \in Threads \ {t} : job'[u] = job[u]
        /\ job'[t].value = job[t].value /\ job'[t].gone = job[t].gone /\ job'[t].build = job[t].build
        /\ job'[t].got = job[t].got /\ job'[t].seen = job[t].seen
        /\ job'[t].pc \in {"switch", "undo"}
    BY <1>1, <1>4, <2>1 DEF CreateKnown, Job
  <2>3. UNCHANGED <<version, gone, overtaken, tombs, cache>> /\ tally'.ops = tally.ops
    BY <1>1, <1>4 DEF CreateKnown
  <2> QED BY <2>1, <2>2, <2>3, MoveKeeps
<1>5. CASE SwitchOff(t)
  BY <1>1, <1>5, MoveKeeps DEF SwitchOff, Job
<1>6. CASE FileFails(t)
  <2>1. UNCHANGED <<version, gone, overtaken, tombs, cache>> /\ tally'.ops = tally.ops
    BY <1>1, <1>6 DEF FileFails, Fault
  <2>2. CASE job[t].pc = "toggled" /\ job' = [job EXCEPT ![t].pc = "undo"]
    <3>1. /\ \A u \in Threads \ {t} : job'[u] = job[u]
          /\ job'[t].value = job[t].value /\ job'[t].gone = job[t].gone /\ job'[t].build = job[t].build
          /\ job'[t].got = job[t].got /\ job'[t].seen = job[t].seen
          /\ job'[t].pc = "undo"
      BY <1>1, <2>2 DEF Job
    <3> QED BY <2>1, <2>2, <3>1, MoveKeeps
  <2>3. CASE job[t].pc = "saved" /\ job' = [job EXCEPT ![t] = NoJob]
    BY <1>1, <2>1, <2>3, MoveKeeps
  <2> QED BY <1>6, <2>2, <2>3 DEF FileFails
<1>7. CASE PageLoaded(t)
  <2>1. /\ \A u \in Threads \ {t} : job'[u] = job[u]
        /\ job'[t].value = job[t].value /\ job'[t].gone = job[t].gone /\ job'[t].build = job[t].build
        /\ job'[t].got = job[t].got /\ job'[t].seen = job[t].seen
        /\ job'[t].pc = "page"
    BY <1>1, <1>7 DEF PageLoaded, Job
  <2>2. UNCHANGED <<version, gone, overtaken, tombs, cache>> /\ tally'.ops = tally.ops
    BY <1>1, <1>7 DEF PageLoaded
  <2> QED BY <1>7, <2>1, <2>2, MoveKeeps DEF PageLoaded
<1>8. CASE PageFlip(t)
  <2>1. PICK x \in Ids : job' = [job EXCEPT ![t].pc = "put", ![t].id = x,
                 ![t].file = [job[t].file EXCEPT ![x] = IF @ = "on" THEN "off" ELSE "on"]]
    BY <1>8 DEF PageFlip
  <2> DEFINE file == [job[t].file EXCEPT ![x] = IF @ = "on" THEN "off" ELSE "on"]
  <2>2. job' = [job EXCEPT ![t].pc = "put", ![t].id = x, ![t].file = file]
    BY <2>1
  <2> HIDE DEF file
  <2>3. /\ \A u \in Threads \ {t} : job'[u] = job[u]
        /\ job'[t].value = job[t].value /\ job'[t].gone = job[t].gone
        /\ job'[t].build = job[t].build /\ job'[t].got = job[t].got /\ job'[t].seen = job[t].seen
        /\ job'[t].pc = "put"
    BY <1>1, <2>2 DEF Job
  <2> QED BY <1>8, <2>3, MoveKeeps DEF PageFlip
<1>9. CASE PageLeft(t)
  BY <1>1, <1>9, MoveKeeps DEF PageLeft
<1>10. CASE PageSaved(t)
  BY <1>1, <1>10, MoveKeeps DEF PageSaved
<1>11. CASE RunPlan(t)
  BY <1>1, <1>11, MoveKeeps DEF RunPlan
<1> QED BY <1>2, <1>3, <1>4, <1>5, <1>6, <1>7, <1>8, <1>9, <1>10, <1>11

\* The overlay a thread goes on with is without the tombstones it must not show.
LEMMA OverlayKeeps ==
  ASSUME IInv, IInv', Deletions, History, NEW t \in Threads,
         OverlayHit(t) \/ OverlayMiss(t) \/ OverlayBuild(t) \/ OverlayStore(t)
  PROVE  History'
<1>1. /\ job \in [Threads -> Job] /\ job[t] \in Job /\ version \in Nat
      /\ live \subseteq Ids /\ tombs \subseteq Ids /\ live \cap tombs = {}
  BY DEF IInv, TypeOK, RowsSound
<1>2. job[t].pc \in DOMAIN Return /\ (job[t].build = "built" => job[t].seen <= version)
  BY DEF IInv, Sane, OverlayHit, OverlayMiss, OverlayBuild, OverlayStore
<1>3. /\ job[t].pc \notin Removing /\ Return[job[t].pc] \notin Removing
      /\ Return[job[t].pc] # "snap" /\ (Return[job[t].pc] = "plan" => job[t].pc = "snap")
      /\ (Return[job[t].pc] \in Owed => job[t].pc \in Owed) /\ job[t].pc # "plan"
  BY <1>2, Points DEF Removing, Owed
<1>4. ASSUME NEW x \in Ids \ overtaken, job[t].pc = "snap", job[t].gone[x] # 0, job[t].gone[x] = gone[x]
      PROVE  x \in tombs /\ ~Unbumped(x) /\ (job[t].build = "built" => x \notin job[t].got.live)
  BY <1>4 DEF History, Unseen, Deletions, Gone
<1>5. \A x \in tombs : ~Unbumped(x) /\ cache.version = version => x \notin cache.known
  BY DEF History, Uncached
<1>6. CASE OverlayHit(t)
  <2>1. /\ \A u \in Threads \ {t} : job'[u] = job[u]
        /\ UNCHANGED <<version, gone, overtaken, tombs, cache, tally>>
    BY <1>1, <1>6 DEF OverlayHit, tables, process, fates, ghosts
  <2>2. /\ job'[t].pc = Return[job[t].pc] /\ job'[t].known = cache.known
        /\ job'[t].value = job[t].value /\ job'[t].gone = job[t].gone /\ job'[t].build = "no"
        /\ cache.version = version
    BY <1>1, <1>6 DEF OverlayHit, Job
  <2> QED BY <1>3, <1>4, <1>5, <2>1, <2>2, SteadyKeeps
<1>7. CASE OverlayMiss(t)
  <2>1. /\ \A u \in Threads \ {t} : job'[u] = job[u]
        /\ UNCHANGED <<version, gone, overtaken, tombs, cache, tally>>
    BY <1>1, <1>7 DEF OverlayMiss, tables, process, fates, ghosts
  <2>2. /\ job'[t].pc = job[t].pc /\ job'[t].build = "read"
        /\ job'[t].value = job[t].value /\ job'[t].gone = job[t].gone
    BY <1>1, <1>7 DEF OverlayMiss, Job
  <2> QED BY <1>3, <1>5, <2>1, <2>2, SteadyKeeps
<1>8. CASE OverlayBuild(t)
  <2>1. /\ \A u \in Threads \ {t} : job'[u] = job[u]
        /\ UNCHANGED <<version, gone, overtaken, tombs, cache, tally>>
    BY <1>1, <1>8 DEF OverlayBuild, tables, process, fates, ghosts
  <2>2. /\ job'[t].pc = job[t].pc /\ job'[t].got.live = live
        /\ job'[t].value = job[t].value /\ job'[t].gone = job[t].gone
    BY <1>1, <1>8 DEF OverlayBuild, Job
  <2> QED BY <1>1, <1>3, <1>5, <2>1, <2>2, SteadyKeeps
<1>9. CASE OverlayStore(t)
  <2>1. /\ \A u \in Threads \ {t} : job'[u] = job[u]
        /\ UNCHANGED <<version, gone, overtaken, tombs, tally>>
    BY <1>1, <1>9 DEF OverlayStore, tables, fates, ghosts
  <2>2. /\ job'[t].pc = Return[job[t].pc] /\ job'[t].known = job[t].got.live \cup LiveUnseeded
        /\ job'[t].value = job[t].value /\ job'[t].gone = job[t].gone /\ job'[t].build = "no"
        /\ job[t].build = "built"
        /\ cache'.version = job[t].seen /\ cache'.known = job[t].got.live \cup LiveUnseeded
    BY <1>1, <1>9 DEF OverlayStore, BuiltAt, Job
  <2>3. \A x \in tombs : x \notin LiveUnseeded
    BY DEF LiveUnseeded
  <2>4. \A x \in tombs : ~Unbumped(x) /\ cache'.version = version => x \notin cache'.known
    BY <2>2, <2>3 DEF History, Uncached
  <2>5. job'[t].pc = "plan" => \A x \in Ids \ overtaken :
          job[t].gone[x] # 0 /\ job[t].gone[x] = gone[x] => x \notin job'[t].known
    BY <1>3, <1>4, <2>2, <2>3
  <2> QED BY <1>3, <2>1, <2>2, <2>4, <2>5, SteadyKeeps
<1> QED BY <1>6, <1>7, <1>8, <1>9

\* A removal by t: its id has a tombstone that waits for the bump.
LEMMA RemovalKeeps ==
  ASSUME IInv, IInv', Deletions, History, NEW t \in Threads, NEW x \in live,
         job[t].id = x, job[t].pc \in {"delete", "undo"},
         \A u \in Threads \ {t} : job'[u] = job[u],
         job'[t].id = x, job'[t].value = job[t].value, job'[t].gone = job[t].gone,
         job'[t].build = "no",
         UNCHANGED <<version, cache, tally>>, tombs' = tombs \cup {x},
         \A y \in Ids \ {x} : y \in overtaken => y \in overtaken',
         \/ job'[t].pc = "undone" /\ gone' = gone /\ job[t].pc = "undo" /\ overtaken' = overtaken
         \/ job'[t].pc = "deleted" /\ gone' = [gone EXCEPT ![x] = job[t].value]
  PROVE  History'
<1>1. /\ gone \in [Ids -> Nat] /\ x \in Ids /\ tally.ops \in Nat /\ job[t].value \in Nat
      /\ x \notin overtaken => gone[x] = 0
  BY Numbers DEF IInv, TypeOK, Deletions, Gone
<1>2. job[t].pc \in Owed /\ job[t].pc \notin Removing /\ job'[t].pc \in Removing
      /\ job'[t].pc \notin {"snap", "plan"}
  BY DEF Owed, Removing
<1>3. Unbumped(x)' /\ \A y : y # x => (Unbumped(y)' <=> Unbumped(y))
  BY <1>2 DEF Unbumped
<1>4. /\ job[t].value # 0 /\ job[t].value <= tally.ops
      /\ \A u \in Threads, y \in Ids : job[u].gone[y] # job[t].value
      /\ \A u \in Threads \ {t} : job[u].pc \in Owed => job[u].value # job[t].value
  BY <1>2 DEF History, Fresh, Past
<1>5. \A y \in Ids : \/ gone'[y] = gone[y]
                     \/ y = x /\ gone'[y] = job[t].value /\ job'[t].pc \notin Owed
  BY <1>1 DEF Owed
<1>6. \A u \in Threads : job'[u].value = job[u].value /\ job'[u].gone = job[u].gone
  OBVIOUS
<1>7. Uncached'
  <2> SUFFICES ASSUME NEW y \in tombs', ~Unbumped(y)'
               PROVE  /\ cache.version = version => y \notin cache.known
                      /\ \A u \in Threads : job'[u].build = "built" /\ job'[u].seen = version
                                              => y \notin job'[u].got.live
    BY DEF Uncached
  <2>1. y \in tombs /\ ~Unbumped(y)
    BY <1>3
  <2> QED BY <2>1 DEF History, Uncached
<1>8. Past'
  BY <1>4, <1>5, <1>6 DEF History, Past
<1>9. Fresh'
  <2> SUFFICES ASSUME NEW u \in Threads, job'[u].pc \in Owed
               PROVE  /\ job[u].value # 0
                      /\ \A y \in Ids : gone'[y] # job[u].value
                      /\ \A w \in Threads, y \in Ids : job[w].gone[y] # job[u].value
                      /\ \A w \in Threads \ {u} : job'[w].pc \in Owed => job[w].value # job[u].value
    BY <1>6 DEF Fresh
  <2>1. job[u].pc \in Owed /\ \A w \in Threads : job'[w].pc \in Owed => job[w].pc \in Owed
    BY <1>2
  <2>2. \A y \in Ids : gone'[y] # job[u].value
    BY <1>4, <1>5, <2>1 DEF History, Fresh
  <2> QED BY <2>1, <2>2 DEF History, Fresh
<1>10. Unseen'
  <2> SUFFICES ASSUME NEW u \in Threads, NEW y \in Ids \ overtaken', job'[u].pc \in {"snap", "plan"},
                      job'[u].gone[y] # 0, job'[u].gone[y] = gone'[y]
               PROVE  /\ ~Unbumped(y)'
                      /\ job'[u].pc = "snap" /\ job'[u].build = "built" => y \notin job'[u].got.live
                      /\ job'[u].pc = "plan" => y \notin job'[u].known
    BY DEF Unseen
  <2>1. u # t /\ job'[u] = job[u]
    BY <1>2
  <2>2. y # x /\ gone'[y] = gone[y] /\ y \notin overtaken
    BY <1>1, <1>4, <1>5, <2>1
  <2> QED BY <1>3, <2>1, <2>2 DEF History, Unseen
<1> QED BY <1>7, <1>8, <1>9, <1>10 DEF History

\* A step of t that may clear a deletion, or answer for it, and bump nothing.
LEMMA AnswerKeeps ==
  ASSUME IInv, IInv', Deletions, History, NEW t \in Threads, NEW x,
         job[t].pc \in Owed \ Removing,
         \A u \in Threads \ {t} : job'[u] = job[u],
         UNCHANGED <<version, cache, tally, overtaken>>, tombs' \subseteq tombs,
         gone' = [gone EXCEPT ![x] = 0] \/ gone' = [gone EXCEPT ![x] = job[t].value] \/ gone' = gone,
         \/ job'[t] = NoJob
         \/ /\ job'[t].pc = "created" /\ gone' = [gone EXCEPT ![x] = 0] /\ job'[t].build = "no"
            /\ job'[t].value = job[t].value /\ job'[t].gone = job[t].gone
  PROVE  History'
<1>1. /\ gone \in [Ids -> Nat] /\ tally.ops \in Nat /\ job[t].value \in Nat
      /\ \A y \in Ids : [z \in Ids |-> 0][y] = 0
  BY Numbers
<1>2. /\ job[t].value # 0 /\ job[t].value <= tally.ops
      /\ \A u \in Threads, y \in Ids : job[u].gone[y] # job[t].value
      /\ \A u \in Threads \ {t} : job[u].pc \in Owed => job[u].value # job[t].value
  BY DEF History, Fresh, Past
<1>3. NoJob.pc = "idle" /\ NoJob.build = "no" /\ NoJob.value = 0 /\ NoJob.gone = [y \in Ids |-> 0]
  BY DEF NoJob
<1>4. /\ job'[t].pc \notin Removing /\ job'[t].pc \notin {"snap", "plan"} /\ job'[t].build = "no"
      /\ job'[t].value <= tally.ops /\ \A y \in Ids : job'[t].gone[y] \in {job[t].gone[y], 0}
  BY <1>1, <1>2, <1>3 DEF Removing
<1>5. \A y : Unbumped(y)' <=> Unbumped(y)
  BY <1>4 DEF Unbumped
<1>6. \A y \in Ids : \/ gone'[y] \in {gone[y], 0}
                     \/ gone'[y] = job[t].value /\ job'[t].pc \notin Owed
  BY <1>1, <1>3 DEF Owed
<1>7. \A u \in Threads : job'[u].pc \in Owed => job[u].pc \in Owed /\ job'[u].value = job[u].value
  BY <1>3 DEF Owed
<1>8. \A u \in Threads, y \in Ids : job'[u].gone[y] \in {job[u].gone[y], 0}
  BY <1>4
<1>9. Uncached'
  BY <1>4, <1>5 DEF History, Uncached
<1>10. Past'
  BY <1>1, <1>2, <1>4, <1>6, <1>8 DEF History, Past
<1>11. Fresh'
  <2> SUFFICES ASSUME NEW u \in Threads, job'[u].pc \in Owed
               PROVE  /\ job'[u].value # 0
                      /\ \A y \in Ids : gone'[y] # job'[u].value
                      /\ \A w \in Threads, y \in Ids : job'[w].gone[y] # job'[u].value
                      /\ \A w \in Threads \ {u} : job'[w].pc \in Owed => job'[w].value # job'[u].value
    BY DEF Fresh
  <2>1. job[u].pc \in Owed /\ job'[u].value = job[u].value
    BY <1>7
  <2>2. /\ job[u].value # 0
        /\ \A y \in Ids : gone[y] # job[u].value
        /\ \A w \in Threads, y \in Ids : job[w].gone[y] # job[u].value
        /\ \A w \in Threads \ {u} : job[w].pc \in Owed => job[w].value # job[u].value
    BY <2>1 DEF History, Fresh
  <2>3. \A y \in Ids : gone'[y] # job[u].value
    BY <1>2, <1>6, <2>1, <2>2
  <2> QED BY <1>7, <1>8, <2>1, <2>2, <2>3
<1>12. Unseen'
  <2> SUFFICES ASSUME NEW u \in Threads, NEW y \in Ids \ overtaken', job'[u].pc \in {"snap", "plan"},
                      job'[u].gone[y] # 0, job'[u].gone[y] = gone'[y]
               PROVE  /\ ~Unbumped(y)'
                      /\ job'[u].pc = "snap" /\ job'[u].build = "built" => y \notin job'[u].got.live
                      /\ job'[u].pc = "plan" => y \notin job'[u].known
    BY DEF Unseen
  <2>1. u # t /\ job'[u] = job[u]
    BY <1>4
  <2>2. gone'[y] = gone[y]
    BY <1>2, <1>6, <2>1
  <2> QED BY <1>5, <2>1, <2>2 DEF History, Unseen
<1> QED BY <1>9, <1>10, <1>11, <1>12 DEF History

LEMMA WritesKeep ==
  ASSUME IInv, IInv', Deletions, History, NEW t \in Threads,
         CreateCommit(t) \/ DeleteCommit(t) \/ UpdateRead(t) \/ UpdateCommit(t) \/ Undo(t) \/ Untomb(t)
  PROVE  History'
<1>1. job \in [Threads -> Job] /\ job[t] \in Job
  BY DEF IInv, TypeOK
<1>2. job[t].pc \in {"create", "delete", "update", "merge", "undo", "untomb"}
  BY DEF CreateCommit, DeleteCommit, UpdateRead, UpdateCommit, Undo, Untomb
<1>3. job[t].build = "no" /\ job[t].pc \notin Removing
  BY <1>2, Points DEF IInv, Sane, Removing
<1> DEFINE x == job[t].id
<1>4. CASE CreateCommit(t)
  <2>1. CASE x \in live
    BY <1>1, <1>3, <1>4, <2>1, MoveKeeps DEF CreateCommit, Done, tables
  <2>2. CASE x \notin live
    <3>1. /\ \A u \in Threads \ {t} : job'[u] = job[u]
          /\ job'[t].pc = "created" /\ job'[t].build = "no"
          /\ job'[t].value = job[t].value /\ job'[t].gone = job[t].gone
      BY <1>1, <1>3, <1>4, <2>2 DEF CreateCommit, Go, Job
    <3>2. /\ UNCHANGED <<version, cache, tally, overtaken>> /\ tombs' = tombs \ {x}
          /\ gone' = [gone EXCEPT ![x] = 0] /\ job[t].pc = "create"
      BY <1>4, <2>2 DEF CreateCommit
    <3> HIDE DEF x
    <3> QED BY <3>1, <3>2, AnswerKeeps DEF Owed, Removing
  <2> QED BY <2>1, <2>2
<1>5. CASE DeleteCommit(t)
  <2>1. CASE x \notin live
    BY <1>1, <1>3, <1>5, <2>1, MoveKeeps DEF DeleteCommit, Done, tables, fates
  <2>2. CASE x \in live
    <3>1. /\ \A u \in Threads \ {t} : job'[u] = job[u]
          /\ job'[t].pc = "deleted" /\ job'[t].build = "no" /\ job'[t].id = x
          /\ job'[t].value = job[t].value /\ job'[t].gone = job[t].gone
      BY <1>1, <1>3, <1>5, <2>2 DEF DeleteCommit, Remove, Go, Job
    <3>2. /\ UNCHANGED <<version, cache, tally>> /\ tombs' = tombs \cup {x}
          /\ gone' = [gone EXCEPT ![x] = job[t].value] /\ job[t].pc = "delete"
          /\ \A y \in Ids \ {x} : y \in overtaken => y \in overtaken'
      BY <1>5, <2>2 DEF DeleteCommit, Remove, Tombstoned
    <3> QED BY <2>2, <3>1, <3>2, RemovalKeeps
  <2> QED BY <2>1, <2>2
<1>6. CASE UpdateRead(t)
  <2>1. CASE x \notin live
    BY <1>1, <1>3, <1>6, <2>1, MoveKeeps DEF UpdateRead, Done, tables, fates, ghosts
  <2>2. CASE x \in live
    <3>1. /\ \A u \in Threads \ {t} : job'[u] = job[u]
          /\ job'[t].pc = "merge" /\ job'[t].build = job[t].build
          /\ job'[t].value = job[t].value /\ job'[t].gone = job[t].gone
          /\ job'[t].got = job[t].got /\ job'[t].seen = job[t].seen
      BY <1>1, <1>6, <2>2 DEF UpdateRead, Job
    <3> QED BY <1>3, <1>6, <3>1, MoveKeeps DEF UpdateRead, tables, fates, ghosts, Owed, Removing
  <2> QED BY <2>1, <2>2
<1>7. CASE UpdateCommit(t)
  <2>1. /\ \A u \in Threads \ {t} : job'[u] = job[u]
        /\ job'[t].pc = "updated" /\ job'[t].build = job[t].build
        /\ job'[t].value = job[t].value /\ job'[t].gone = job[t].gone
        /\ job'[t].got = job[t].got /\ job'[t].seen = job[t].seen
    BY <1>1, <1>7 DEF UpdateCommit, Go, Job
  <2> QED BY <1>3, <1>7, <2>1, MoveKeeps DEF UpdateCommit, process, fates, Owed, Removing
<1>8. CASE Undo(t)
  <2>1. CASE x \notin live
    <3>1. /\ \A u \in Threads \ {t} : job'[u] = job[u]
          /\ job'[t].pc = "untomb" /\ job'[t].build = job[t].build
          /\ job'[t].value = job[t].value /\ job'[t].gone = job[t].gone
          /\ job'[t].got = job[t].got /\ job'[t].seen = job[t].seen /\ job[t].pc = "undo"
      BY <1>1, <1>8, <2>1 DEF Undo, Go, Job
    <3> QED BY <1>3, <1>8, <2>1, <3>1, MoveKeeps DEF Undo, tables, fates, Owed, Removing
  <2>2. CASE x \in live
    <3>1. /\ \A u \in Threads \ {t} : job'[u] = job[u]
          /\ job'[t].pc = "undone" /\ job'[t].build = "no" /\ job'[t].id = x
          /\ job'[t].value = job[t].value /\ job'[t].gone = job[t].gone
      BY <1>1, <1>3, <1>8, <2>2 DEF Undo, Remove, Go, Job
    <3>2. /\ UNCHANGED <<version, cache, tally>> /\ tombs' = tombs \cup {x}
          /\ gone' = gone /\ overtaken' = overtaken /\ job[t].pc = "undo"
      BY <1>8, <2>2 DEF Undo, Remove, Tombstoned, fates
    <3> QED BY <2>2, <3>1, <3>2, RemovalKeeps
  <2> QED BY <2>1, <2>2
<1>9. CASE Untomb(t)
  <2>1. /\ \A u \in Threads \ {t} : job'[u] = job[u]
        /\ job'[t] = NoJob /\ job[t].pc = "untomb"
    BY <1>1, <1>9 DEF Untomb, Done
  <2>2. UNCHANGED <<version, cache, tally, overtaken>> /\ tombs' \subseteq tombs
    BY <1>9 DEF Untomb, Untombed, process
  <2>3. gone' = [gone EXCEPT ![x] = job[t].value] \/ gone' = gone
    <3>1. gone \in [Ids -> Nat]
      BY Numbers
    <3> QED BY <1>9, <3>1 DEF Untomb
  <2> HIDE DEF x
  <2> QED BY <2>1, <2>2, <2>3, AnswerKeeps DEF Owed, Removing
<1> QED BY <1>4, <1>5, <1>6, <1>7, <1>8, <1>9

\* A bump outdates the cache and the overlays, and may end the wait of a tombstone.
LEMMA BumpKeeps ==
  ASSUME IInv, IInv', Deletions, History, NEW t \in Threads, Bump(t)
  PROVE  History'
<1>1. /\ job \in [Threads -> Job] /\ job[t] \in Job /\ version \in Nat /\ cache.version \in Int
      /\ \A y \in Ids : [z \in Ids |-> 0][y] = 0
      /\ \A u \in Threads : job[u].seen \in Nat
  BY Numbers
<1>2. /\ job[t].pc \in DOMAIN After /\ version' = version + 1
      /\ UNCHANGED <<tombs, cache, gone, overtaken, tally>>
  BY DEF Bump, Bumped, tables, fates, ghosts
<1>3. job[t].build = "no" /\ tally.ops \in Nat
  BY <1>2, Points, Numbers DEF IInv, Sane
<1>4. NoJob.pc = "idle" /\ NoJob.build = "no" /\ NoJob.value = 0 /\ NoJob.gone = [y \in Ids |-> 0]
  BY DEF NoJob
<1>5. /\ \A u \in Threads \ {t} : job'[u] = job[u]
      /\ \/ job'[t] = NoJob
         \/ /\ job'[t].pc = After[job[t].pc] /\ job'[t].build = "no"
            /\ job'[t].value = job[t].value /\ job'[t].gone = job[t].gone
  BY <1>1, <1>3 DEF Bump, Done, Go, Job
<1>6. /\ job'[t].pc \notin Removing /\ job'[t].pc \notin {"snap", "plan"} /\ job'[t].build = "no"
      /\ job'[t].pc \in Owed => job[t].pc \in Owed /\ job'[t].value = job[t].value
      /\ job'[t].value \in {job[t].value, 0}
  BY <1>2, <1>4, <1>5, Points DEF Removing, Owed
<1>7. \A y : Unbumped(y)' => Unbumped(y)
  BY <1>5, <1>6 DEF Unbumped
<1>8. \A u \in Threads, y \in Ids : job'[u].gone[y] \in {job[u].gone[y], 0}
  BY <1>1, <1>4, <1>5
<1>9. Uncached'
  <2>1. cache.version <= version
    BY DEF IInv, CacheSound
  <2>2. \A u \in Threads : job'[u].build = "built" => job'[u].seen <= version
    BY <1>5, <1>6 DEF IInv, Sane
  <2>3. cache'.version # version'
    BY <1>1, <1>2, <2>1
  <2>4. \A u \in Threads : job'[u].build = "built" => job'[u].seen # version'
    <3> SUFFICES ASSUME NEW u \in Threads, job'[u].build = "built" PROVE job'[u].seen # version'
      OBVIOUS
    <3>1. job'[u].seen \in Nat /\ job'[u].seen <= version
      BY <1>1, <1>5, <1>6, <2>2
    <3> QED BY <1>1, <1>2, <3>1
  <2> QED BY <2>3, <2>4 DEF Uncached
<1>10. Past'
  <2>1. \A u \in Threads : job'[u].value <= tally.ops
    BY <1>3, <1>5, <1>6 DEF History, Past
  <2>2. \A u \in Threads, y \in Ids : job'[u].gone[y] <= tally.ops
    BY <1>3, <1>8 DEF History, Past
  <2> QED BY <1>2, <2>1, <2>2 DEF History, Past
<1>11. Fresh'
  <2> SUFFICES ASSUME NEW u \in Threads, job'[u].pc \in Owed
               PROVE  /\ job'[u].value # 0
                      /\ \A y \in Ids : gone'[y] # job'[u].value
                      /\ \A w \in Threads, y \in Ids : job'[w].gone[y] # job'[u].value
                      /\ \A w \in Threads \ {u} : job'[w].pc \in Owed => job'[w].value # job'[u].value
    BY DEF Fresh
  <2>1. \A w \in Threads : job'[w].pc \in Owed => job[w].pc \in Owed /\ job'[w].value = job[w].value
    BY <1>5, <1>6
  <2>2. /\ job[u].value # 0
        /\ \A y \in Ids : gone[y] # job[u].value
        /\ \A w \in Threads, y \in Ids : job[w].gone[y] # job[u].value
        /\ \A w \in Threads \ {u} : job[w].pc \in Owed => job[w].value # job[u].value
    BY <2>1 DEF History, Fresh
  <2> QED BY <1>2, <1>8, <2>1, <2>2
<1>12. Unseen'
  <2> SUFFICES ASSUME NEW u \in Threads, NEW y \in Ids \ overtaken', job'[u].pc \in {"snap", "plan"},
                      job'[u].gone[y] # 0, job'[u].gone[y] = gone'[y]
               PROVE  /\ ~Unbumped(y)'
                      /\ job'[u].pc = "snap" /\ job'[u].build = "built" => y \notin job'[u].got.live
                      /\ job'[u].pc = "plan" => y \notin job'[u].known
    BY DEF Unseen
  <2>1. u # t /\ job'[u] = job[u]
    BY <1>5, <1>6
  <2> QED BY <1>2, <1>7, <2>1 DEF History, Unseen
<1> QED BY <1>9, <1>10, <1>11, <1>12 DEF History

\* A request gets the next number, a run the deletions answered so far.
LEMMA ArrivalKeeps ==
  ASSUME IInv, IInv', Deletions, History, NEW t \in Threads,
         CreateStart(t) \/ DeleteStart(t) \/ UpdateStart(t) \/ PageStart(t) \/ RunStart(t)
  PROVE  History'
<1>1. /\ job \in [Threads -> Job] /\ job[t] \in Job /\ tally.ops \in Nat
      /\ tally \in [ops : Nat, faults : Nat, crashes : Nat] /\ gone \in [Ids -> Nat]
      /\ \A y \in Ids : [z \in Ids |-> 0][y] = 0
  BY Numbers DEF IInv, TypeOK
<1>2. NoJob.pc = "idle" /\ NoJob.build = "no" /\ NoJob.value = 0 /\ NoJob.gone = [y \in Ids |-> 0]
  BY DEF NoJob
<1>3. UNCHANGED <<version, tombs, cache, gone>> /\ overtaken \subseteq overtaken' /\ job[t].pc = "idle"
  BY DEF CreateStart, DeleteStart, UpdateStart, PageStart, RunStart, Start, tables, process, fates, ghosts
<1>4. tally.ops <= tally'.ops /\ (~RunStart(t) => tally'.ops = tally.ops + 1)
  <2>1. CASE RunStart(t)
    BY <1>1, <2>1 DEF RunStart
  <2>2. CASE ~RunStart(t)
    <3>1. tally' = [tally EXCEPT !.ops = tally.ops + 1]
      BY <2>2 DEF CreateStart, DeleteStart, UpdateStart, PageStart, Start
    <3> QED BY <1>1, <2>2, <3>1
  <2> QED BY <2>1, <2>2
<1>5. /\ \A u \in Threads \ {t} : job'[u] = job[u]
      /\ job'[t].build = "no" /\ job'[t].pc \in {"create", "delete", "update", "get", "snap"}
      /\ job'[t].pc = "snap" => RunStart(t)
      /\ job'[t].value = IF job'[t].pc \in {"get", "snap"} THEN 0 ELSE tally.ops + 1
      /\ job'[t].gone = IF job'[t].pc = "snap" THEN Answered ELSE [y \in Ids |-> 0]
  <2>1. CASE CreateStart(t)
    <3>1. PICK x \in Ids : job' = [job EXCEPT ![t] =
              [NoJob EXCEPT !.pc = "create", !.id = x, !.value = Value, !.had = x \in tombs]]
      BY <2>1 DEF CreateStart
    <3> QED BY <1>1, <1>2, <3>1 DEF NoJob, Value
  <2>2. CASE DeleteStart(t)
    <3>1. PICK x \in live : job' = [job EXCEPT ![t] =
              [NoJob EXCEPT !.pc = "delete", !.id = x, !.value = Value]]
      BY <2>2 DEF DeleteStart
    <3> QED BY <1>1, <1>2, <3>1 DEF NoJob, Value
  <2>3. CASE UpdateStart(t)
    <3>1. PICK x \in live, n \in Names : job' = [job EXCEPT ![t] =
              [NoJob EXCEPT !.pc = "update", !.id = x, !.name = n, !.value = Value]]
      BY <2>3 DEF UpdateStart
    <3> QED BY <1>1, <1>2, <3>1 DEF NoJob, Value
  <2>4. CASE PageStart(t)
    BY <1>1, <1>2, <2>4 DEF PageStart, NoJob
  <2>5. CASE RunStart(t)
    BY <1>1, <1>2, <2>5 DEF RunStart, NoJob
  <2> QED BY <2>1, <2>2, <2>3, <2>4, <2>5
<1>6. /\ job[t].pc \notin Removing /\ job'[t].pc \notin Removing /\ job'[t].pc # "plan"
      /\ "snap" \notin Owed /\ "get" \notin Owed
  BY <1>3, <1>5 DEF Removing, Owed
<1>7. \A y : Unbumped(y)' <=> Unbumped(y)
  BY <1>5, <1>6 DEF Unbumped
<1>8. \A y \in Ids : Answered[y] \in {gone[y], 0}
  BY <1>1 DEF Answered
<1>9. \A u \in Threads, y \in Ids : job'[u].gone[y] \in {job[u].gone[y], gone[y], 0}
  BY <1>1, <1>5, <1>8
<1>10. /\ \A y \in Ids : gone[y] \in Nat /\ gone[y] <= tally.ops
       /\ \A u \in Threads : /\ job[u].value \in Nat /\ job[u].value <= tally.ops
                             /\ \A y \in Ids : job[u].gone[y] \in Nat /\ job[u].gone[y] <= tally.ops
  BY Numbers DEF History, Past
<1>11. Uncached'
  BY <1>3, <1>5, <1>7 DEF History, Uncached
<1>12. \A u \in Threads, y \in Ids : job'[u].gone[y] \in Nat /\ job'[u].gone[y] <= tally.ops
  BY <1>1, <1>9, <1>10
<1>13. tally'.ops \in Nat
  BY Numbers, <1>1, <1>4 DEF RunStart
<1>14. Past'
  <2>0. RunStart(t) => job'[t].pc = "snap"
    BY <1>1, <1>2 DEF RunStart, NoJob
  <2>1. \A u \in Threads : job'[u].value <= tally'.ops
    <3>1. job'[t].value <= tally'.ops
      <4>1. job'[t].value = 0 \/ (job'[t].value = tally.ops + 1 /\ ~RunStart(t))
        BY <1>5, <2>0
      <4> QED BY <1>1, <1>4, <1>13, <4>1
    <3> QED BY <1>1, <1>4, <1>5, <1>10, <1>13, <3>1
  <2>2. \A u \in Threads, y \in Ids : job'[u].gone[y] <= tally'.ops
    BY <1>1, <1>4, <1>12, <1>13
  <2>3. \A y \in Ids : gone'[y] <= tally'.ops
    BY <1>1, <1>3, <1>4, <1>10, <1>13
  <2> QED BY <2>1, <2>2, <2>3 DEF Past
<1>15. Fresh'
  <2> SUFFICES ASSUME NEW u \in Threads, job'[u].pc \in Owed
               PROVE  /\ job'[u].value # 0
                      /\ \A y \in Ids : gone'[y] # job'[u].value
                      /\ \A w \in Threads, y \in Ids : job'[w].gone[y] # job'[u].value
                      /\ \A w \in Threads \ {u} : job'[w].pc \in Owed => job'[w].value # job'[u].value
    BY DEF Fresh
  <2>1. CASE u = t
    <3>1. job'[t].value = tally.ops + 1
      BY <1>5, <1>6, <2>1
    <3>2. \A y \in Ids : gone'[y] # tally.ops + 1
      BY <1>1, <1>3, <1>10
    <3>3. \A w \in Threads, y \in Ids : job'[w].gone[y] # tally.ops + 1
      BY <1>1, <1>12
    <3>4. \A w \in Threads \ {t} : job'[w].value # tally.ops + 1
      BY <1>1, <1>5, <1>10
    <3> QED BY <1>1, <2>1, <3>1, <3>2, <3>3, <3>4
  <2>2. CASE u # t
    <3>1. /\ job'[u] = job[u] /\ job[u].value # 0
          /\ \A y \in Ids : gone[y] # job[u].value
          /\ \A w \in Threads, y \in Ids : job[w].gone[y] # job[u].value
          /\ \A w \in Threads \ {u} : job[w].pc \in Owed => job[w].value # job[u].value
      BY <1>5, <2>2 DEF History, Fresh
    <3>2. job'[t].pc \in Owed => job'[t].value # job[u].value
      <4>1. job'[t].pc \in Owed => job'[t].value = tally.ops + 1
        BY <1>5, <1>6
      <4> QED BY <1>1, <1>10, <4>1
    <3>3. \A w \in Threads \ {u} : job'[w].pc \in Owed => job'[w].value # job[u].value
      BY <1>5, <3>1, <3>2
    <3> QED BY <1>3, <1>9, <3>1, <3>3
  <2> QED BY <2>1, <2>2
<1>16. Unseen'
  <2> SUFFICES ASSUME NEW u \in Threads, NEW y \in Ids \ overtaken', job'[u].pc \in {"snap", "plan"},
                      job'[u].gone[y] # 0, job'[u].gone[y] = gone'[y]
               PROVE  /\ ~Unbumped(y)'
                      /\ job'[u].pc = "snap" /\ job'[u].build = "built" => y \notin job'[u].got.live
                      /\ job'[u].pc = "plan" => y \notin job'[u].known
    BY DEF Unseen
  <2>1. CASE u # t
    BY <1>3, <1>5, <1>7, <2>1 DEF History, Unseen
  <2>2. CASE u = t
    <3>1. Answered[y] # 0 /\ job'[t].pc = "snap" /\ job'[t].build = "no"
      BY <1>5, <1>6, <2>2
    <3>2. ~Unbumped(y)
      BY <3>1 DEF Answered, Unbumped, Removing, Holds
    <3> QED BY <1>7, <2>2, <3>1, <3>2
  <2> QED BY <2>1, <2>2
<1> QED BY <1>11, <1>14, <1>15, <1>16 DEF History

\* Startup, crash and the other process.
LEMMA OutsideKeeps ==
  ASSUME IInv, IInv', Deletions, History, Seed \/ Startup \/ Crash \/ RotateRead \/ RotateEnd
  PROVE  History'
<1>1. tally \in [ops : Nat, faults : Nat, crashes : Nat] /\ gone \in [Ids -> Nat]
  BY DEF IInv, TypeOK
<1>2. tombs' = tombs /\ gone' = gone /\ overtaken' = overtaken
  BY DEF Seed, Startup, Crash, RotateRead, RotateEnd, tables, fates, ghosts
<1>3. CASE Crash
  <2>1. /\ \A u \in Threads : job'[u] = NoJob
        /\ tally'.ops = tally.ops /\ version' = 0 /\ cache'.version = -1
    BY <1>1, <1>3 DEF Crash, NoCache
  <2>2. NoJob.pc = "idle" /\ NoJob.build = "no" /\ NoJob.value = 0 /\ NoJob.gone = [y \in Ids |-> 0]
    BY DEF NoJob
  <2>3. \A y \in Ids : NoJob.gone[y] = 0
    BY <2>2
  <2>4. Uncached' /\ Fresh' /\ Unseen'
    BY <2>1, <2>2 DEF Uncached, Fresh, Unseen, Owed
  <2>5. Past'
    BY <1>1, <1>2, <2>1, <2>2, <2>3 DEF History, Past
  <2> QED BY <2>4, <2>5 DEF History
<1>4. CASE ~Crash
  <2>1. UNCHANGED <<job, version, cache>>
    BY <1>4 DEF Seed, Startup, RotateRead, RotateEnd, process
  <2>2. tally'.ops \in Nat /\ tally.ops <= tally'.ops
    BY <1>1, <1>4 DEF Seed, Startup, RotateRead, RotateEnd
  <2>3. \A y : Unbumped(y)' <=> Unbumped(y)
    BY <2>1 DEF Unbumped
  <2>4. Uncached'
    BY <1>2, <2>1, <2>3 DEF History, Uncached
  <2>5. Fresh'
    BY <1>2, <2>1 DEF History, Fresh
  <2>6. Unseen'
    BY <1>2, <2>1, <2>3 DEF History, Unseen
  <2>7. Past'
    <3>1. /\ \A y \in Ids : gone[y] \in Nat /\ gone[y] <= tally.ops
          /\ \A u \in Threads : /\ job[u].value \in Nat /\ job[u].value <= tally.ops
                                /\ \A y \in Ids : job[u].gone[y] \in Nat /\ job[u].gone[y] <= tally.ops
      BY Numbers DEF History, Past
    <3> QED BY <1>1, <1>2, <2>1, <2>2, <3>1 DEF Past
  <2> QED BY <2>4, <2>5, <2>6, <2>7 DEF History
<1> QED BY <1>3, <1>4

LEMMA HistorySound ==
  /\ Init => History
  /\ IInv /\ IInv' /\ Deletions /\ History /\ [Next]_vars => History'
<1>1. ASSUME Init PROVE History
  <2>1. /\ \A t \in Threads : job[t] = NoJob
        /\ tally.ops = 0 /\ gone = [x \in Ids |-> 0] /\ tombs = {}
    BY <1>1 DEF Init
  <2>2. /\ NoJob.pc = "idle" /\ NoJob.value = 0 /\ NoJob.gone = [x \in Ids |-> 0]
    BY DEF NoJob
  <2>3. \A x \in Ids : gone[x] = 0 /\ NoJob.gone[x] = 0
    BY <2>1, <2>2
  <2> QED BY <2>1, <2>2, <2>3 DEF History, Uncached, Past, Fresh, Unseen, Owed
<1>2. ASSUME IInv, IInv', Deletions, History, [Next]_vars PROVE History'
  <2>1. CASE UNCHANGED vars
    <3>1. UNCHANGED <<job, version, cache, gone, overtaken, tombs, tally>>
      BY <2>1 DEF vars, tables, process, fates, ghosts
    <3>2. \A y : Unbumped(y)' <=> Unbumped(y)
      BY <3>1 DEF Unbumped
    <3> QED BY <1>2, <3>1, <3>2 DEF History, Uncached, Past, Fresh, Unseen
  <2>2. ASSUME NEW t \in Threads, Arrival(t) \/ Step(t) \/ FileFails(t)
        PROVE  History'
    BY <1>2, <2>2, ArrivalKeeps, SettingsKeep, OverlayKeeps, WritesKeep, BumpKeeps DEF Arrival, Step
  <2> QED BY <1>2, <2>1, <2>2, OutsideKeeps DEF Next
<1> QED BY <1>1, <1>2

-----------------------------------------------------------------------------
(* The settings file. *)

\* A request that reads, merges and writes the file works on the file as it is.
FileSame == \A t \in Threads : job[t].pc \in {"toggle", "toggled"} => job[t].file = toggles

\* A thread comes to the toggle with the file it has just read.
LEMMA TogglePoints ==
  ASSUME IInv, NEW t \in Threads, Arrival(t) \/ Step(t) \/ FileFails(t),
         job'[t].pc \in {"toggle", "toggled"}
  PROVE  /\ toggles' = toggles
         /\ \/ job'[t].file = toggles
            \/ job[t].pc \in {"toggle", "toggled"} /\ job'[t].file = job[t].file
<1>1. job \in [Threads -> Job] /\ job[t] \in Job /\ Sane(job[t])
  BY DEF IInv, TypeOK
<1>2. NoJob.pc = "idle"
  BY DEF NoJob
<1>3. CASE LockFile(t)
  <2>1. job[t].pc \in DOMAIN Under /\ job'[t].pc = Under[job[t].pc]
        /\ job'[t].file = IF job[t].pc = "put" THEN job[t].file ELSE toggles
    BY <1>1, <1>3 DEF LockFile, Job
  <2> QED BY <1>3, <2>1, Points DEF LockFile
<1>4. CASE OverlayHit(t) \/ OverlayMiss(t) \/ OverlayBuild(t) \/ OverlayStore(t)
  <2>1. job[t].pc \in DOMAIN Return /\ job'[t].pc \in {job[t].pc, Return[job[t].pc]}
        /\ job'[t].file = job[t].file /\ toggles' = toggles
    BY <1>1, <1>4 DEF OverlayHit, OverlayMiss, OverlayBuild, OverlayStore, Sane, Job
  <2> QED BY <2>1, Points
<1>5. CASE Bump(t)
  <2>1. job[t].pc \in DOMAIN After /\ job'[t].pc \in {"idle", After[job[t].pc]}
    BY <1>1, <1>2, <1>5 DEF Bump, Go, Done, Job
  <2> QED BY <2>1, Points
<1>6. CASE Arrival(t)
  <2>1. job'[t].pc \in {"create", "delete", "update", "get", "put", "idle", "snap"}
    <3>1. CASE CreateStart(t)
      <4>1. PICK x \in Ids : job' = [job EXCEPT ![t] =
                [NoJob EXCEPT !.pc = "create", !.id = x, !.value = Value, !.had = x \in tombs]]
        BY <3>1 DEF CreateStart
      <4> QED BY <1>1, <4>1 DEF NoJob
    <3>2. CASE DeleteStart(t)
      <4>1. PICK x \in live : job' = [job EXCEPT ![t] =
                [NoJob EXCEPT !.pc = "delete", !.id = x, !.value = Value]]
        BY <3>2 DEF DeleteStart
      <4> QED BY <1>1, <4>1 DEF NoJob
    <3>3. CASE UpdateStart(t)
      <4>1. PICK x \in live, n \in Names : job' = [job EXCEPT ![t] =
                [NoJob EXCEPT !.pc = "update", !.id = x, !.name = n, !.value = Value]]
        BY <3>3 DEF UpdateStart
      <4> QED BY <1>1, <4>1 DEF NoJob
    <3>4. CASE PageFlip(t)
      <4>1. PICK x \in Ids : job' = [job EXCEPT ![t].pc = "put", ![t].id = x,
                   ![t].file = [job[t].file EXCEPT ![x] = IF @ = "on" THEN "off" ELSE "on"]]
        BY <3>4 DEF PageFlip
      <4> QED BY <1>1, <4>1 DEF Job
    <3>5. CASE PageStart(t)
      BY <1>1, <1>2, <3>5 DEF PageStart, NoJob
    <3>6. CASE PageLeft(t)
      BY <1>1, <1>2, <3>6 DEF PageLeft, Done, NoJob
    <3>7. CASE RunStart(t)
      BY <1>1, <1>2, <3>7 DEF RunStart, NoJob
    <3> QED BY <1>6, <3>1, <3>2, <3>3, <3>4, <3>5, <3>6, <3>7 DEF Arrival
  <2> QED BY <2>1
<1>7. CASE CreateCommit(t) \/ DeleteCommit(t) \/ UpdateRead(t) \/ UpdateCommit(t) \/ Undo(t) \/ Untomb(t)
  <2>1. job'[t].pc \in {"idle", "created", "deleted", "merge", "updated", "undone", "untomb"}
    BY <1>1, <1>2, <1>7 DEF CreateCommit, DeleteCommit, UpdateRead, UpdateCommit, Undo, Untomb,
       Remove, Go, Done, Job
  <2> QED BY <2>1
<1>8. CASE Forget(t) \/ CreateKnown(t) \/ SwitchOff(t) \/ FileFails(t) \/ PageLoaded(t) \/ PageSaved(t)
           \/ RunPlan(t)
  <2>1. job'[t].pc \in {"idle", "switch", "undo", "page"}
    BY <1>1, <1>2, <1>8 DEF Forget, CreateKnown, SwitchOff, FileFails, PageLoaded, PageSaved, RunPlan,
       Refused, Go, Done, Job
  <2> QED BY <2>1
<1> QED BY <1>3, <1>4, <1>5, <1>6, <1>7, <1>8 DEF Step

LEMMA FileSameSound ==
  /\ Init => FileSame
  /\ IInv /\ FileSame /\ [Next]_vars => FileSame'
<1>1. ASSUME Init PROVE FileSame
  BY <1>1 DEF Init, NoJob, FileSame
<1>2. ASSUME IInv, FileSame, [Next]_vars PROVE FileSame'
  <2>1. CASE UNCHANGED vars
    BY <1>2, <2>1 DEF vars, FileSame
  <2>2. ASSUME NEW t \in Threads, Arrival(t) \/ Step(t) \/ FileFails(t)
        PROVE  FileSame'
    <3> SUFFICES ASSUME NEW u \in Threads, job'[u].pc \in {"toggle", "toggled"}
                 PROVE  job'[u].file = toggles'
      BY DEF FileSame
    <3>1. CASE u = t
      BY <1>2, <2>2, <3>1, TogglePoints DEF FileSame
    <3>2. CASE u # t
      <4>1. job'[u] = job[u] /\ (toggles' = toggles \/ fileLock \in {t, None})
        BY <1>2, <2>2, <3>2, FileWriters
      <4>2. fileLock = u
        BY <1>2, <4>1, TypeSplit DEF IInv, Held, Locks, FilePcs
      <4> QED BY <1>2, <3>2, <4>1, <4>2, NoneAssumption DEF FileSame
    <3> QED BY <3>1, <3>2
  <2>3. CASE Seed \/ Startup \/ RotateRead \/ RotateEnd
    BY <1>2, <2>3 DEF Seed, Startup, RotateRead, RotateEnd, FileSame
  <2>4. CASE Crash
    BY <2>4 DEF Crash, NoJob, FileSame
  <2> QED BY <1>2, <2>1, <2>2, <2>3, <2>4 DEF Next
<1> QED BY <1>1, <1>2

\* What a run sees is closed under the steps of the specification.
LEMMA Remembered == Spec => []History
<1>1. Init => History /\ FileSame
  BY HistorySound, FileSameSound
<1> QED BY <1>1, HistorySound, Inductive, Deleting, PTL DEF Spec

\* No run collects from a connection whose deletion was answered before the run
\* began, however the cache or a restart stand at that moment, but for the
\* overlapping creates that DeletedNotCollected leaves out.
THEOREM DeletedIsNotCollected == Spec => DeletedNotCollected
<1> DEFINE Skips == \A t \in Threads, x \in Ids \ overtaken :
       job[t].pc = "plan" /\ job'[t] # job[t] /\ job[t].gone[x] # 0 /\ job[t].gone[x] = gone[x]
         => x \notin run'
<1>1. IInv /\ History /\ [Next]_vars => [Skips]_vars
  <2> SUFFICES ASSUME IInv, History, Next, NEW t \in Threads, NEW x \in Ids \ overtaken, job[t].pc = "plan",
                      job'[t] # job[t], job[t].gone[x] # 0, job[t].gone[x] = gone[x]
               PROVE  x \notin run'
    OBVIOUS
  <2>1. x \notin job[t].known
    BY DEF History, Unseen
  <2>2. CASE Crash
    BY <2>2 DEF Crash
  <2>3. CASE \E u \in Threads : Arrival(u) \/ Step(u) \/ FileFails(u)
    <3>1. Arrival(t) \/ Step(t) \/ FileFails(t)
      BY <2>3, FileWriters
    <3>2. RunPlan(t)
      <4>1. job[t].build = "no" /\ "plan" \notin DOMAIN Return \cup DOMAIN After \cup DOMAIN Under
        BY Points DEF IInv, Sane
      <4>2. ~Arrival(t)
        BY DEF Arrival, CreateStart, DeleteStart, UpdateStart, PageStart, RunStart, PageFlip, PageLeft, Start
      <4> QED BY <3>1, <4>1, <4>2 DEF Step, FileFails, CreateCommit, DeleteCommit, UpdateRead,
          UpdateCommit, Bump, OverlayHit, OverlayMiss, OverlayBuild, OverlayStore, LockFile, Forget,
          CreateKnown, SwitchOff, Undo, Untomb, PageLoaded, PageSaved
    <3> QED BY <2>1, <3>2 DEF RunPlan
  <2>4. CASE Seed \/ Startup \/ RotateRead \/ RotateEnd
    BY <2>4 DEF Seed, Startup, RotateRead, RotateEnd
  <2> QED BY <2>2, <2>3, <2>4 DEF Next
<1>2. DeletedNotCollected <=> [][Skips]_vars
  BY DEF DeletedNotCollected
<1> HIDE DEF Skips
<1> QED BY <1>1, <1>2, Inductive, Remembered, PTL DEF Spec

\* No writer of the settings switches a source on that is off, but one that forgets it,
\* that does not know it, or that saves a page which does not show it off.
THEOREM TogglesAreKept == Spec => TogglesKept
<1> DEFINE Keeps == \A t \in Threads, x \in Ids :
       toggles[x] = "off" /\ toggles'[x] # "off" /\ job'[t] # job[t] =>
         \/ job[t].pc = "forget" /\ job[t].id = x
         \/ job[t].pc \in {"toggled", "saved"} /\ x \notin job[t].known
         \/ job[t].pc = "saved" /\ job[t].file[x] # "off"
<1>1. IInv /\ FileSame /\ [Next]_vars => [Keeps]_vars
  <2> SUFFICES ASSUME IInv, FileSame, Next, NEW t \in Threads, NEW x \in Ids,
                      toggles[x] = "off", toggles'[x] # "off", job'[t] # job[t]
               PROVE  \/ job[t].pc = "forget" /\ job[t].id = x
                      \/ job[t].pc \in {"toggled", "saved"} /\ x \notin job[t].known
                      \/ job[t].pc = "saved" /\ job[t].file[x] # "off"
    OBVIOUS
  <2>1. ~(Seed \/ Startup \/ Crash \/ RotateRead \/ RotateEnd)
    BY DEF Seed, Startup, Crash, RotateRead, RotateEnd
  <2>2. Arrival(t) \/ Step(t) \/ FileFails(t)
    BY <2>1, FileWriters DEF Next
  <2>3. Forget(t) \/ SwitchOff(t) \/ PageSaved(t)
    BY <2>2 DEF Arrival, CreateStart, DeleteStart, UpdateStart, PageStart, PageFlip, PageLeft,
       RunStart, Step, CreateCommit, DeleteCommit, UpdateRead, UpdateCommit, Bump, OverlayHit,
       OverlayMiss, OverlayBuild, OverlayStore, LockFile, CreateKnown, Undo, Untomb, PageLoaded,
       RunPlan, FileFails
  <2>4. toggles \in [Ids -> Toggle] /\ DOMAIN Config(t) = Ids
    BY DEF IInv, TypeOK, Config
  <2>5. x \in job[t].known /\ job[t].file[x] = "off" => Config(t)[x] = "off"
    BY DEF Config
  <2>6. CASE Forget(t)
    BY <2>4, <2>6 DEF Forget
  <2>7. CASE SwitchOff(t)
    BY <2>4, <2>5, <2>7 DEF SwitchOff, FileSame
  <2>8. CASE PageSaved(t)
    BY <2>5, <2>8 DEF PageSaved
  <2> QED BY <2>3, <2>6, <2>7, <2>8
<1>2. TogglesKept <=> [][Keeps]_vars
  BY DEF TogglesKept
<1> HIDE DEF Keeps
<1>3. Spec => []FileSame
  BY FileSameSound, Inductive, PTL DEF Spec
<1> QED BY <1>1, <1>2, <1>3, Inductive, PTL DEF Spec
=============================================================================

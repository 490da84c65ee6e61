------------------------------- MODULE Runner -------------------------------
(***************************************************************************)
(* The digest run: pipeline/runner.py, the run and cursor tables of        *)
(* pipeline/db.py, the endpoints that start a run (api/routers/runs.py,    *)
(* api/routers/collectors.py, api/scheduler.py) and the endpoints that     *)
(* move a watermark while one may be in flight.                            *)
(*                                                                         *)
(* A source's history is cut into instants 0, 1, 2, ...; the instant i is  *)
(* the item the upstream service received in [i, i+1).  A watermark m      *)
(* claims every instant below m.                                           *)
(***************************************************************************)
EXTENDS Integers, Sequences, FiniteSets

CONSTANTS
  Sources,          \* the collector sources a deployment can declare
  Threads,          \* API worker and scheduler threads that may start a run
  None,             \* no thread, no source
  LOOKBACK,         \* DEFAULT_LOOKBACK, in instants
  OVERLAP,          \* OVERLAP
  MAX_BACKFILL,     \* MAX_BACKFILL
  MAX_STUCK_RUNS,   \* runner.MAX_STUCK_RUNS
  DaysBack,         \* the days_back values an operator sends to /reset
  Ops,              \* operator endpoints used in this instance
  Faults,           \* outside failures that may happen in this instance
  MaxTime, MaxRuns, MaxCrashes   \* bounds

ASSUME WindowAssumption ==
  /\ LOOKBACK \in Nat /\ OVERLAP \in Nat /\ MAX_BACKFILL \in Nat
  /\ OVERLAP < LOOKBACK /\ LOOKBACK <= MAX_BACKFILL

ASSUME StuckAssumption == MAX_STUCK_RUNS \in Nat \ {0}

\* The endpoint takes 1 to 7 days; MAX_BACKFILL is 7 days.
ASSUME OperatorAssumption == DaysBack \subseteq 1 .. MAX_BACKFILL

ASSUME BoundAssumption == MaxTime \in Nat /\ MaxRuns \in Nat /\ MaxCrashes \in Nat

ASSUME NoneAssumption == None \notin Sources /\ None \notin Threads

VARIABLES
  now,        \* the clock
  up,         \* the API process is running
  crashes,    \* how often it has died
  runs,       \* the Run table, in insertion order
  cursor,     \* the SourceCursor table
  stored,     \* the CollectedItem table
  declared,   \* sources the connection store and .env declare
  startLock,  \* holder of runner._start_lock
  pc,         \* where each thread is in execute_run
  job,        \* each thread's local variables in execute_run
  gone        \* ghost: instants a watermark moved past without an item

processVars == <<up, crashes, declared>>
threadVars == <<startLock, pc, job>>
vars == <<now, up, crashes, runs, cursor, stored, declared, startLock, pc, job, gone>>

-----------------------------------------------------------------------------
(* Records *)

NoMark == -1
Mark == Nat \cup {NoMark}
Row == [present : BOOLEAN, mark : Mark, fails : Nat]
NoRow == [present |-> FALSE, mark |-> NoMark, fails |-> 0]

Outcome == {"success", "partial", "failed"}
\* "how" tells apart the three ways a run becomes terminal: its own finally
\* block after a complete loop, the same after a fatal exception, the reaper.
How == {"open", "complete", "fatal", "reaped"}
Loss == [src : Sources, at : Nat]
\* The texts of a Run row; "full" holds those cut off at MAX_PERSISTED_CHARS.
Text == {"summary", "error"}
Run == [status : {"running"} \cup Outcome, how : How, said : SUBSET Loss, full : SUBSET Text]
Item == [src : Sources, at : Nat, run : Nat]

RowOp == {"attempt", "failure", "advance"}
Job == [run : Nat, active : SUBSET Sources, until : Nat,
        sick : SUBSET Sources, todo : SUBSET Sources,
        src : Sources \cup {None}, base : Mark, start : Int,
        res : {"ok", "partial", "error", "raised"}, fresh : SUBSET Nat,
        op : RowOp, snap : Row,
        failed : SUBSET Sources, partial : SUBSET Sources,
        noted : SUBSET Loss, told : SUBSET Loss, full : SUBSET Text, fatal : BOOLEAN]

NoJob == [run |-> 0, active |-> {}, until |-> 0, sick |-> {}, todo |-> {},
          src |-> None, base |-> NoMark, start |-> 0,
          res |-> "ok", fresh |-> {}, op |-> "attempt", snap |-> NoRow,
          failed |-> {}, partial |-> {}, noted |-> {}, told |-> {}, full |-> {},
          fatal |-> FALSE]

\* The program points of a run that owns its Run row.
Collecting ==
  {"check", "loop", "window", "dispatch", "store", "read", "commit", "streak", "finish"}
PC == {"idle", "accepted", "due", "insert"} \cup Collecting

-----------------------------------------------------------------------------
(* Helpers *)

Larger(a, b) == IF a < b THEN b ELSE a
Smaller(a, b) == IF a < b THEN a ELSE b

Running(r) == r.status = "running"
HasRunningRun == \E i \in DOMAIN runs : Running(runs[i])

CollectionWindow(mark, until) ==
  IF mark = NoMark THEN until - LOOKBACK
  ELSE Larger(until - MAX_BACKFILL, Smaller(until - LOOKBACK, mark - OVERLAP))

\* Mutant of Shortfall: the last instant before the window is forgotten.
ShortfallShort(s, mark, until) ==
  IF mark = NoMark THEN {}
  ELSE {[src |-> s, at |-> i] :
          i \in Larger(0, mark - OVERLAP) .. (CollectionWindow(mark, until) - 2)}

\* The instants the backfill cap is about to skip, as the run reports them.
Shortfall(s, mark, until) ==
  IF mark = NoMark THEN {}
  ELSE {[src |-> s, at |-> i] :
          i \in Larger(0, mark - OVERLAP) .. (CollectionWindow(mark, until) - 1)}

\* Mutant of StoredAt: existing_external_ids reports nothing.
StoredNowhere(s) == {}

StoredAt(s) == {x.at : x \in {y \in stored : y.src = s}}

\* _summarize: an unhealthy or hard-failing source is bad, a partly collecting
\* one is partial, and the run takes the worst tier that leaves no good source.
Summarize(checked, sick, failed, partial) ==
  LET bad  == sick \cup (failed \ partial)
      part == (partial \cup failed) \ bad
      good == (checked \ bad) \ part
  IN IF bad = {} /\ part = {} THEN "success"
     ELSE IF good = {} /\ part = {} THEN "failed" ELSE "partial"

\* Sentences are appended to a text that _scrub later cuts at MAX_PERSISTED_CHARS:
\* once a sentence (an upstream's detail, say) has filled it, the later ones are lost.
Filled(full, text, appended) ==
  IF appended /\ "long" \in Faults THEN {full, full \cup {text}} ELSE {full}

Heard(full, text, losses) == IF text \in full THEN {} ELSE losses

\* What an outer `except Exception` leaves behind: the loop is abandoned.
Die(t) ==
  /\ pc' = [pc EXCEPT ![t] = "finish"]
  /\ job' = [job EXCEPT ![t].fatal = TRUE]

Goto(t, label) == pc' = [pc EXCEPT ![t] = label]

-----------------------------------------------------------------------------
Init ==
  /\ now = 0
  /\ up = TRUE
  /\ crashes = 0
  /\ runs = <<>>
  /\ cursor = [s \in Sources |-> NoRow]
  /\ stored = {}
  /\ declared = Sources
  /\ startLock = None
  /\ pc = [t \in Threads |-> "idle"]
  /\ job = [t \in Threads |-> NoJob]
  /\ gone = {}

Tick ==
  /\ now < MaxTime
  /\ now' = now + 1
  /\ UNCHANGED <<processVars, threadVars, runs, cursor, stored, gone>>

-----------------------------------------------------------------------------
(* Starting a run *)

\* Bound: no more starts are asked for than the run table has room for.
Quota == Len(runs) + Cardinality({t \in Threads : pc[t] \in {"accepted", "due", "insert"}})
           < MaxRuns

\* POST /runs/trigger and POST /collectors/{source}/run: 409 while a run is in
\* flight, otherwise "accepted" is answered and execute_run runs as a background task.
Trigger(t) ==
  /\ up /\ pc[t] = "idle" /\ Quota
  /\ ~HasRunningRun
  /\ Goto(t, "accepted")
  /\ UNCHANGED <<now, processVars, startLock, job, runs, cursor, stored, gone>>

\* The cron tick calls execute_run directly.
Scheduled(t) ==
  /\ up /\ pc[t] = "idle" /\ Quota
  /\ Goto(t, "due")
  /\ UNCHANGED <<now, processVars, startLock, job, runs, cursor, stored, gone>>

Waiting(t) == pc[t] \in {"accepted", "due"}

\* Under _start_lock: has_running_run(), then RunAlreadyInProgress or the INSERT.
StartRefused(t) ==
  /\ Waiting(t) /\ startLock = None
  /\ HasRunningRun
  /\ Goto(t, "idle")
  /\ UNCHANGED <<now, processVars, startLock, job, runs, cursor, stored, gone>>

\* Mutant of StartAllowed: has_running_run() is asked without _start_lock.
StartUnlocked(t) ==
  /\ Waiting(t)
  /\ ~HasRunningRun
  /\ Goto(t, "insert")
  /\ UNCHANGED <<now, processVars, startLock, job, runs, cursor, stored, gone>>

StartAllowed(t) ==
  /\ Waiting(t) /\ startLock = None
  /\ ~HasRunningRun
  /\ startLock' = t
  /\ Goto(t, "insert")
  /\ UNCHANGED <<now, processVars, job, runs, cursor, stored, gone>>

\* Mutant of InsertRun: a start after a failure reuses the failed run's row.
InsertOverFailed(t) ==
  LET n == IF runs # <<>> /\ runs[Len(runs)].status = "failed" THEN Len(runs) ELSE Len(runs) + 1
      new == [status |-> "running", how |-> "open", said |-> {}, full |-> {}]
  IN /\ pc[t] = "insert"
     /\ job' = [job EXCEPT ![t] = [NoJob EXCEPT !.run = n, !.until = now]]
     /\ runs' = IF n \in DOMAIN runs THEN [runs EXCEPT ![n] = new] ELSE Append(runs, new)
     /\ startLock' = None
     /\ Goto(t, "check")
     /\ UNCHANGED <<now, processVars, cursor, stored, gone>>

\* `active` is the run's source set: the toggled-on sources, or just `only`.
InsertRun(t) ==
  /\ pc[t] = "insert"
  /\ \E A \in SUBSET declared :
       job' = [job EXCEPT ![t] =
                 [NoJob EXCEPT !.run = Len(runs) + 1, !.active = A, !.until = now]]
  /\ runs' = Append(runs, [status |-> "running", how |-> "open", said |-> {}, full |-> {}])
  /\ startLock' = None
  /\ Goto(t, "check")
  /\ UNCHANGED <<now, processVars, cursor, stored, gone>>

-----------------------------------------------------------------------------
(* Collecting *)

HealthCheck(t) ==
  /\ pc[t] = "check"
  /\ \E sick \in SUBSET job[t].active :
       job' = [job EXCEPT ![t].sick = sick, ![t].todo = job[t].active \ sick]
  /\ Goto(t, "loop")
  /\ UNCHANGED <<now, processVars, startLock, runs, cursor, stored, gone>>

\* A check that raises is not caught per source: check_all_configured sits in
\* the run's outer try.
HealthRaises(t) ==
  /\ "health" \in Faults
  /\ pc[t] = "check" /\ job[t].active # {}
  /\ pc' = [pc EXCEPT ![t] = "finish"]
  /\ job' = [job EXCEPT ![t].fatal = TRUE, ![t].todo = job[t].active]
  /\ UNCHANGED <<now, processVars, startLock, runs, cursor, stored, gone>>

\* One iteration of the loop: backfill_shortfall reads the cursor row ...
NextSource(t) ==
  /\ pc[t] = "loop"
  /\ \E s \in job[t].todo :
       LET lost == Shortfall(s, cursor[s].mark, job[t].until)
       IN \E full \in Filled(job[t].full, "summary", lost # {}) :
            job' = [job EXCEPT ![t].todo = @ \ {s}, ![t].src = s, ![t].full = full,
                               ![t].noted = @ \cup Heard(full, "summary", lost)]
  /\ Goto(t, "window")
  /\ UNCHANGED <<now, processVars, startLock, runs, cursor, stored, gone>>

\* ... and collection_window reads it again for the collector's call.
OpenWindow(t) ==
  /\ pc[t] = "window"
  /\ LET s == job[t].src
         mark == cursor[s].mark
     IN job' = [job EXCEPT ![t].base = mark, ![t].start = CollectionWindow(mark, job[t].until)]
  /\ Goto(t, "dispatch")
  /\ UNCHANGED <<now, processVars, startLock, runs, cursor, stored, gone>>

LoopDone(t) ==
  /\ pc[t] = "loop" /\ job[t].todo = {}
  /\ Goto(t, "finish")
  /\ UNCHANGED <<now, processVars, startLock, job, runs, cursor, stored, gone>>

Window(t) == Larger(0, job[t].start) .. (job[t].until - 1)

\* The collector raised: no items, a hard failure of this source only.
DispatchRaises(t) ==
  /\ pc[t] = "dispatch"
  /\ job' = [job EXCEPT ![t].res = "raised", ![t].fresh = {}, ![t].op = "attempt",
                         ![t].failed = @ \cup {job[t].src}]
  /\ Goto(t, "read")
  /\ UNCHANGED <<now, processVars, startLock, runs, cursor, stored, gone>>

\* The collector returned; _persist drops what existing_external_ids reports.
\* A clean result holds the whole window, any other result some part of it.
DispatchReturns(t) ==
  /\ pc[t] = "dispatch"
  /\ LET new == Window(t) \ StoredAt(job[t].src)
     IN \E res \in {"ok", "partial", "error"}, fresh \in SUBSET new :
          /\ res = "ok" => fresh = new
          /\ job' = [job EXCEPT ![t].res = res, ![t].fresh = fresh, ![t].op = "attempt"]
          /\ Goto(t, IF fresh = {} THEN "read" ELSE "store")
  /\ UNCHANGED <<now, processVars, startLock, runs, cursor, stored, gone>>

\* _persist's INSERT and commit.
StoreItems(t) ==
  /\ pc[t] = "store"
  /\ LET s == job[t].src
     IN /\ stored' = stored \cup {[src |-> s, at |-> i, run |-> job[t].run] : i \in job[t].fresh}
        /\ gone' = {g \in gone : ~(g.src = s /\ g.at \in job[t].fresh)}
  /\ Goto(t, "read")
  /\ UNCHANGED <<now, processVars, startLock, job, runs, cursor>>

\* _persist sits outside the per-source try: a database error there is fatal.
StoreRaises(t) ==
  /\ "store" \in Faults
  /\ pc[t] = "store"
  /\ Die(t)
  /\ UNCHANGED <<now, processVars, startLock, runs, cursor, stored, gone>>

-----------------------------------------------------------------------------
(* record_attempt, record_failure and set_cursor: a SELECT, then a commit.  *)
(* SQLite starts no transaction for the SELECT, so a row may appear or      *)
(* vanish in between; the commit then raises (IntegrityError for a second   *)
(* INSERT, StaleDataError for an UPDATE of no row).                         *)

ReadRow(t) ==
  /\ pc[t] = "read"
  /\ job' = [job EXCEPT ![t].snap = cursor[job[t].src]]
  /\ Goto(t, "commit")
  /\ UNCHANGED <<now, processVars, startLock, runs, cursor, stored, gone>>

RowConflict(t) ==
  /\ pc[t] = "commit"
  /\ cursor[job[t].src].present # job[t].snap.present
  /\ Die(t)
  /\ UNCHANGED <<now, processVars, startLock, runs, cursor, stored, gone>>

RowWritable(t, op) ==
  /\ pc[t] = "commit" /\ job[t].op = op
  /\ cursor[job[t].src].present = job[t].snap.present

\* record_attempt touches neither the watermark nor the streak, but creates
\* the row.  Then the result decides which of the two is written; one that is
\* not clean puts its detail at the end of the failures.
RecordAttempt(t) ==
  /\ RowWritable(t, "attempt")
  /\ LET s == job[t].src
         clean == job[t].res = "ok"
     IN /\ cursor' = [cursor EXCEPT ![s].present = TRUE]
        /\ \E full \in Filled(job[t].full, "error", ~clean) :
             job' = [job EXCEPT ![t].op = IF clean THEN "advance" ELSE "failure",
                                ![t].full = full,
                                ![t].failed = IF clean THEN @ ELSE @ \cup {s},
                                ![t].partial = IF job[t].res = "partial" THEN @ \cup {s} ELSE @]
  /\ Goto(t, "read")
  /\ UNCHANGED <<now, processVars, startLock, runs, stored, gone>>

RecordFailure(t) ==
  /\ RowWritable(t, "failure")
  /\ cursor' = [cursor EXCEPT ![job[t].src].present = TRUE,
                              ![job[t].src].fails = job[t].snap.fails + 1]
  /\ Goto(t, "streak")
  /\ UNCHANGED <<now, processVars, startLock, job, runs, stored, gone>>

\* Mutant of StreakHolds: the streak is allowed one run more than the limit.
StreakHoldsLonger(t) ==
  /\ pc[t] = "streak"
  /\ cursor[job[t].src].present /\ cursor[job[t].src].fails <= MAX_STUCK_RUNS
  /\ Goto(t, "loop")
  /\ UNCHANGED <<now, processVars, startLock, job, runs, cursor, stored, gone>>

\* The returned streak is read back from the row after the commit.
StreakHolds(t) ==
  /\ pc[t] = "streak"
  /\ cursor[job[t].src].present /\ cursor[job[t].src].fails < MAX_STUCK_RUNS
  /\ Goto(t, "loop")
  /\ UNCHANGED <<now, processVars, startLock, job, runs, cursor, stored, gone>>

StreakExhausted(t) ==
  /\ pc[t] = "streak"
  /\ cursor[job[t].src].present /\ cursor[job[t].src].fails >= MAX_STUCK_RUNS
  /\ job' = [job EXCEPT ![t].op = "advance"]
  /\ Goto(t, "read")
  /\ UNCHANGED <<now, processVars, startLock, runs, cursor, stored, gone>>

StreakUnreadable(t) ==
  /\ pc[t] = "streak"
  /\ ~cursor[job[t].src].present
  /\ Die(t)
  /\ UNCHANGED <<now, processVars, startLock, runs, cursor, stored, gone>>

\* Instants this run answers for when it moves the watermark of its source.
Claimed(t) == (IF job[t].base = NoMark THEN Larger(0, job[t].start) ELSE job[t].base)
                .. (job[t].until - 1)

\* set_cursor(source, until).  After an exhausted streak the failures go on with
\* the sentence that what is still missing from the window will not be retried.
Advance(t) ==
  /\ RowWritable(t, "advance")
  /\ LET s == job[t].src
         missing == {i \in Claimed(t) \ StoredAt(s) : ~\E g \in gone : g.src = s /\ g.at = i}
         window == {[src |-> s, at |-> i] : i \in Window(t)}
         stuck == job[t].res # "ok"
     IN /\ cursor' = [cursor EXCEPT ![s] = [present |-> TRUE, mark |-> job[t].until, fails |-> 0]]
        /\ gone' = gone \cup {[src |-> s, at |-> i, run |-> job[t].run] : i \in missing}
        /\ \E full \in Filled(job[t].full, "error", stuck) :
             job' = [job EXCEPT ![t].full = full,
                                ![t].told = IF stuck THEN @ \cup Heard(full, "error", window) ELSE @]
  /\ Goto(t, "loop")
  /\ UNCHANGED <<now, processVars, startLock, runs, stored>>

-----------------------------------------------------------------------------
(* Ending a run *)

\* The finally block: notes go to the summary; the failures list goes to the
\* error, unless a fatal exception replaces it.  Both go through _scrub.
Finish(t) ==
  /\ pc[t] = "finish"
  /\ LET j == job[t]
         tier == Summarize(j.active, j.sick, j.failed, j.partial)
         status == IF j.fatal THEN "failed" ELSE tier
         error == IF j.fatal \/ tier = "success" THEN {} ELSE j.told
     IN runs' = [runs EXCEPT ![j.run] =
                   [status |-> status, how |-> IF j.fatal THEN "fatal" ELSE "complete",
                    said |-> j.noted \cup error,
                    full |-> IF j.fatal THEN j.full \ {"error"} ELSE j.full]]
  /\ job' = [job EXCEPT ![t] = NoJob]
  /\ Goto(t, "idle")
  /\ UNCHANGED <<now, processVars, startLock, cursor, stored, gone>>

\* The terminal write itself may fail (database locked past busy_timeout).
FinishRaises(t) ==
  /\ "final" \in Faults
  /\ pc[t] = "finish"
  /\ job' = [job EXCEPT ![t] = NoJob]
  /\ Goto(t, "idle")
  /\ UNCHANGED <<now, processVars, startLock, runs, cursor, stored, gone>>

\* The process dies: threads, locks and queued background tasks are lost.
Crash ==
  /\ up /\ crashes < MaxCrashes
  /\ up' = FALSE
  /\ crashes' = crashes + 1
  /\ startLock' = None
  /\ pc' = [t \in Threads |-> "idle"]
  /\ job' = [t \in Threads |-> NoJob]
  /\ UNCHANGED <<now, runs, cursor, stored, declared, gone>>

\* Mutants of Restart: nothing is reaped; runs are reaped while threads collect.
RestartUnreaped ==
  /\ ~up
  /\ up' = TRUE
  /\ UNCHANGED <<now, crashes, runs, cursor, stored, declared, threadVars, gone>>

\* lifespan: reap_orphaned_runs before anything can start a run.
Restart ==
  /\ ~up
  /\ up' = TRUE
  /\ runs' = [i \in DOMAIN runs |->
                IF Running(runs[i]) THEN [runs[i] EXCEPT !.status = "failed", !.how = "reaped"]
                ELSE runs[i]]
  /\ UNCHANGED <<now, crashes, cursor, stored, declared, threadVars, gone>>

-----------------------------------------------------------------------------
(* The operator's endpoints, which take no part in _start_lock *)

\* POST /collectors/{source}/reset with days_back.
ResetTo(s, days) ==
  /\ "reset" \in Ops /\ up /\ s \in declared /\ days <= now
  /\ cursor' = [cursor EXCEPT ![s] = [present |-> TRUE, mark |-> now - days, fails |-> 0]]
  /\ UNCHANGED <<now, processVars, threadVars, runs, stored, gone>>

\* The same endpoint without days_back deletes the row.
ResetAll(s) ==
  /\ "reset_all" \in Ops /\ up /\ s \in declared /\ cursor[s].present
  /\ cursor' = [cursor EXCEPT ![s] = NoRow]
  /\ UNCHANGED <<now, processVars, threadVars, runs, stored, gone>>

\* Mutant of ClearFailures: the streak column is written as NULL.
ClearToNull(s) ==
  /\ "clear" \in Ops /\ up /\ s \in declared /\ cursor[s].present
  /\ cursor' = [cursor EXCEPT ![s].fails = NoMark]
  /\ UNCHANGED <<now, processVars, threadVars, runs, stored, gone>>

\* POST /collectors/{source}/clear-failures.
ClearFailures(s) ==
  /\ "clear" \in Ops /\ up /\ s \in declared /\ cursor[s].present
  /\ cursor' = [cursor EXCEPT ![s].fails = 0]
  /\ UNCHANGED <<now, processVars, threadVars, runs, stored, gone>>

\* DELETE /connections/{id}: the source is undeclared and its cursor deleted.
DeleteConnection(s) ==
  /\ "delete" \in Ops /\ up /\ s \in declared
  /\ declared' = declared \ {s}
  /\ cursor' = [cursor EXCEPT ![s] = NoRow]
  /\ UNCHANGED <<now, up, crashes, threadVars, runs, stored, gone>>

-----------------------------------------------------------------------------
Start(t) == Trigger(t) \/ Scheduled(t)

\* What a thread inside execute_run does next; the dispatch is bounded by the
\* collectors' HTTP timeouts, so a thread never stays at one point forever.
Step(t) ==
  \/ StartRefused(t) \/ StartAllowed(t) \/ InsertRun(t)
  \/ HealthCheck(t) \/ HealthRaises(t) \/ NextSource(t) \/ OpenWindow(t) \/ LoopDone(t)
  \/ DispatchRaises(t) \/ DispatchReturns(t) \/ StoreItems(t) \/ StoreRaises(t)
  \/ ReadRow(t) \/ RowConflict(t) \/ RecordAttempt(t) \/ RecordFailure(t)
  \/ StreakHolds(t) \/ StreakExhausted(t) \/ StreakUnreadable(t) \/ Advance(t)
  \/ Finish(t) \/ FinishRaises(t)

Operator(s) ==
  \/ \E days \in DaysBack : ResetTo(s, days)
  \/ ResetAll(s) \/ ClearFailures(s) \/ DeleteConnection(s)

\* The bounds are used up and nothing is in flight.
BoundsReached ==
  /\ up /\ now = MaxTime /\ Len(runs) = MaxRuns
  /\ \A t \in Threads : pc[t] = "idle"
  /\ UNCHANGED vars

Next ==
  \/ Tick \/ Crash \/ Restart
  \/ \E t \in Threads : Start(t) \/ Step(t)
  \/ \E s \in Sources : Operator(s)
  \/ BoundsReached

Spec == Init /\ [][Next]_vars

\* The scheduler runs every thread; compose restarts a dead container
\* (docker-compose.yml `restart: unless-stopped`).
Fairness == WF_vars(Restart) /\ \A t \in Threads : WF_vars(Step(t))

FairSpec == Spec /\ Fairness

-----------------------------------------------------------------------------
(* Type invariant *)

TypeOK ==
  /\ now \in Nat
  /\ up \in BOOLEAN
  /\ crashes \in Nat
  /\ runs \in Seq(Run)
  /\ cursor \in [Sources -> Row]
  /\ stored \subseteq Item
  /\ declared \subseteq Sources
  /\ startLock \in Threads \cup {None}
  /\ pc \in [Threads -> PC]
  /\ job \in [Threads -> Job]
  /\ gone \subseteq Item

-----------------------------------------------------------------------------
(* Safety *)

\* At most one run is in flight: has_running_run and the INSERT are one step
\* under _start_lock, for any mix of cron ticks and UI triggers (runner.py:50).
AtMostOneRun ==
  \A i, j \in DOMAIN runs : Running(runs[i]) /\ Running(runs[j]) => i = j

\* A thread that is past the start guard owns a run that is still running, so
\* neither the reaper nor another thread ends a run under its collector.
CollectorOwnsRun ==
  \A t \in Threads : pc[t] \in Collecting =>
    /\ job[t].run \in DOMAIN runs
    /\ Running(runs[job[t].run])
OneOwnedRun == AtMostOneRun /\ CollectorOwnsRun

\* An item is stored once although windows overlap on purpose and _persist's
\* check-then-insert is not atomic (runner.py:146).
NoDuplicateItems ==
  \A x, y \in stored : x.src = y.src /\ x.at = y.at => x = y

\* A run that tried every healthy source hides no hole: whatever its watermarks
\* moved past without an item is in the summary or the error it wrote, unless the
\* earlier sentences of that run filled one of the two to MAX_PERSISTED_CHARS (the
\* docstring of backfill_shortfall, runner.py:350; _scrub, runner.py:45).
NoSilentHole ==
  \A g \in gone : runs[g.run].how = "complete" =>
    [src |-> g.src, at |-> g.at] \in runs[g.run].said \/ runs[g.run].full # {}

\* A source is not pinned at an old watermark: its streak passes the limit only
\* by as many runs as were cut short before they could answer it (MAX_STUCK_RUNS).
NoPinnedWatermark ==
  \A s \in Sources :
    cursor[s].fails < MAX_STUCK_RUNS + Cardinality({i \in DOMAIN runs : runs[i].how # "complete"})

\* The run table keeps the ledger's promise.
Ledger == INSTANCE RunLedger WITH
  open <- {i \in DOMAIN runs : Running(runs[i])},
  closed <- {i \in DOMAIN runs : ~Running(runs[i])}
KeepsLedger == Ledger!Spec

\* Every run that starts ends, also across a crash (the finally block and the
\* startup reaper).
RunsEnd ==
  \A i \in 1 .. MaxRuns :
    (i \in DOMAIN runs /\ Running(runs[i])) ~> (i \in DOMAIN runs /\ ~Running(runs[i]))

=============================================================================

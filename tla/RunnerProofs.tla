---------------------------- MODULE RunnerProofs ----------------------------
(* Theorems about Runner, for every set of sources and threads and every    *)
(* window, streak limit and bound the assumptions of Runner allow.          *)
EXTENDS Runner, SequenceTheorems, FiniteSetTheorems, TLAPS

-----------------------------------------------------------------------------
(* The shapes in which an action edits a job, a cursor row or a run record. *)

LEMMA NoJobTyped == NoJob \in Job
BY NoneAssumption DEF NoJob, Job, Mark, NoMark, NoRow, Row, RowOp

LEMMA JobStarts ==
  ASSUME NEW j \in Job, NEW i \in Nat, NEW A \in SUBSET Sources, NEW until \in Nat
  PROVE  [j EXCEPT !.run = i, !.active = A, !.until = until] \in Job
BY DEF Job

LEMMA JobChecks ==
  ASSUME NEW j \in Job, NEW A \in SUBSET Sources, NEW B \in SUBSET Sources
  PROVE  [j EXCEPT !.sick = A, !.todo = B] \in Job
BY DEF Job

LEMMA JobDies ==
  ASSUME NEW j \in Job, NEW b \in BOOLEAN
  PROVE  [j EXCEPT !.fatal = b] \in Job
BY DEF Job

LEMMA JobDiesUnchecked ==
  ASSUME NEW j \in Job, NEW b \in BOOLEAN, NEW A \in SUBSET Sources
  PROVE  [j EXCEPT !.fatal = b, !.todo = A] \in Job
BY DEF Job

LEMMA JobPicks ==
  ASSUME NEW j \in Job, NEW A \in SUBSET Sources, NEW s \in Sources, NEW L \in SUBSET Loss,
         NEW F \in SUBSET Text
  PROVE  [j EXCEPT !.todo = A, !.src = s, !.full = F, !.noted = L] \in Job
BY DEF Job

LEMMA JobOpens ==
  ASSUME NEW j \in Job, NEW m \in Mark, NEW start \in Int
  PROVE  [j EXCEPT !.base = m, !.start = start] \in Job
BY DEF Job

LEMMA JobRaised ==
  ASSUME NEW j \in Job, NEW res \in {"ok", "partial", "error", "raised"},
         NEW fresh \in SUBSET Nat, NEW op \in RowOp, NEW A \in SUBSET Sources
  PROVE  [j EXCEPT !.res = res, !.fresh = fresh, !.op = op, !.failed = A] \in Job
BY DEF Job

LEMMA JobReturned ==
  ASSUME NEW j \in Job, NEW res \in {"ok", "partial", "error", "raised"},
         NEW fresh \in SUBSET Nat, NEW op \in RowOp
  PROVE  [j EXCEPT !.res = res, !.fresh = fresh, !.op = op] \in Job
BY DEF Job

LEMMA JobReads ==
  ASSUME NEW j \in Job, NEW row \in Row
  PROVE  [j EXCEPT !.snap = row] \in Job
BY DEF Job

LEMMA JobAttempts ==
  ASSUME NEW j \in Job, NEW op \in RowOp, NEW A \in SUBSET Sources, NEW B \in SUBSET Sources,
         NEW F \in SUBSET Text
  PROVE  [j EXCEPT !.op = op, !.full = F, !.failed = A, !.partial = B] \in Job
BY DEF Job

LEMMA JobGivesUp ==
  ASSUME NEW j \in Job, NEW op \in RowOp
  PROVE  [j EXCEPT !.op = op] \in Job
BY DEF Job

LEMMA JobTells ==
  ASSUME NEW j \in Job, NEW L \in SUBSET Loss, NEW F \in SUBSET Text
  PROVE  [j EXCEPT !.full = F, !.told = L] \in Job
BY DEF Job

LEMMA RowAppears ==
  ASSUME NEW r \in Row, NEW b \in BOOLEAN
  PROVE  [r EXCEPT !.present = b] \in Row
BY DEF Row

LEMMA RowCounts ==
  ASSUME NEW r \in Row, NEW n \in Nat
  PROVE  [r EXCEPT !.fails = n] \in Row
BY DEF Row

LEMMA RowFails ==
  ASSUME NEW r \in Row, NEW n \in Nat, NEW b \in BOOLEAN
  PROVE  [r EXCEPT !.present = b, !.fails = n] \in Row
BY DEF Row

LEMMA RowTyped ==
  /\ NoRow \in Row
  /\ \A m \in Mark : [present |-> TRUE, mark |-> m, fails |-> 0] \in Row
BY DEF Row, NoRow, Mark, NoMark

LEMMA RunReaped ==
  ASSUME NEW r \in Run
  PROVE  [r EXCEPT !.status = "failed", !.how = "reaped"] \in Run
BY DEF Run, Outcome, How

LEMMA RunEnded ==
  ASSUME NEW status \in Outcome, NEW how \in How, NEW said \in SUBSET Loss,
         NEW full \in SUBSET Text
  PROVE  [status |-> status, how |-> how, said |-> said, full |-> full] \in Run
BY DEF Run

\* An appended sentence keeps what is cut, and is heard unless its text is cut.
LEMMA SentenceAppended ==
  ASSUME NEW full \in SUBSET Text, NEW text \in Text, NEW b \in BOOLEAN,
         NEW new \in Filled(full, text, b), NEW losses
  PROVE  /\ new \in SUBSET Text /\ full \subseteq new
         /\ Heard(new, text, losses) \subseteq losses
         /\ \A x \in losses : x \in Heard(new, text, losses) \/ new # {}
BY DEF Filled, Heard

\* A run table stays one when a record of it is replaced, or all of them are.
LEMMA RunsReplaced ==
  ASSUME NEW rs \in Seq(Run), NEW f, DOMAIN f = DOMAIN rs, f = [i \in DOMAIN rs |-> f[i]],
         \A i \in DOMAIN rs : f[i] \in Run
  PROVE  f \in Seq(Run)
<1>1. PICK n \in Nat : rs \in [1 .. n -> Run]
  BY SeqDef
<1>2. f \in [1 .. n -> Run]
  BY <1>1
<1> QED BY <1>2, SeqDef

LEMMA TierTyped ==
  ASSUME NEW a, NEW b, NEW c, NEW d
  PROVE  Summarize(a, b, c, d) \in Outcome
BY DEF Summarize, Outcome

\* What the window arithmetic returns.
LEMMA WindowTyped ==
  ASSUME NEW mark \in Mark, NEW until \in Nat, NEW s \in Sources
  PROVE  /\ CollectionWindow(mark, until) \in Int
         /\ Shortfall(s, mark, until) \subseteq Loss
<1>1. CollectionWindow(mark, until) \in Int
  BY WindowAssumption DEF CollectionWindow, Mark, NoMark, Larger, Smaller
<1>2. \A i \in Larger(0, mark - OVERLAP) .. (CollectionWindow(mark, until) - 1) : i \in Nat
  BY <1>1, WindowAssumption DEF Mark, NoMark, Larger
<1>3. Shortfall(s, mark, until) \subseteq Loss
  BY <1>2 DEF Shortfall, Loss
<1> QED BY <1>1, <1>3

-----------------------------------------------------------------------------
(* Types.  TypeOK alone is not inductive: what a thread writes about its    *)
(* source is typed only because the loop has picked one.                    *)

InHand == {"window", "dispatch", "store", "read", "commit", "streak"}
HoldsSource == \A t \in Threads : pc[t] \in InHand => job[t].src \in Sources
Typed == TypeOK /\ HoldsSource

USE DEF Goto

LEMMA TypedInit == Init => Typed
<1> SUFFICES ASSUME Init PROVE Typed
  OBVIOUS
<1>1. runs \in Seq(Run) /\ stored \subseteq Item /\ gone \subseteq Item
  BY DEF Init
<1>2. cursor \in [Sources -> Row]
  BY RowTyped DEF Init, Mark
<1>3. pc \in [Threads -> PC] /\ job \in [Threads -> Job]
  BY NoJobTyped DEF Init, PC
<1>4. HoldsSource
  BY DEF Init, HoldsSource, InHand
<1> QED BY <1>1, <1>2, <1>3, <1>4 DEF Init, Typed, TypeOK

LEMMA StepTyped ==
  ASSUME Typed, NEW t \in Threads, Step(t)
  PROVE  Typed'
<1> USE DEF Typed, TypeOK, HoldsSource, InHand, processVars, threadVars, PC, Collecting
<1> DEFINE j == job[t]
<1>0. j \in Job /\ runs \in Seq(Run)
  OBVIOUS
<1>a. /\ j.run \in Nat /\ j.active \subseteq Sources /\ j.until \in Nat /\ j.start \in Int
      /\ j.sick \subseteq Sources /\ j.todo \subseteq Sources /\ j.base \in Mark
      /\ j.fresh \subseteq Nat /\ j.snap \in Row /\ j.snap.fails \in Nat
      /\ j.failed \subseteq Sources /\ j.partial \subseteq Sources
      /\ j.noted \subseteq Loss /\ j.told \subseteq Loss /\ j.full \in SUBSET Text
  BY <1>0 DEF Job, Row
<1>b. \A s \in Sources : cursor[s] \in Row /\ cursor[s].mark \in Mark /\ cursor[s].fails \in Nat
  BY DEF Row
<1>1. CASE StartRefused(t)
  BY <1>1 DEF StartRefused
<1>2. CASE StartAllowed(t)
  BY <1>2 DEF StartAllowed
<1>3. CASE InsertRun(t)
  <2>1. PICK A \in SUBSET declared :
          job' = [job EXCEPT ![t] = [NoJob EXCEPT !.run = Len(runs) + 1, !.active = A,
                                                  !.until = now]]
    BY <1>3 DEF InsertRun
  <2>2. [NoJob EXCEPT !.run = Len(runs) + 1, !.active = A, !.until = now] \in Job
    <3>1. Len(runs) + 1 \in Nat /\ A \in SUBSET Sources /\ now \in Nat
      OBVIOUS
    <3> HIDE DEF Typed
    <3> QED BY <3>1, JobStarts, NoJobTyped
  <2>3. job' \in [Threads -> Job]
    BY <2>1, <2>2
  <2>4. [status |-> "running", how |-> "open", said |-> {}, full |-> {}] \in Run
    BY DEF Run, How
  <2>5. runs' \in Seq(Run)
    BY <1>3, <2>4 DEF InsertRun
  <2> QED BY <1>3, <2>1, <2>3, <2>5 DEF InsertRun
<1>4. CASE HealthCheck(t)
  <2>1. PICK sick \in SUBSET j.active : job' = [job EXCEPT ![t].sick = sick,
                                                          ![t].todo = j.active \ sick]
    BY <1>4 DEF HealthCheck
  <2>2. [j EXCEPT !.sick = sick, !.todo = j.active \ sick] \in Job
    BY <1>0, <1>a, JobChecks
  <2>3. job' \in [Threads -> Job]
    BY <2>1, <2>2
  <2> QED BY <1>4, <2>1, <2>3 DEF HealthCheck
<1>5. CASE HealthRaises(t)
  <2>1. [j EXCEPT !.fatal = TRUE, !.todo = j.active] \in Job
    BY <1>0, <1>a, JobDiesUnchecked
  <2>2. job' \in [Threads -> Job] /\ job' = [job EXCEPT ![t] = [j EXCEPT !.fatal = TRUE, !.todo = j.active]]
    BY <1>5, <2>1 DEF HealthRaises
  <2> QED BY <1>5, <2>2 DEF HealthRaises
<1>6. CASE NextSource(t)
  <2> DEFINE lost(s) == Shortfall(s, cursor[s].mark, j.until)
  <2>p. PICK s \in j.todo : \E full \in Filled(j.full, "summary", lost(s) # {}) :
          job' = [job EXCEPT ![t].todo = @ \ {s}, ![t].src = s, ![t].full = full,
                             ![t].noted = @ \cup Heard(full, "summary", lost(s))]
    BY <1>6 DEF NextSource
  <2>1. PICK full \in Filled(j.full, "summary", lost(s) # {}) :
          job' = [job EXCEPT ![t].todo = @ \ {s}, ![t].src = s, ![t].full = full,
                             ![t].noted = @ \cup Heard(full, "summary", lost(s))]
    BY <2>p
  <2>2. s \in Sources /\ lost(s) \subseteq Loss
    BY <1>a, <1>b, WindowTyped
  <2> HIDE DEF lost
  <2>a. full \in SUBSET Text /\ Heard(full, "summary", lost(s)) \subseteq lost(s)
    BY <1>a DEF Filled, Heard, Text
  <2>b. j.todo \ {s} \in SUBSET Sources /\ j.noted \cup Heard(full, "summary", lost(s)) \in SUBSET Loss
    BY <1>a, <2>2, <2>a
  <2>3. [j EXCEPT !.todo = @ \ {s}, !.src = s, !.full = full,
                  !.noted = @ \cup Heard(full, "summary", lost(s))] \in Job
    BY <1>0, <2>2, <2>a, <2>b, JobPicks
  <2>4. /\ job' \in [Threads -> Job] /\ job'[t].src = s
        /\ \A u \in Threads \ {t} : job'[u] = job[u]
    BY <2>1, <2>3, <1>0 DEF Job
  <2> QED BY <1>6, <2>2, <2>4 DEF NextSource
<1>22. CASE OpenWindow(t)
  <2> DEFINE s == j.src
             mark == cursor[s].mark
             start == CollectionWindow(mark, j.until)
  <2>1. job' = [job EXCEPT ![t].base = mark, ![t].start = start]
    BY <1>22 DEF OpenWindow
  <2>2. s \in Sources /\ mark \in Mark /\ start \in Int
    BY <1>a, <1>b, <1>22, WindowTyped DEF OpenWindow
  <2> HIDE DEF mark, start
  <2>4. [j EXCEPT !.base = mark, !.start = start] \in Job
    BY <1>0, <2>2, JobOpens
  <2>5. /\ job' \in [Threads -> Job] /\ job'[t].src = s
        /\ \A u \in Threads \ {t} : job'[u] = job[u]
    BY <2>1, <2>4, <1>0 DEF Job
  <2> QED BY <1>22, <2>2, <2>5 DEF OpenWindow
<1>7. CASE LoopDone(t)
  BY <1>7 DEF LoopDone
<1>8. CASE DispatchRaises(t)
  <2>1. [j EXCEPT !.res = "raised", !.fresh = {}, !.op = "attempt", !.failed = @ \cup {j.src}] \in Job
    <3>1. {} \in SUBSET Nat /\ "attempt" \in RowOp /\ j.failed \cup {j.src} \in SUBSET Sources
      BY <1>a, <1>8 DEF RowOp, DispatchRaises
    <3>2. "raised" \in {"ok", "partial", "error", "raised"}
      OBVIOUS
    <3> QED BY ONLY <1>0, <3>1, <3>2, JobRaised
  <2>2. job' \in [Threads -> Job] /\ job' = [job EXCEPT ![t] = [j EXCEPT !.res = "raised", !.fresh = {}, !.op = "attempt", !.failed = @ \cup {j.src}]]
    BY <1>8, <2>1 DEF DispatchRaises
  <2> QED BY <1>8, <2>2 DEF DispatchRaises
<1>9. CASE DispatchReturns(t)
  <2>1. PICK res \in {"ok", "partial", "error"}, fresh \in SUBSET Window(t) :
          /\ job' = [job EXCEPT ![t].res = res, ![t].fresh = fresh, ![t].op = "attempt"]
          /\ pc' = [pc EXCEPT ![t] = IF fresh = {} THEN "read" ELSE "store"]
    BY <1>9 DEF DispatchReturns
  <2>2. Window(t) \subseteq Nat
    BY <1>a DEF Window, Larger
  <2>3. [j EXCEPT !.res = res, !.fresh = fresh, !.op = "attempt"] \in Job
    BY <1>0, <2>2, JobReturned DEF RowOp
  <2>4. job' \in [Threads -> Job] /\ \A u \in Threads : job'[u].src = job[u].src
    BY <2>1, <2>3, <1>0 DEF Job
  <2> QED BY <1>9, <2>1, <2>4 DEF DispatchReturns
<1>10. CASE StoreItems(t)
  <2>1. {[src |-> j.src, at |-> i, run |-> j.run] : i \in j.fresh} \subseteq Item
    BY <1>10, <1>a DEF StoreItems, Item
  <2> QED BY <1>10, <2>1 DEF StoreItems
<1>11. CASE StoreRaises(t)
  <2>1. [j EXCEPT !.fatal = TRUE] \in Job
    BY <1>0, JobDies
  <2>2. job' \in [Threads -> Job] /\ job' = [job EXCEPT ![t] = [j EXCEPT !.fatal = TRUE]]
    BY <1>11, <2>1 DEF StoreRaises, Die
  <2> QED BY <1>11, <2>2 DEF StoreRaises, Die
<1>12. CASE ReadRow(t)
  <2>1. [j EXCEPT !.snap = cursor[j.src]] \in Job
    BY <1>0, <1>b, <1>12, JobReads DEF ReadRow
  <2>2. job' \in [Threads -> Job] /\ \A u \in Threads : job'[u].src = job[u].src
    BY <1>12, <2>1, <1>0 DEF ReadRow, Job
  <2> QED BY <1>12, <2>2 DEF ReadRow
<1>13. CASE RowConflict(t)
  <2>1. [j EXCEPT !.fatal = TRUE] \in Job
    BY <1>0, JobDies
  <2>2. job' \in [Threads -> Job] /\ job' = [job EXCEPT ![t] = [j EXCEPT !.fatal = TRUE]]
    BY <1>13, <2>1 DEF RowConflict, Die
  <2> QED BY <1>13, <2>2 DEF RowConflict, Die
<1>14. CASE RecordAttempt(t)
  <2> DEFINE clean == j.res = "ok"
             op == IF clean THEN "advance" ELSE "failure"
             failed == IF clean THEN j.failed ELSE j.failed \cup {j.src}
             partial == IF j.res = "partial" THEN j.partial \cup {j.src} ELSE j.partial
  <2>1. j.src \in Sources
    BY <1>14 DEF RecordAttempt, RowWritable
  <2>2. op \in RowOp /\ failed \in SUBSET Sources /\ partial \in SUBSET Sources
    BY <2>1, <1>a DEF RowOp
  <2>3. PICK full \in Filled(j.full, "error", ~clean) :
          /\ job' = [job EXCEPT ![t].op = op, ![t].full = full, ![t].failed = failed,
                                ![t].partial = partial]
          /\ cursor' = [cursor EXCEPT ![j.src].present = TRUE]
    BY <1>14 DEF RecordAttempt
  <2>a. full \in SUBSET Text
    BY <1>a, SentenceAppended DEF Text
  <2>4. [cursor[j.src] EXCEPT !.present = TRUE] \in Row
    BY <2>1, <1>b, RowAppears
  <2>5. cursor' \in [Sources -> Row]
    BY <2>3, <2>4
  <2> HIDE DEF op, failed, partial
  <2>6. [j EXCEPT !.op = op, !.full = full, !.failed = failed, !.partial = partial] \in Job
    BY <1>0, <2>2, <2>a, JobAttempts
  <2>7. job' \in [Threads -> Job] /\ \A u \in Threads : job'[u].src = job[u].src
    BY <2>3, <2>6, <1>0 DEF Job
  <2> QED BY <1>14, <2>5, <2>7 DEF RecordAttempt
<1>15. CASE RecordFailure(t)
  <2>1. [cursor[j.src] EXCEPT !.present = TRUE, !.fails = j.snap.fails + 1] \in Row
    <3>1. cursor[j.src] \in Row /\ j.snap.fails + 1 \in Nat
      BY <1>15, <1>a, <1>b DEF RecordFailure, RowWritable
    <3> QED BY ONLY <3>1, RowFails
  <2>2. cursor' \in [Sources -> Row]
    BY <1>15, <2>1 DEF RecordFailure
  <2> QED BY <1>15, <2>2 DEF RecordFailure, RowWritable
<1>16. CASE StreakHolds(t)
  BY <1>16 DEF StreakHolds
<1>17. CASE StreakExhausted(t)
  <2>1. [j EXCEPT !.op = "advance"] \in Job
    BY <1>0, JobGivesUp DEF RowOp
  <2>2. job' \in [Threads -> Job] /\ \A u \in Threads : job'[u].src = job[u].src
    BY <1>17, <2>1, <1>0 DEF StreakExhausted, Job
  <2> QED BY <1>17, <2>2 DEF StreakExhausted
<1>18. CASE StreakUnreadable(t)
  <2>1. [j EXCEPT !.fatal = TRUE] \in Job
    BY <1>0, JobDies
  <2>2. job' \in [Threads -> Job] /\ job' = [job EXCEPT ![t] = [j EXCEPT !.fatal = TRUE]]
    BY <1>18, <2>1 DEF StreakUnreadable, Die
  <2> QED BY <1>18, <2>2 DEF StreakUnreadable, Die
<1>19. CASE Advance(t)
  <2> DEFINE s == j.src
             window == {[src |-> s, at |-> i] : i \in Window(t)}
             told(full) == IF j.res # "ok" THEN j.told \cup Heard(full, "error", window) ELSE j.told
  <2>1. s \in Sources
    BY <1>19 DEF Advance, RowWritable
  <2>2. Claimed(t) \subseteq Nat /\ Window(t) \subseteq Nat
    BY <1>a DEF Claimed, Window, Larger, Mark, NoMark
  <2>3. window \in SUBSET Loss
    BY <2>1, <2>2, <1>a DEF Loss
  <2>4. PICK full \in Filled(j.full, "error", j.res # "ok") :
          /\ job' = [job EXCEPT ![t].full = full, ![t].told = told(full)]
          /\ cursor' = [cursor EXCEPT ![s] = [present |-> TRUE, mark |-> j.until, fails |-> 0]]
    BY <1>19 DEF Advance
  <2>5. cursor' \in [Sources -> Row]
    BY <2>4, <1>a, RowTyped DEF Mark
  <2>6. gone' \subseteq Item
    BY <1>19, <2>1, <2>2, <1>a DEF Advance, Item
  <2> HIDE DEF window
  <2>a. full \in SUBSET Text /\ Heard(full, "error", window) \subseteq window
    BY <1>a, SentenceAppended DEF Text
  <2>b. told(full) \in SUBSET Loss
    BY <1>a, <2>3, <2>a
  <2> HIDE DEF told
  <2>7. [j EXCEPT !.full = full, !.told = told(full)] \in Job
    BY <1>0, <2>a, <2>b, JobTells
  <2>8. job' \in [Threads -> Job]
    BY <2>4, <2>7
  <2> QED BY <1>19, <2>4, <2>5, <2>6, <2>8 DEF Advance, RowWritable
<1>20. CASE Finish(t)
  <2> DEFINE tier == Summarize(j.active, j.sick, j.failed, j.partial)
             status == IF j.fatal THEN "failed" ELSE tier
             how == IF j.fatal THEN "fatal" ELSE "complete"
             error == IF j.fatal \/ tier = "success" THEN {} ELSE j.told
             full == IF j.fatal THEN j.full \ {"error"} ELSE j.full
             end == [status |-> status, how |-> how, said |-> j.noted \cup error, full |-> full]
  <2>1. /\ status \in Outcome /\ how \in How /\ j.noted \cup error \in SUBSET Loss
        /\ full \in SUBSET Text
    BY <1>a, TierTyped DEF Outcome, How
  <2>2. runs' = [runs EXCEPT ![j.run] = end]
    BY <1>20 DEF Finish
  <2> HIDE DEF status, how, error, full
  <2>3. end \in Run
    BY <2>1, RunEnded
  <2> HIDE DEF end
  <2>4. runs' \in Seq(Run)
    <3>1. \A i \in DOMAIN runs : runs[i] \in Run
      BY <1>0
    <3>2. /\ runs' = [i \in DOMAIN runs |-> runs'[i]]
          /\ \A i \in DOMAIN runs : runs'[i] \in Run
      BY <2>2, <2>3, <3>1
    <3> QED BY ONLY <1>0, <3>2, RunsReplaced
  <2>5. job' \in [Threads -> Job]
    BY <1>20, NoJobTyped DEF Finish
  <2> QED BY <1>20, <2>4, <2>5 DEF Finish
<1>21. CASE FinishRaises(t)
  <2>1. job' \in [Threads -> Job]
    BY <1>21, NoJobTyped DEF FinishRaises
  <2> QED BY <1>21, <2>1 DEF FinishRaises
<1> QED
  BY <1>1, <1>2, <1>3, <1>4, <1>5, <1>6, <1>7, <1>8, <1>9, <1>10,
     <1>11, <1>12, <1>13, <1>14, <1>15, <1>16, <1>17, <1>18, <1>19, <1>20, <1>21, <1>22 DEF Step

LEMMA OperatorTyped ==
  ASSUME Typed, NEW s \in Sources, Operator(s)
  PROVE  Typed'
<1> USE DEF Typed, TypeOK, HoldsSource, InHand, processVars, threadVars
<1>0. cursor[s] \in Row /\ now \in Nat
  OBVIOUS
<1>1. ASSUME NEW days \in DaysBack, ResetTo(s, days) PROVE Typed'
  <2>1. now - days \in Mark
    BY <1>0, <1>1, OperatorAssumption DEF ResetTo, Mark
  <2>2. cursor' \in [Sources -> Row]
    BY <1>1, <2>1, RowTyped DEF ResetTo
  <2> QED BY <1>1, <2>2 DEF ResetTo
<1>2. CASE ResetAll(s)
  BY <1>2, RowTyped DEF ResetAll, Mark
<1>3. CASE ClearFailures(s)
  <2>1. [cursor[s] EXCEPT !.fails = 0] \in Row
    BY <1>0, RowCounts
  <2>2. cursor' \in [Sources -> Row]
    BY <1>3, <2>1 DEF ClearFailures
  <2> QED BY <1>3, <2>2 DEF ClearFailures
<1>4. CASE DeleteConnection(s)
  BY <1>4, RowTyped DEF DeleteConnection, Mark
<1> QED
  BY <1>1, <1>2, <1>3, <1>4 DEF Operator

LEMMA NextTyped == Typed /\ [Next]_vars => Typed'
<1> SUFFICES ASSUME Typed, [Next]_vars PROVE Typed'
  OBVIOUS
<1> USE DEF Typed, TypeOK, HoldsSource, InHand, processVars, threadVars, PC
<1>1. CASE Tick
  BY <1>1 DEF Tick
<1>2. CASE Crash
  <2>1. job' \in [Threads -> Job]
    BY <1>2, NoJobTyped DEF Crash
  <2>2. pc' \in [Threads -> PC] /\ \A t \in Threads : pc'[t] = "idle"
    BY <1>2 DEF Crash
  <2>3. up' \in BOOLEAN
    BY <1>2, Zenon DEF Crash
  <2>a. crashes' \in Nat /\ startLock' \in Threads \cup {None}
    BY <1>2 DEF Crash
  <2>4. \A t \in Threads : ~(pc'[t] \in InHand)
    BY <2>2
  <2>5. HoldsSource'
    BY <2>4
  <2>6. TypeOK'
    BY <1>2, <2>1, <2>2, <2>3, <2>a DEF Crash
  <2> QED BY <2>5, <2>6
<1>3. CASE Restart
  <2>1. runs \in Seq(Run) /\ \A i \in DOMAIN runs : runs[i] \in Run
    OBVIOUS
  <2>2. runs' = [i \in DOMAIN runs |-> runs'[i]]
    BY <1>3 DEF Restart
  <2>3. ASSUME NEW i \in DOMAIN runs PROVE runs'[i] \in Run
    <3>1. [runs[i] EXCEPT !.status = "failed", !.how = "reaped"] \in Run
      BY ONLY <2>1, RunReaped
    <3> QED BY <1>3, <2>1, <3>1 DEF Restart
  <2>4. runs' \in Seq(Run)
    BY ONLY <2>1, <2>2, <2>3, RunsReplaced
  <2> QED BY <1>3, <2>4 DEF Restart
<1>4. ASSUME NEW t \in Threads, Start(t) PROVE Typed'
  BY <1>4 DEF Start, Trigger, Scheduled
<1>5. ASSUME NEW t \in Threads, Step(t) PROVE Typed'
  BY <1>5, StepTyped
<1>6. ASSUME NEW s \in Sources, Operator(s) PROVE Typed'
  BY <1>6, OperatorTyped
<1>7. CASE BoundsReached \/ UNCHANGED vars
  BY <1>7 DEF BoundsReached, vars
<1> QED
  BY <1>1, <1>2, <1>3, <1>4, <1>5, <1>6, <1>7 DEF Next

\* Every variable keeps its type, and a thread in the middle of a source has one.
THEOREM TypeCorrect == Spec => []TypeOK
<1>1. Spec => []Typed
  BY TypedInit, NextTyped, PTL DEF Spec
<1> QED BY <1>1, PTL DEF Typed

-----------------------------------------------------------------------------
(* The start guard.  AtMostOneRun is not inductive: an INSERT keeps it only *)
(* because the thread that is about to insert still holds _start_lock, and  *)
(* because the run a thread is collecting into cannot have been taken over. *)

LockHeld == \A t \in Threads : pc[t] = "insert" => startLock = t /\ ~HasRunningRun
OneOwner ==
  \A t, u \in Threads :
    pc[t] \in Collecting /\ pc[u] \in Collecting => t = u
DownIsIdle == ~up => \A t \in Threads : pc[t] = "idle"
Guarded == AtMostOneRun /\ CollectorOwnsRun /\ LockHeld /\ OneOwner /\ DownIsIdle

Inside(t) ==
  \/ HealthCheck(t) \/ HealthRaises(t) \/ NextSource(t) \/ OpenWindow(t) \/ LoopDone(t)
  \/ DispatchRaises(t) \/ DispatchReturns(t) \/ StoreItems(t) \/ StoreRaises(t)
  \/ ReadRow(t) \/ RowConflict(t) \/ RecordAttempt(t) \/ RecordFailure(t)
  \/ StreakHolds(t) \/ StreakExhausted(t) \/ StreakUnreadable(t) \/ Advance(t)

\* A step inside the collection neither touches the run table nor the lock,
\* and its thread goes on collecting into the same run.
LEMMA InsideFrame ==
  ASSUME Typed, NEW t \in Threads, Inside(t)
  PROVE  /\ UNCHANGED <<runs, startLock, up>>
         /\ pc[t] \in Collecting /\ pc'[t] \in Collecting
         /\ \A u \in Threads \ {t} : pc'[u] = pc[u]
         /\ \A u \in Threads : job'[u].run = job[u].run
<1>0. /\ pc \in [Threads -> PC] /\ job \in [Threads -> Job]
      /\ \A u \in Threads : job[u] \in Job
  BY DEF Typed, TypeOK
<1> USE <1>0 DEF Collecting, Job, processVars, threadVars
<1>1. CASE HealthCheck(t)
  BY <1>1 DEF HealthCheck
<1>2. CASE HealthRaises(t)
  BY <1>2 DEF HealthRaises
<1>3. CASE NextSource(t)
  BY <1>3 DEF NextSource
<1>17. CASE OpenWindow(t)
  BY <1>17 DEF OpenWindow
<1>4. CASE LoopDone(t)
  BY <1>4 DEF LoopDone
<1>5. CASE DispatchRaises(t)
  BY <1>5 DEF DispatchRaises
<1>6. CASE DispatchReturns(t)
  BY <1>6 DEF DispatchReturns
<1>7. CASE StoreItems(t)
  BY <1>7 DEF StoreItems
<1>8. CASE StoreRaises(t)
  BY <1>8 DEF StoreRaises, Die
<1>9. CASE ReadRow(t)
  BY <1>9 DEF ReadRow
<1>10. CASE RowConflict(t)
  BY <1>10 DEF RowConflict, Die
<1>11. CASE RecordAttempt(t)
  BY <1>11 DEF RecordAttempt, RowWritable
<1>12. CASE RecordFailure(t)
  BY <1>12 DEF RecordFailure, RowWritable
<1>13. CASE StreakHolds(t)
  BY <1>13 DEF StreakHolds
<1>14. CASE StreakExhausted(t)
  BY <1>14 DEF StreakExhausted
<1>15. CASE StreakUnreadable(t)
  BY <1>15 DEF StreakUnreadable, Die
<1>16. CASE Advance(t)
  BY <1>16 DEF Advance, RowWritable
<1> QED
  BY <1>1, <1>2, <1>3, <1>4, <1>5, <1>6, <1>7, <1>8, <1>9, <1>10, <1>11, <1>12, <1>13, <1>14, <1>15, <1>16, <1>17 DEF Inside

LEMMA GuardedInit == Init => Guarded
BY DEF Init, Guarded, AtMostOneRun, CollectorOwnsRun, LockHeld, OneOwner, DownIsIdle, Collecting

LEMMA GuardedNext == Typed /\ Guarded /\ [Next]_vars => Guarded'
<1> SUFFICES ASSUME Typed, Guarded, [Next]_vars PROVE Guarded'
  OBVIOUS
<1>0. /\ pc \in [Threads -> PC] /\ job \in [Threads -> Job] /\ runs \in Seq(Run)
      /\ \A u \in Threads : job[u].run \in Nat
      /\ Len(runs) \in Nat /\ DOMAIN runs = 1 .. Len(runs) /\ None \notin Threads
  BY NoneAssumption, LenProperties DEF Typed, TypeOK, Job
<1> USE <1>0 DEF Guarded, AtMostOneRun, CollectorOwnsRun, LockHeld, OneOwner, DownIsIdle,
                 HasRunningRun, processVars, threadVars
<1>1. CASE Tick \/ BoundsReached \/ UNCHANGED vars
  BY <1>1 DEF Tick, BoundsReached, vars
<1>2. CASE Crash
  BY <1>2 DEF Crash, Collecting
<1>3. CASE Restart
  <2>1. ~up /\ UNCHANGED <<pc, startLock, job>> /\ up'
    BY <1>3 DEF Restart
  <2>2. \A i \in DOMAIN runs : runs[i] \in Run
    BY DEF Typed, TypeOK
  <2>3. \A r \in Run : [r EXCEPT !.status = "failed", !.how = "reaped"].status = "failed"
    BY DEF Run
  <2>4. \A i \in DOMAIN runs' : ~Running(runs'[i])
    BY <1>3, <2>2, <2>3 DEF Restart, Running
  <2> QED BY <2>1, <2>4 DEF Collecting
<1>4. ASSUME NEW t \in Threads, Start(t) PROVE Guarded'
  <2>1. /\ UNCHANGED <<runs, startLock, job, up>> /\ up /\ pc[t] = "idle"
        /\ \A u \in Threads \ {t} : pc'[u] = pc[u]
    BY <1>4 DEF Start, Trigger, Scheduled
  <2>2. pc'[t] \in {"accepted", "due"}
    BY <1>4 DEF Start, Trigger, Scheduled
  <2>3. pc'[t] \notin Collecting \cup {"insert"}
    BY <2>2 DEF Collecting
  <2> QED BY <2>1, <2>3
<1>5. ASSUME NEW t \in Threads, Step(t) PROVE Guarded'
  <2>1. CASE StartRefused(t)
    BY <2>1 DEF StartRefused, Waiting, Collecting
  <2>2. CASE StartAllowed(t)
    BY <2>2 DEF StartAllowed, Waiting, Collecting
  <2>3. CASE InsertRun(t)
    <3> DEFINE new == [status |-> "running", how |-> "open", said |-> {}, full |-> {}]
               n == Len(runs) + 1
    <3>1. /\ pc[t] = "insert" /\ startLock = t /\ startLock' = None /\ up' = up
          /\ \A i \in DOMAIN runs : ~Running(runs[i])
      BY <2>3 DEF InsertRun
    <3>2. runs' = Append(runs, new) /\ new \in Run
      BY <2>3 DEF InsertRun, Run, How
    <3>3. /\ Len(runs') = n /\ DOMAIN runs' = 1 .. n /\ runs'[n] = new
          /\ \A i \in 1 .. Len(runs) : runs'[i] = runs[i]
      BY <3>2, AppendProperties, LenProperties
    <3>4. Running(runs'[n]) /\ \A i \in DOMAIN runs' : Running(runs'[i]) => i = n
      BY <3>1, <3>3 DEF Running
    <3>5. job'[t].run = n
      <4>1. PICK A : job' = [job EXCEPT ![t] = [NoJob EXCEPT !.run = n, !.active = A, !.until = now]]
        BY <2>3 DEF InsertRun
      <4> QED BY <4>1 DEF NoJob
    <3>6. pc' = [pc EXCEPT ![t] = "check"]
      BY <2>3 DEF InsertRun
    <3>7. \A u \in Threads : u # t => pc[u] \notin Collecting /\ pc[u] # "insert"
      BY <3>1 DEF Collecting
    <3>8. \A u \in Threads : pc'[u] \in Collecting \cup {"insert"} => u = t
      BY <3>6, <3>7
    <3>9. pc'[t] # "insert"
      BY <3>6
    <3> QED BY <3>1, <3>3, <3>4, <3>5, <3>8, <3>9 DEF Collecting
  <2>4. CASE Inside(t)
    <3>1. /\ UNCHANGED <<runs, startLock, up>>
          /\ pc[t] \in Collecting /\ pc'[t] \in Collecting
          /\ \A u \in Threads \ {t} : pc'[u] = pc[u]
          /\ \A u \in Threads : job'[u].run = job[u].run
      BY <2>4, InsideFrame
    <3>2. "insert" \notin Collecting /\ "idle" \notin Collecting
      BY DEF Collecting
    <3> QED BY <3>1, <3>2
  <2>5. CASE Finish(t) \/ FinishRaises(t)
    <3>1. /\ pc[t] \in Collecting /\ pc' = [pc EXCEPT ![t] = "idle"] /\ up' = up
          /\ startLock' = startLock /\ job' = [job EXCEPT ![t] = NoJob]
      BY <2>5 DEF Finish, FinishRaises, Collecting
    <3>2. /\ DOMAIN runs' = DOMAIN runs
          /\ \A i \in DOMAIN runs : Running(runs'[i]) => Running(runs[i])
      <4>1. CASE FinishRaises(t)
        BY <4>1 DEF FinishRaises
      <4>2. CASE Finish(t)
        BY <4>2, TierTyped DEF Finish, Running, Outcome
      <4> QED BY <2>5, <4>1, <4>2
    <3>3. \A u \in Threads : pc'[u] \notin Collecting
      BY <3>1 DEF Collecting
    <3> QED BY <3>1, <3>2, <3>3 DEF Collecting
  <2> QED
    BY <1>5, <2>1, <2>2, <2>3, <2>4, <2>5 DEF Step, Inside
<1>6. ASSUME NEW s \in Sources, Operator(s) PROVE Guarded'
  BY <1>6 DEF Operator, ResetTo, ResetAll, ClearFailures, DeleteConnection
<1> QED
  BY <1>1, <1>2, <1>3, <1>4, <1>5, <1>6 DEF Next

LEMMA GuardHolds == Spec => [](Typed /\ Guarded)
BY TypedInit, NextTyped, GuardedInit, GuardedNext, PTL DEF Spec

\* Two triggers, or a trigger and a cron tick, never put two runs in flight
\* (has_running_run and create_run under _start_lock).
\* The run a thread collects into is running until that thread ends it: no
\* other thread and no reaper closes it underneath.
THEOREM OneRunAtATime == Spec => []OneOwnedRun
<1>1. Guarded => OneOwnedRun
  BY DEF Guarded, OneOwnedRun
<1> QED
  BY <1>1, GuardHolds, PTL

-----------------------------------------------------------------------------
(* Deduplication.  _persist reads existing_external_ids and inserts later;   *)
(* what it is about to insert stays new because no other thread collects.    *)

StillNew ==
  \A t \in Threads : pc[t] = "store" =>
    \A i \in job[t].fresh : ~\E x \in stored : x.src = job[t].src /\ x.at = i
Deduped == NoDuplicateItems /\ StillNew

\* A step that stores nothing and brings no thread to the INSERT.
LEMMA DedupedFrame ==
  ASSUME Deduped, UNCHANGED stored,
         \A u \in Threads : pc'[u] = "store" => pc[u] = "store" /\ job'[u] = job[u]
  PROVE  Deduped'
BY DEF Deduped, NoDuplicateItems, StillNew

LEMMA DedupedInit == Init => Deduped
BY DEF Init, Deduped, NoDuplicateItems, StillNew

LEMMA DedupedNext == Typed /\ Guarded /\ Deduped /\ [Next]_vars => Deduped'
<1> SUFFICES ASSUME Typed, Guarded, Deduped, [Next]_vars PROVE Deduped'
  OBVIOUS
<1>0. /\ pc \in [Threads -> PC] /\ job \in [Threads -> Job]
      /\ \A u \in Threads : job[u] \in Job
  BY DEF Typed, TypeOK
<1> USE <1>0 DEF processVars, threadVars
<1>1. CASE Tick \/ Crash \/ Restart \/ BoundsReached \/ UNCHANGED vars
  <2>1. UNCHANGED stored /\ \A u \in Threads : pc'[u] = "store" => pc[u] = "store" /\ job'[u] = job[u]
    BY <1>1 DEF Tick, Crash, Restart, BoundsReached, vars
  <2> QED BY <2>1, DedupedFrame
<1>2. ASSUME NEW s \in Sources, Operator(s) PROVE Deduped'
  <2>1. UNCHANGED stored /\ \A u \in Threads : pc'[u] = "store" => pc[u] = "store" /\ job'[u] = job[u]
    BY <1>2 DEF Operator, ResetTo, ResetAll, ClearFailures, DeleteConnection
  <2> QED BY <2>1, DedupedFrame
<1>3. ASSUME NEW t \in Threads, Start(t) \/ StartRefused(t) \/ StartAllowed(t) \/ InsertRun(t)
                                  \/ Finish(t) \/ FinishRaises(t)
      PROVE  Deduped'
  <2>1. UNCHANGED stored /\ \A u \in Threads : pc'[u] = "store" => pc[u] = "store" /\ job'[u] = job[u]
    BY <1>3 DEF Start, Trigger, Scheduled, StartRefused, StartAllowed, InsertRun, Finish, FinishRaises
  <2> QED BY <2>1, DedupedFrame
<1>4. ASSUME NEW t \in Threads, DispatchReturns(t) PROVE Deduped'
  <2>1. /\ UNCHANGED stored /\ \A u \in Threads \ {t} : pc'[u] = pc[u] /\ job'[u] = job[u]
        /\ job'[t].src = job[t].src
        /\ job'[t].fresh \cap StoredAt(job[t].src) = {}
    <3>1. PICK res \in {"ok", "partial", "error"}, fresh \in SUBSET (Window(t) \ StoredAt(job[t].src)) :
            /\ job' = [job EXCEPT ![t].res = res, ![t].fresh = fresh, ![t].op = "attempt"]
            /\ pc' = [pc EXCEPT ![t] = IF fresh = {} THEN "read" ELSE "store"]
      BY <1>4 DEF DispatchReturns
    <3>2. job'[t].src = job[t].src /\ job'[t].fresh = fresh
      BY <3>1 DEF Job
    <3> QED BY <1>4, <3>1, <3>2 DEF DispatchReturns
  <2>2. \A i \in job'[t].fresh : ~\E x \in stored : x.src = job[t].src /\ x.at = i
    BY <2>1 DEF StoredAt
  <2> QED BY <2>1, <2>2 DEF Deduped, NoDuplicateItems, StillNew
<1>5. ASSUME NEW t \in Threads, StoreItems(t) PROVE Deduped'
  <2> DEFINE s == job[t].src
             new == {[src |-> s, at |-> i, run |-> job[t].run] : i \in job[t].fresh}
  <2>1. pc[t] = "store" /\ stored' = stored \cup new /\ pc' = [pc EXCEPT ![t] = "read"]
    BY <1>5 DEF StoreItems
  <2>2. \A u \in Threads : pc'[u] # "store"
    BY <2>1 DEF Guarded, OneOwner, Collecting
  <2>3. \A x \in new : x.src = s /\ x.at \in job[t].fresh /\ x = [src |-> s, at |-> x.at, run |-> job[t].run]
    OBVIOUS
  <2>4. \A i \in job[t].fresh : ~\E x \in stored : x.src = s /\ x.at = i
    BY <2>1 DEF Deduped, StillNew
  <2> HIDE DEF new
  <2>5. NoDuplicateItems'
    BY <2>1, <2>3, <2>4 DEF Deduped, NoDuplicateItems
  <2> QED BY <2>2, <2>5 DEF Deduped, StillNew
<1>6. ASSUME NEW t \in Threads, Inside(t), ~DispatchReturns(t), ~StoreItems(t) PROVE Deduped'
  <2> DEFINE Quiet == UNCHANGED stored /\ \A u \in Threads : pc'[u] = "store" => pc[u] = "store" /\ job'[u] = job[u]
  <2>1. CASE HealthCheck(t)
    <3>1. Quiet
      BY <2>1 DEF HealthCheck
    <3> QED BY <3>1, DedupedFrame
  <2>2. CASE HealthRaises(t)
    <3>1. Quiet
      BY <2>2 DEF HealthRaises
    <3> QED BY <3>1, DedupedFrame
  <2>3. CASE NextSource(t)
    <3>1. Quiet
      BY <2>3 DEF NextSource
    <3> QED BY <3>1, DedupedFrame
  <2>15. CASE OpenWindow(t)
    <3>1. Quiet
      BY <2>15 DEF OpenWindow
    <3> QED BY <3>1, DedupedFrame
  <2>4. CASE LoopDone(t)
    <3>1. Quiet
      BY <2>4 DEF LoopDone
    <3> QED BY <3>1, DedupedFrame
  <2>5. CASE DispatchRaises(t)
    <3>1. Quiet
      BY <2>5 DEF DispatchRaises
    <3> QED BY <3>1, DedupedFrame
  <2>6. CASE StoreRaises(t)
    <3>1. Quiet
      BY <2>6 DEF StoreRaises, Die
    <3> QED BY <3>1, DedupedFrame
  <2>7. CASE ReadRow(t)
    <3>1. Quiet
      BY <2>7 DEF ReadRow
    <3> QED BY <3>1, DedupedFrame
  <2>8. CASE RowConflict(t)
    <3>1. Quiet
      BY <2>8 DEF RowConflict, Die
    <3> QED BY <3>1, DedupedFrame
  <2>9. CASE RecordAttempt(t)
    <3>1. Quiet
      BY <2>9 DEF RecordAttempt
    <3> QED BY <3>1, DedupedFrame
  <2>10. CASE RecordFailure(t)
    <3>1. Quiet
      BY <2>10 DEF RecordFailure
    <3> QED BY <3>1, DedupedFrame
  <2>11. CASE StreakHolds(t)
    <3>1. Quiet
      BY <2>11 DEF StreakHolds
    <3> QED BY <3>1, DedupedFrame
  <2>12. CASE StreakExhausted(t)
    <3>1. Quiet
      BY <2>12 DEF StreakExhausted
    <3> QED BY <3>1, DedupedFrame
  <2>13. CASE StreakUnreadable(t)
    <3>1. Quiet
      BY <2>13 DEF StreakUnreadable, Die
    <3> QED BY <3>1, DedupedFrame
  <2>14. CASE Advance(t)
    <3>1. Quiet
      BY <2>14 DEF Advance
    <3> QED BY <3>1, DedupedFrame
  <2> QED BY <1>6, <2>1, <2>2, <2>3, <2>4, <2>5, <2>6, <2>7, <2>8, <2>9, <2>10, <2>11, <2>12, <2>13, <2>14, <2>15 DEF Inside
<1> QED
  BY <1>1, <1>2, <1>3, <1>4, <1>5, <1>6 DEF Next, Step, Inside

\* However windows overlap and whoever starts the runs, an item of a source is
\* stored once (existing_external_ids and the unique index of CollectedItem).
THEOREM ItemsStoredOnce == Spec => []NoDuplicateItems
<1>1. Spec => []Deduped
  BY GuardHolds, DedupedInit, DedupedNext, PTL DEF Spec
<1> QED BY <1>1, PTL DEF Deduped

-----------------------------------------------------------------------------
(* The run table implements RunLedger. *)

OpenRuns == {i \in DOMAIN runs : Running(runs[i])}
ClosedRuns == {i \in DOMAIN runs : ~Running(runs[i])}

\* Only a start, an end and the reaper write to the run table.
LEMMA RunsUntouched ==
  ASSUME Typed, [Next]_vars, ~Restart, \A t \in Threads : ~InsertRun(t) /\ ~Finish(t)
  PROVE  UNCHANGED runs
<1> USE DEF processVars, threadVars
<1>1. ASSUME NEW t \in Threads, Start(t) \/ Step(t) PROVE UNCHANGED runs
  <2>1. CASE Inside(t)
    BY <2>1, InsideFrame
  <2>2. CASE Start(t) \/ StartRefused(t) \/ StartAllowed(t) \/ FinishRaises(t)
    BY <2>2 DEF Start, Trigger, Scheduled, StartRefused, StartAllowed, FinishRaises
  <2> QED BY <1>1, <2>1, <2>2 DEF Step, Inside
<1>2. ASSUME NEW s \in Sources, Operator(s) PROVE UNCHANGED runs
  BY <1>2 DEF Operator, ResetTo, ResetAll, ClearFailures, DeleteConnection
<1>3. CASE Tick \/ Crash \/ BoundsReached \/ UNCHANGED vars
  BY <1>3 DEF Tick, Crash, BoundsReached, vars
<1> QED BY <1>1, <1>2, <1>3 DEF Next

LEMMA LedgerStep ==
  ASSUME Typed, Guarded, [Next]_vars
  PROVE  [Ledger!Next]_(Ledger!ledger)
<1>0. /\ pc \in [Threads -> PC] /\ runs \in Seq(Run)
      /\ Len(runs) \in Nat /\ DOMAIN runs = 1 .. Len(runs)
      /\ \A i \in DOMAIN runs : runs[i] \in Run
  BY LenProperties DEF Typed, TypeOK
<1> USE <1>0 DEF processVars, threadVars, Ledger!ledger
<1>1. CASE UNCHANGED runs
  BY <1>1 DEF Running
<1>2. ASSUME NEW t \in Threads, InsertRun(t) PROVE Ledger!Open
  <2> DEFINE new == [status |-> "running", how |-> "open", said |-> {}, full |-> {}]
             n == Len(runs) + 1
  <2>1. \A i \in DOMAIN runs : ~Running(runs[i])
    BY <1>2 DEF InsertRun, Guarded, LockHeld, HasRunningRun
  <2>2. runs' = Append(runs, new) /\ new \in Run
    BY <1>2 DEF InsertRun, Run, How
  <2>3. /\ DOMAIN runs' = 1 .. n /\ runs'[n] = new
        /\ \A i \in 1 .. Len(runs) : runs'[i] = runs[i]
    BY <2>2, AppendProperties, LenProperties
  <2>4. Running(runs'[n])
    BY <2>3 DEF Running
  <2>5. /\ OpenRuns = {} /\ OpenRuns' = {n} /\ ClosedRuns' = ClosedRuns /\ n \notin ClosedRuns
    BY <2>1, <2>3, <2>4 DEF OpenRuns, ClosedRuns
  <2> QED BY <2>5 DEF Ledger!Open, OpenRuns, ClosedRuns
<1>3. ASSUME NEW t \in Threads, Finish(t) PROVE Ledger!Close
  <2> DEFINE n == job[t].run
  <2>1. n \in DOMAIN runs /\ Running(runs[n])
    BY <1>3 DEF Finish, Guarded, CollectorOwnsRun, Collecting
  <2>2. /\ DOMAIN runs' = DOMAIN runs /\ ~Running(runs'[n])
        /\ \A i \in DOMAIN runs : i # n => runs'[i] = runs[i]
    BY <1>3, <2>1, TierTyped DEF Finish, Running, Outcome
  <2>3. n \in OpenRuns /\ OpenRuns' = OpenRuns \ {n} /\ ClosedRuns' = ClosedRuns \cup {n}
    BY <2>1, <2>2 DEF OpenRuns, ClosedRuns
  <2> QED BY <2>3 DEF Ledger!Close, OpenRuns, ClosedRuns
<1>4. ASSUME Restart PROVE [Ledger!Next]_(Ledger!ledger)
  <2>1. \A r \in Run : [r EXCEPT !.status = "failed", !.how = "reaped"].status = "failed"
    BY DEF Run
  <2>2. /\ DOMAIN runs' = DOMAIN runs
        /\ \A i \in DOMAIN runs : ~Running(runs'[i])
    BY <1>4, <2>1 DEF Restart, Running
  <2>3. OpenRuns' = {} /\ ClosedRuns' = ClosedRuns \cup OpenRuns
    BY <2>2 DEF OpenRuns, ClosedRuns
  <2>4. CASE OpenRuns = {}
    BY <2>3, <2>4 DEF OpenRuns, ClosedRuns
  <2>5. ASSUME NEW i \in OpenRuns PROVE Ledger!Close
    <3>1. OpenRuns = {i}
      BY DEF Guarded, AtMostOneRun, OpenRuns
    <3>2. OpenRuns' = OpenRuns \ {i} /\ ClosedRuns' = ClosedRuns \cup {i}
      BY <2>3, <3>1
    <3> QED BY <3>2 DEF Ledger!Close, OpenRuns, ClosedRuns
  <2> QED BY <2>4, <2>5 DEF Ledger!Next
<1>5. ASSUME ~Restart, \A t \in Threads : ~InsertRun(t) /\ ~Finish(t) PROVE UNCHANGED runs
  BY <1>5, RunsUntouched
<1> QED
  BY <1>1, <1>2, <1>3, <1>4, <1>5 DEF Ledger!Next

\* The run table keeps the ledger's promise: one run open at a time, every run
\* closed once, by its own thread or by the reaper, and never reopened.
THEOREM RunnerKeepsLedger == Spec => KeepsLedger
<1>1. Init => Ledger!Init
  BY DEF Init, Ledger!Init
<1>2. Typed /\ Guarded /\ [Next]_vars => [Ledger!Next]_(Ledger!ledger)
  BY LedgerStep
<1> QED BY <1>1, <1>2, GuardHolds, PTL DEF Spec, KeepsLedger, Ledger!Spec

-----------------------------------------------------------------------------
(* Holes.  What a watermark moved past is noted when the source is picked,   *)
(* stored before a clean advance, or told at an exhausted streak; the two    *)
(* reads of the cursor row may differ, because the operator's endpoints may  *)
(* move the watermark between them.                                          *)

\* What the cap would skip from a mark is noted or fell off the end of its text, or
\* the mark is too recent for the cap to skip anything.
Covered(j, mark) ==
  \/ mark = NoMark
  \/ mark >= j.until - MAX_BACKFILL
  \/ Shortfall(j.src, mark, j.until) \subseteq j.noted
  \/ j.full # {}

Opened == {"dispatch", "store", "read", "commit", "streak"}
Kept == {"read", "commit", "streak"}

\* What a thread at point `at` with locals j knows of its source, whose row holds
\* `mark` and whose stored instants are `held`, at the time `clock`.
StoredIn(st, s) == {x.at : x \in {y \in st : y.src = s}}
JobWindow(j) == Larger(0, j.start) .. (j.until - 1)
Accounts(j, at, mark, held, clock) ==
  /\ j.until <= clock
  /\ at = "window" => Covered(j, mark)
  /\ at \in Opened => Covered(j, j.base) /\ j.start = CollectionWindow(j.base, j.until)
  /\ at = "store" => j.op = "attempt" /\ (j.res = "ok" => JobWindow(j) \subseteq held \cup j.fresh)
  /\ at \in Kept /\ j.res = "ok" => JobWindow(j) \subseteq held
  /\ at \in Kept /\ j.res # "ok" /\ (j.op # "attempt" \/ at = "streak") => j.failed # {}
  /\ j.told # {} => j.failed # {}
Accounted(t) ==
  Accounts(job[t], pc[t], cursor[job[t].src].mark, StoredIn(stored, job[t].src), now)

LossOf(g) == [src |-> g.src, at |-> g.at]
Reported(t, g) == LossOf(g) \in job[t].noted \cup job[t].told \/ job[t].full # {}
Answered(run, g) == run.how = "complete" => LossOf(g) \in run.said \/ run.full # {}
AllAccounted == \A t \in Threads : pc[t] \in Collecting => Accounted(t)
AllReported ==
  \A g \in gone :
    /\ g.run \in DOMAIN runs
    /\ \A t \in Threads : pc[t] \in Collecting /\ job[t].run = g.run => Reported(t, g)
    /\ Answered(runs[g.run], g)
OpenIsCut == \A i \in DOMAIN runs : Running(runs[i]) => runs[i].how # "complete"
Holes == AllAccounted /\ AllReported /\ OpenIsCut

\* What is covered from a mark stays covered while the notes only grow.
LEMMA CoveredGrows ==
  ASSUME NEW j, NEW k, NEW mark, k.until = j.until, k.src = j.src, j.noted \subseteq k.noted,
         j.full \subseteq k.full, Covered(j, mark)
  PROVE  Covered(k, mark)
BY DEF Covered

\* A step that keeps a thread at its source and adds to what is known of it.
LEMMA AccountedStays ==
  ASSUME NEW t \in Threads, Accounted(t), now \in Nat, now' = now,
         NEW j \in Job, NEW k \in Job, job[t] = j, job'[t] = k,
         k.until = j.until, k.src = j.src, k.base = j.base, k.start = j.start,
         k.res = j.res, k.fresh = j.fresh, k.told = j.told,
         j.noted \subseteq k.noted, j.full \subseteq k.full, j.failed \subseteq k.failed,
         stored \subseteq stored',
         pc'[t] # "window", pc'[t] # "store",
         pc'[t] \in Opened => pc[t] \in Opened,
         pc'[t] \in Kept /\ j.res = "ok" => JobWindow(j) \subseteq StoredIn(stored', j.src),
         pc'[t] \in Kept /\ j.res # "ok" /\ (k.op # "attempt" \/ pc'[t] = "streak") => k.failed # {}
  PROVE  Accounted(t)'
<1> DEFINE at == pc[t]
           bt == pc'[t]
           mark == cursor[j.src].mark
           nark == cursor'[j.src].mark
           held == StoredIn(stored, j.src)
           keld == StoredIn(stored', j.src)
<1>1. held \subseteq keld
  BY DEF StoredIn
<1>2. j.until \in Nat
  BY DEF Job
<1>3. Accounts(j, at, mark, held, now)
  BY DEF Accounted
<1>4. /\ bt # "window" /\ bt # "store" /\ (bt \in Opened => at \in Opened)
      /\ bt \in Kept /\ j.res = "ok" => JobWindow(j) \subseteq keld
      /\ bt \in Kept /\ j.res # "ok" /\ (k.op # "attempt" \/ bt = "streak") => k.failed # {}
  OBVIOUS
<1>5. Accounted(t)' = Accounts(k, bt, nark, keld, now)
  BY DEF Accounted
<1> HIDE DEF at, bt, mark, nark, held, keld
<1>6. JobWindow(k) = JobWindow(j)
  BY DEF JobWindow
<1>7. \A m : Covered(j, m) => Covered(k, m)
  BY CoveredGrows
<1>8. bt \in Opened => Covered(k, k.base) /\ k.start = CollectionWindow(k.base, k.until)
  BY <1>3, <1>4, <1>7 DEF Accounts
<1>10. k.until <= now /\ (k.told # {} => k.failed # {})
  BY <1>3 DEF Accounts
<1>11. Accounts(k, bt, nark, keld, now)
  BY <1>4, <1>6, <1>8, <1>10 DEF Accounts
<1> QED BY <1>5, <1>11

\* The steps that change what is known of the source in hand.
LEMMA NextSourceAccounts ==
  ASSUME Typed, NEW t \in Threads, Accounted(t), NextSource(t)
  PROVE  Accounted(t)'
<1> DEFINE j == job[t]
           lost(s) == Shortfall(s, cursor[s].mark, j.until)
<1>p. PICK s \in j.todo : \E full \in Filled(j.full, "summary", lost(s) # {}) :
        job' = [job EXCEPT ![t].todo = @ \ {s}, ![t].src = s, ![t].full = full,
                           ![t].noted = @ \cup Heard(full, "summary", lost(s))]
  BY DEF NextSource
<1>1. PICK full \in Filled(j.full, "summary", lost(s) # {}) :
        job' = [job EXCEPT ![t].todo = @ \ {s}, ![t].src = s, ![t].full = full,
                           ![t].noted = @ \cup Heard(full, "summary", lost(s))]
  BY <1>p
<1> HIDE DEF lost
<1>2. PICK k : k = job'[t]
  OBVIOUS
<1>3. j \in Job
  BY DEF Typed, TypeOK
<1>4. /\ k.src = s /\ k.until = j.until /\ k.full = full
      /\ k.noted = j.noted \cup Heard(full, "summary", lost(s))
      /\ k.told = j.told /\ k.failed = j.failed
  BY <1>1, <1>2, <1>3 DEF Typed, TypeOK, Job
<1>a. \A x \in lost(s) : x \in Heard(full, "summary", lost(s)) \/ full # {}
  <2>1. j.full \in SUBSET Text
    BY <1>3 DEF Job
  <2> QED BY <2>1, SentenceAppended DEF Text
<1>5. pc'[t] = "window" /\ UNCHANGED <<cursor, now, stored>>
  BY DEF NextSource, Typed, TypeOK, PC
<1>6. j.until <= now /\ (j.told # {} => j.failed # {})
  BY DEF Accounted, Accounts
<1>7. Covered(k, cursor[k.src].mark)
  BY <1>4, <1>a DEF Covered, lost
<1>8. Accounts(k, "window", cursor[k.src].mark, StoredIn(stored, k.src), now)
  BY <1>4, <1>6, <1>7 DEF Accounts, Opened, Kept
<1> QED BY <1>2, <1>5, <1>8 DEF Accounted

LEMMA OpenWindowAccounts ==
  ASSUME Typed, NEW t \in Threads, Accounted(t), OpenWindow(t)
  PROVE  Accounted(t)'
<1> DEFINE j == job[t]
           mark == cursor[j.src].mark
           start == CollectionWindow(mark, j.until)
<1>2. PICK k : k = job'[t]
  OBVIOUS
<1>3. j \in Job
  BY DEF Typed, TypeOK
<1>4. job' = [job EXCEPT ![t].base = mark, ![t].start = start]
  BY DEF OpenWindow
<1> HIDE DEF start
<1>5. /\ k.src = j.src /\ k.until = j.until /\ k.noted = j.noted /\ k.base = mark /\ k.start = start
      /\ k.full = j.full
      /\ k.told = j.told /\ k.failed = j.failed
  BY <1>2, <1>3, <1>4 DEF Typed, TypeOK, Job
<1>6. pc'[t] = "dispatch" /\ pc[t] = "window" /\ UNCHANGED <<cursor, now, stored>>
  BY DEF OpenWindow, Typed, TypeOK, PC
<1>7. j.until <= now /\ (j.told # {} => j.failed # {}) /\ Covered(j, mark)
  BY <1>6 DEF Accounted, Accounts
<1>8. Covered(k, k.base)
  BY <1>5, <1>7 DEF Covered
<1>9. k.start = CollectionWindow(k.base, k.until)
  BY <1>5 DEF start
<1>10. Accounts(k, "dispatch", mark, StoredIn(stored, k.src), now)
  BY <1>5, <1>7, <1>8, <1>9 DEF Accounts, Kept
<1> QED BY <1>2, <1>5, <1>6, <1>10 DEF Accounted

LEMMA DispatchRaisesAccounts ==
  ASSUME Typed, NEW t \in Threads, Accounted(t), DispatchRaises(t)
  PROVE  Accounted(t)'
<1> DEFINE j == job[t]
<1>2. PICK k : k = job'[t]
  OBVIOUS
<1>3. j \in Job
  BY DEF Typed, TypeOK
<1>5. /\ k.src = j.src /\ k.until = j.until /\ k.noted = j.noted /\ k.base = j.base /\ k.start = j.start
      /\ k.full = j.full
      /\ k.told = j.told /\ k.failed = j.failed \cup {j.src} /\ k.res = "raised"
  BY <1>2, <1>3 DEF Typed, TypeOK, Job, DispatchRaises
<1>6. pc'[t] = "read" /\ pc[t] = "dispatch" /\ UNCHANGED <<cursor, now, stored>>
  BY DEF DispatchRaises, Typed, TypeOK, PC
<1>7. j.until <= now /\ Covered(j, j.base) /\ j.start = CollectionWindow(j.base, j.until)
  BY <1>6 DEF Accounted, Accounts, Opened
<1>8. Covered(k, k.base)
  BY <1>5, <1>7 DEF Covered
<1>10. Accounts(k, "read", cursor[k.src].mark, StoredIn(stored, k.src), now)
  BY <1>5, <1>7, <1>8 DEF Accounts
<1> QED BY <1>2, <1>5, <1>6, <1>10 DEF Accounted

LEMMA DispatchReturnsAccounts ==
  ASSUME Typed, NEW t \in Threads, Accounted(t), DispatchReturns(t)
  PROVE  Accounted(t)'
<1> DEFINE j == job[t]
           held == StoredIn(stored, j.src)
           new == Window(t) \ StoredAt(job[t].src)
<1>1. PICK res \in {"ok", "partial", "error"}, fresh \in SUBSET new :
        /\ res = "ok" => fresh = new
        /\ job' = [job EXCEPT ![t].res = res, ![t].fresh = fresh, ![t].op = "attempt"]
        /\ pc' = [pc EXCEPT ![t] = IF fresh = {} THEN "read" ELSE "store"]
  BY DEF DispatchReturns
<1>2. PICK k : k = job'[t]
  OBVIOUS
<1>3. j \in Job
  BY DEF Typed, TypeOK
<1>5. /\ k.src = j.src /\ k.until = j.until /\ k.noted = j.noted /\ k.base = j.base /\ k.start = j.start
      /\ k.full = j.full
      /\ k.told = j.told /\ k.failed = j.failed /\ k.res = res /\ k.fresh = fresh /\ k.op = "attempt"
  BY <1>1, <1>2, <1>3 DEF Typed, TypeOK, Job
<1>6. /\ pc'[t] = (IF fresh = {} THEN "read" ELSE "store")
      /\ pc[t] = "dispatch" /\ UNCHANGED <<cursor, now, stored>>
  BY <1>1 DEF DispatchReturns, Typed, TypeOK, PC
<1>7. /\ j.until <= now /\ Covered(j, j.base) /\ j.start = CollectionWindow(j.base, j.until)
      /\ (j.told # {} => j.failed # {})
  BY <1>6 DEF Accounted, Accounts, Opened
<1>8. Covered(k, k.base)
  BY <1>5, <1>7 DEF Covered
<1>9. Window(t) = JobWindow(k) /\ StoredAt(j.src) = held
  BY <1>5 DEF Window, JobWindow, StoredAt, StoredIn
<1>10. res = "ok" => JobWindow(k) \subseteq held \cup fresh
  BY <1>1, <1>9
<1>11. k.start = CollectionWindow(k.base, k.until) /\ k.until <= now /\ (k.told # {} => k.failed # {})
  BY <1>5, <1>7
<1> HIDE DEF held
<1>12. ASSUME NEW mark PROVE Accounts(k, IF fresh = {} THEN "read" ELSE "store", mark, held, now)
  <2>1. CASE fresh = {}
    BY <2>1, <1>5, <1>8, <1>10, <1>11 DEF Accounts
  <2>2. CASE fresh # {}
    BY <2>2, <1>5, <1>8, <1>10, <1>11 DEF Accounts, Kept
  <2> QED BY <2>1, <2>2
<1> QED BY <1>2, <1>5, <1>6, <1>12 DEF Accounted, held

LEMMA AdvanceAccounts ==
  ASSUME Typed, NEW t \in Threads, Accounted(t), Advance(t)
  PROVE  Accounted(t)'
<1> DEFINE j == job[t]
           window == {[src |-> j.src, at |-> i] : i \in Window(t)}
           told(full) == IF j.res # "ok" THEN j.told \cup Heard(full, "error", window) ELSE j.told
<1>2. PICK k : k = job'[t]
  OBVIOUS
<1>3. j \in Job
  BY DEF Typed, TypeOK
<1>4. PICK full : job' = [job EXCEPT ![t].full = full, ![t].told = told(full)] /\ j.op = "advance"
  BY DEF Advance, RowWritable
<1>5. k.until = j.until /\ k.failed = j.failed /\ k.told = told(full)
  <2> HIDE DEF told
  <2> QED BY <1>2, <1>3, <1>4 DEF Typed, TypeOK, Job
<1>6. pc'[t] = "loop" /\ pc[t] = "commit" /\ UNCHANGED <<now, stored>>
  BY DEF Advance, RowWritable, Typed, TypeOK, PC
<1>7. j.until <= now /\ (j.told # {} => j.failed # {}) /\ (j.res # "ok" => j.failed # {})
  BY <1>4, <1>6 DEF Accounted, Accounts, Kept
<1>8. told(full) # {} => k.failed # {}
  BY <1>5, <1>7
<1> HIDE DEF told
<1>10. ASSUME NEW mark, NEW held PROVE Accounts(k, "loop", mark, held, now)
  BY <1>5, <1>7, <1>8 DEF Accounts, Opened, Kept
<1> QED BY <1>2, <1>6, <1>10 DEF Accounted

\* The other steps inside the collection, and what they leave of the locals.
Plain(t) ==
  \/ HealthCheck(t) \/ HealthRaises(t) \/ LoopDone(t) \/ StoreItems(t) \/ StoreRaises(t)
  \/ ReadRow(t) \/ RowConflict(t) \/ RecordAttempt(t) \/ RecordFailure(t)
  \/ StreakHolds(t) \/ StreakExhausted(t) \/ StreakUnreadable(t)

LEMMA PlainKeeps ==
  ASSUME NEW t \in Threads, NEW j, NEW k, pc \in [Threads -> PC], job \in [Threads -> Job],
         j = job[t], k = job'[t], Plain(t)
  PROVE  /\ now' = now /\ stored \subseteq stored' /\ gone' \subseteq gone
         /\ k.until = j.until /\ k.src = j.src /\ k.base = j.base /\ k.start = j.start
         /\ k.res = j.res /\ k.fresh = j.fresh /\ k.told = j.told /\ k.noted = j.noted
         /\ j.failed \subseteq k.failed /\ j.full \subseteq k.full
<1> USE DEF Job
<1>1. CASE HealthCheck(t)
  BY <1>1 DEF HealthCheck
<1>2. CASE HealthRaises(t)
  BY <1>2 DEF HealthRaises
<1>3. CASE LoopDone(t)
  BY <1>3 DEF LoopDone
<1>4. CASE StoreItems(t)
  BY <1>4 DEF StoreItems
<1>5. CASE StoreRaises(t)
  BY <1>5 DEF StoreRaises, Die
<1>6. CASE ReadRow(t)
  BY <1>6 DEF ReadRow
<1>7. CASE RowConflict(t)
  BY <1>7 DEF RowConflict, Die
<1>8. CASE RecordAttempt(t)
  <2> DEFINE clean == j.res = "ok"
             op == IF clean THEN "advance" ELSE "failure"
             failed == IF clean THEN j.failed ELSE j.failed \cup {j.src}
             partial == IF j.res = "partial" THEN j.partial \cup {j.src} ELSE j.partial
  <2>1. PICK full \in Filled(j.full, "error", ~clean) :
          job' = [job EXCEPT ![t].op = op, ![t].full = full, ![t].failed = failed,
                             ![t].partial = partial]
    BY <1>8 DEF RecordAttempt
  <2>2. j.full \subseteq full /\ j.failed \subseteq failed
    BY DEF Filled
  <2> HIDE DEF op, failed, partial, clean
  <2>3. /\ k.until = j.until /\ k.src = j.src /\ k.base = j.base /\ k.start = j.start
        /\ k.res = j.res /\ k.fresh = j.fresh /\ k.told = j.told /\ k.noted = j.noted
        /\ k.failed = failed /\ k.full = full
    BY <2>1
  <2> QED BY <1>8, <2>2, <2>3 DEF RecordAttempt, RowWritable
<1>9. CASE RecordFailure(t)
  BY <1>9 DEF RecordFailure, RowWritable
<1>10. CASE StreakHolds(t)
  BY <1>10 DEF StreakHolds
<1>11. CASE StreakExhausted(t)
  BY <1>11 DEF StreakExhausted
<1>12. CASE StreakUnreadable(t)
  BY <1>12 DEF StreakUnreadable, Die
<1> QED BY <1>1, <1>2, <1>3, <1>4, <1>5, <1>6, <1>7, <1>8, <1>9, <1>10, <1>11, <1>12 DEF Plain

LEMMA ItemsAdded ==
  ASSUME NEW st, NEW s, NEW r, NEW F
  PROVE  StoredIn(st, s) \cup F
           \subseteq StoredIn(st \cup {[src |-> s, at |-> i, run |-> r] : i \in F}, s)
<1> DEFINE new == {[src |-> s, at |-> i, run |-> r] : i \in F}
<1>1. ASSUME NEW i \in StoredIn(st, s) PROVE i \in StoredIn(st \cup new, s)
  <2>1. PICK x \in st : x.src = s /\ x.at = i
    BY DEF StoredIn
  <2> HIDE DEF new
  <2> QED BY <2>1 DEF StoredIn
<1>2. ASSUME NEW i \in F PROVE i \in StoredIn(st \cup new, s)
  <2>1. PICK x \in new : x = [src |-> s, at |-> i, run |-> r]
    OBVIOUS
  <2>2. x.src = s /\ x.at = i
    BY <2>1
  <2> HIDE DEF new
  <2> QED BY <2>2 DEF StoredIn
<1> QED BY <1>1, <1>2

LEMMA PlainAccounts ==
  ASSUME Typed, NEW t \in Threads, Accounted(t), Plain(t), job' \in [Threads -> Job]
  PROVE  Accounted(t)'
<1>0. pc \in [Threads -> PC] /\ job \in [Threads -> Job] /\ now \in Nat
  BY DEF Typed, TypeOK
<1>1. PICK j \in Job : j = job[t]
  BY <1>0
<1>2. PICK k \in Job : k = job'[t]
  OBVIOUS
<1> DEFINE Moves == pc'[t] # "window" /\ pc'[t] # "store" /\ (pc'[t] \in Opened => pc[t] \in Opened)
           Clean == pc'[t] \in Kept /\ j.res = "ok" => JobWindow(j) \subseteq StoredIn(stored', j.src)
           Failed == pc'[t] \in Kept /\ j.res # "ok" /\ (k.op # "attempt" \/ pc'[t] = "streak")
                       => k.failed # {}
<1>3. SUFFICES Moves /\ Clean /\ Failed
  <2>1. /\ now' = now /\ stored \subseteq stored'
        /\ k.until = j.until /\ k.src = j.src /\ k.base = j.base /\ k.start = j.start
        /\ k.res = j.res /\ k.fresh = j.fresh /\ k.told = j.told /\ k.noted = j.noted
        /\ j.failed \subseteq k.failed /\ j.full \subseteq k.full
    BY <1>0, <1>1, <1>2, PlainKeeps
  <2>2. j.noted \subseteq k.noted
    BY <2>1
  <2> QED BY <1>0, <1>1, <1>2, <1>3, <2>1, <2>2, AccountedStays
<1>4. Accounts(j, pc[t], cursor[j.src].mark, StoredIn(stored, j.src), now)
  BY <1>1 DEF Accounted
<1>5. CASE HealthCheck(t) \/ HealthRaises(t) \/ LoopDone(t) \/ StoreRaises(t)
           \/ RowConflict(t) \/ StreakHolds(t) \/ StreakUnreadable(t)
  <2>1. pc'[t] \in {"loop", "finish"}
    BY <1>0, <1>5 DEF HealthCheck, HealthRaises, LoopDone, StoreRaises, RowConflict, StreakHolds,
                      StreakUnreadable, Die
  <2> QED BY <2>1 DEF Opened, Kept
<1>6. CASE StoreItems(t)
  <2>1. pc[t] = "store" /\ pc'[t] = "read" /\ job' = job
    BY <1>0, <1>6 DEF StoreItems
  <2> DEFINE new == {[src |-> job[t].src, at |-> i, run |-> job[t].run] : i \in job[t].fresh}
  <2>2. stored' = stored \cup new
    BY <1>6 DEF StoreItems
  <2>a. StoredIn(stored, job[t].src) \cup job[t].fresh \subseteq StoredIn(stored \cup new, job[t].src)
    BY ONLY ItemsAdded
  <2> HIDE DEF new
  <2>3. StoredIn(stored, j.src) \cup j.fresh \subseteq StoredIn(stored', j.src)
    BY <1>1, <2>2, <2>a
  <2>4. j.op = "attempt" /\ (j.res = "ok" => JobWindow(j) \subseteq StoredIn(stored, j.src) \cup j.fresh)
    BY <1>4, <2>1 DEF Accounts
  <2>5. k = j
    BY <1>1, <1>2, <2>1
  <2> QED BY <2>1, <2>3, <2>4, <2>5 DEF Opened
<1>7. CASE ReadRow(t)
  <2>1. pc[t] = "read" /\ pc'[t] = "commit" /\ k.op = j.op /\ k.failed = j.failed /\ stored' = stored
    BY <1>0, <1>1, <1>2, <1>7 DEF ReadRow, Job
  <2> QED BY <1>4, <2>1 DEF Opened, Kept, Accounts
<1>8. CASE RecordAttempt(t)
  <2>1. /\ pc[t] = "commit" /\ pc'[t] = "read" /\ stored' = stored
        /\ j.res # "ok" => k.failed = j.failed \cup {j.src}
    <3>1. pc[t] = "commit" /\ pc'[t] = "read" /\ stored' = stored
      BY <1>0, <1>8 DEF RecordAttempt, RowWritable
    <3> DEFINE clean == j.res = "ok"
               op == IF clean THEN "advance" ELSE "failure"
               failed == IF clean THEN j.failed ELSE j.failed \cup {j.src}
               partial == IF j.res = "partial" THEN j.partial \cup {j.src} ELSE j.partial
    <3>2. PICK full \in Filled(j.full, "error", ~clean) :
            job' = [job EXCEPT ![t].op = op, ![t].full = full, ![t].failed = failed,
                               ![t].partial = partial]
      BY <1>1, <1>8 DEF RecordAttempt
    <3>4. j.res # "ok" => failed = j.failed \cup {j.src}
      OBVIOUS
    <3> HIDE DEF op, failed, partial
    <3>3. j.res # "ok" => job'[t].failed = j.failed \cup {j.src}
      BY <1>0, <1>1, <3>2, <3>4 DEF Job
    <3> QED BY <1>2, <3>1, <3>3
  <2> QED BY <1>4, <2>1 DEF Opened, Kept, Accounts
<1>9. CASE RecordFailure(t)
  <2>1. /\ pc[t] = "commit" /\ pc'[t] = "streak" /\ stored' = stored /\ k = j /\ j.op = "failure"
    BY <1>0, <1>1, <1>2, <1>9 DEF RecordFailure, RowWritable
  <2> QED BY <1>4, <2>1 DEF Opened, Kept, Accounts
<1>10. CASE StreakExhausted(t)
  <2>1. /\ pc[t] = "streak" /\ pc'[t] = "read" /\ stored' = stored /\ k.failed = j.failed
    BY <1>0, <1>1, <1>2, <1>10 DEF StreakExhausted, Job
  <2> QED BY <1>4, <2>1 DEF Opened, Kept, Accounts
<1> QED BY <1>5, <1>6, <1>7, <1>8, <1>9, <1>10 DEF Plain

LEMMA InsideAccounts ==
  ASSUME Typed, NEW t \in Threads, Accounted(t), Inside(t), job' \in [Threads -> Job]
  PROVE  Accounted(t)'
<1>1. CASE Plain(t)
  BY <1>1, PlainAccounts
<1> QED
  BY <1>1, NextSourceAccounts, OpenWindowAccounts, DispatchRaisesAccounts, DispatchReturnsAccounts,
     AdvanceAccounts DEF Inside, Plain

\* An instant the run claims and its window does not reach was noted.
JobClaim(j) == (IF j.base = NoMark THEN Larger(0, j.start) ELSE j.base) .. (j.until - 1)

LEMMA ClaimNoted ==
  ASSUME NEW j \in Job, Covered(j, j.base), j.start = CollectionWindow(j.base, j.until),
         NEW i \in JobClaim(j), i \notin JobWindow(j)
  PROVE  [src |-> j.src, at |-> i] \in j.noted \/ j.full # {}
<1>1. PICK base \in Mark, until \in Nat, start \in Int : base = j.base /\ until = j.until /\ start = j.start
  BY DEF Job
<1>2. base # NoMark /\ base \in Nat /\ i \in base .. (until - 1)
  BY <1>1, WindowAssumption DEF JobClaim, JobWindow, Mark
<1>3. i \in Nat /\ base <= i /\ i < start
  BY <1>1, <1>2 DEF JobWindow, Larger
<1>4. start = Larger(until - MAX_BACKFILL, Smaller(until - LOOKBACK, base - OVERLAP))
  BY <1>1, <1>2 DEF CollectionWindow
<1>5. ~(base >= until - MAX_BACKFILL)
  BY <1>2, <1>3, <1>4, WindowAssumption DEF Larger, Smaller
<1>6. Shortfall(j.src, base, until) \subseteq j.noted \/ j.full # {}
  BY <1>1, <1>2, <1>5 DEF Covered
<1>7. i \in Larger(0, base - OVERLAP) .. (CollectionWindow(base, until) - 1)
  BY <1>1, <1>2, <1>3, WindowAssumption DEF Larger
<1> QED BY <1>2, <1>6, <1>7 DEF Shortfall

LEMMA AdvanceReports ==
  ASSUME Typed, Guarded, Holes, NEW t \in Threads, Advance(t)
  PROVE  AllReported'
<1> DEFINE j == job[t]
           s == job[t].src
           missing == {i \in Claimed(t) \ StoredAt(s) : ~\E g \in gone : g.src = s /\ g.at = i}
           new == {[src |-> s, at |-> i, run |-> job[t].run] : i \in missing}
           window == {[src |-> s, at |-> i] : i \in Window(t)}
           told(full) == IF job[t].res # "ok" THEN job[t].told \cup Heard(full, "error", window)
                         ELSE job[t].told
<1>1. PICK full \in Filled(job[t].full, "error", job[t].res # "ok") :
        /\ gone' = gone \cup new /\ job' = [job EXCEPT ![t].full = full, ![t].told = told(full)]
        /\ pc[t] = "commit" /\ pc' = [pc EXCEPT ![t] = "loop"] /\ runs' = runs
  BY DEF Advance, RowWritable
<1> DEFINE Out(g) == LossOf(g) \in j.noted \cup told(full) \/ full # {}
<1>2. j \in Job /\ job \in [Threads -> Job] /\ pc \in [Threads -> PC]
  BY DEF Typed, TypeOK
<1>a. /\ j.full \subseteq full
      /\ \A x \in window : x \in Heard(full, "error", window) \/ full # {}
  <2>1. j.full \in SUBSET Text
    BY <1>2 DEF Job
  <2> HIDE DEF window
  <2> QED BY <2>1, SentenceAppended DEF Text
<1>3. /\ job'[t].told = told(full) /\ job'[t].noted = j.noted /\ job'[t].run = j.run
      /\ job'[t].full = full
      /\ \A u \in Threads : pc'[u] \in Collecting => u = t
  <2>1. \A u \in Threads : pc'[u] \in Collecting => u = t
    BY <1>1, <1>2 DEF Guarded, OneOwner, Collecting
  <2> HIDE DEF told
  <2> QED BY <1>1, <1>2, <2>1 DEF Job
<1>4. j.run \in DOMAIN runs /\ runs[j.run].how # "complete"
  BY <1>1 DEF Guarded, CollectorOwnsRun, Collecting, Holes, OpenIsCut
<1>5. Accounts(j, "commit", cursor[s].mark, StoredIn(stored, s), now)
  BY <1>1 DEF Holes, AllAccounted, Accounted, Collecting
<1>6. ASSUME NEW g \in gone
      PROVE  /\ g.run \in DOMAIN runs
             /\ g.run = j.run => Out(g)
             /\ Answered(runs[g.run], g)
  BY <1>1, <1>a DEF Holes, AllReported, Reported, Collecting
<1>7. ASSUME NEW i \in missing PROVE [src |-> s, at |-> i] \in j.noted \cup told(full) \/ full # {}
  <2>1. i \in JobClaim(j) /\ i \notin StoredIn(stored, s) /\ Window(t) = JobWindow(j)
    BY DEF Claimed, JobClaim, StoredAt, StoredIn, Window, JobWindow
  <2>2. CASE i \in JobWindow(j)
    <3>1. j.res # "ok"
      BY <1>5, <2>1, <2>2 DEF Accounts, Kept
    <3>2. [src |-> s, at |-> i] \in window
      BY <2>1, <2>2
    <3> HIDE DEF window
    <3> QED BY <1>a, <3>1, <3>2
  <2>3. CASE i \notin JobWindow(j)
    <3>1. Covered(j, j.base) /\ j.start = CollectionWindow(j.base, j.until)
      BY <1>5 DEF Accounts, Opened
    <3>2. [src |-> j.src, at |-> i] \in j.noted \/ j.full # {}
      BY <1>2, <2>1, <2>3, <3>1, ClaimNoted
    <3> QED BY <1>a, <3>2
  <2> QED BY <2>2, <2>3
<1>8. ASSUME NEW g \in new PROVE g.run = j.run /\ Out(g)
  <2>1. PICK i \in missing : g = [src |-> s, at |-> i, run |-> job[t].run]
    OBVIOUS
  <2>2. g.run = j.run /\ LossOf(g) = [src |-> s, at |-> i]
    BY <2>1 DEF LossOf
  <2> HIDE DEF missing, told
  <2> QED BY <1>7, <2>2
<1> HIDE DEF new, told
<1>9. ASSUME NEW g \in gone'
      PROVE  /\ g.run \in DOMAIN runs
             /\ g.run = j.run => Out(g)
             /\ Answered(runs[g.run], g)
  <2>1. CASE g \in gone
    BY <1>6, <2>1
  <2>2. CASE g \in new
    <3>1. g.run = j.run /\ Out(g)
      BY <1>8, <2>2
    <3> HIDE DEF Out, j
    <3> QED BY <1>4, <3>1 DEF Answered
  <2> QED BY <1>1, <2>1, <2>2
<1> QED BY <1>1, <1>3, <1>9 DEF AllReported, Reported

LEMMA OpenIsCutNext ==
  ASSUME Typed, OpenIsCut, [Next]_vars
  PROVE  OpenIsCut'
<1>0. /\ runs \in Seq(Run) /\ Len(runs) \in Nat /\ DOMAIN runs = 1 .. Len(runs)
      /\ \A i \in DOMAIN runs : runs[i] \in Run
  BY LenProperties DEF Typed, TypeOK
<1>1. ASSUME NEW t \in Threads, InsertRun(t) PROVE OpenIsCut'
  <2> DEFINE new == [status |-> "running", how |-> "open", said |-> {}, full |-> {}]
             n == Len(runs) + 1
  <2>1. runs' = Append(runs, new) /\ new \in Run
    BY <1>1 DEF InsertRun, Run, How
  <2>2. /\ DOMAIN runs' = 1 .. n /\ runs'[n] = new
        /\ \A i \in 1 .. Len(runs) : runs'[i] = runs[i]
    BY <1>0, <2>1, AppendProperties, LenProperties
  <2> QED BY <1>0, <2>2 DEF OpenIsCut
<1>2. ASSUME NEW t \in Threads, Finish(t) PROVE OpenIsCut'
  <2>1. /\ DOMAIN runs' = DOMAIN runs
        /\ \A i \in DOMAIN runs : ~Running(runs'[i]) \/ runs'[i] = runs[i]
    BY <1>2, TierTyped DEF Finish, Running, Outcome
  <2> QED BY <2>1 DEF OpenIsCut
<1>3. CASE Restart
  <2>1. \A r \in Run : [r EXCEPT !.status = "failed", !.how = "reaped"].status = "failed"
    BY DEF Run
  <2>2. DOMAIN runs' = DOMAIN runs /\ \A i \in DOMAIN runs : ~Running(runs'[i])
    BY <1>0, <1>3, <2>1 DEF Restart, Running
  <2> QED BY <2>2 DEF OpenIsCut
<1>4. CASE UNCHANGED runs
  BY <1>4 DEF OpenIsCut, Running
<1> QED BY <1>1, <1>2, <1>3, <1>4, RunsUntouched

LEMMA HolesInit == Init => Holes
BY DEF Init, Holes, AllAccounted, AllReported, OpenIsCut, Collecting

\* A step after which no thread collects, and which loses nothing that was said.
LEMMA HolesAtRest ==
  ASSUME Holes, OpenIsCut', UNCHANGED gone, \A u \in Threads : pc'[u] \notin Collecting,
         \A g \in gone : /\ g.run \in DOMAIN runs'
                         /\ Answered(runs'[g.run], g)
  PROVE  Holes'
BY DEF Holes, AllAccounted, AllReported

LEMMA FinishHoles ==
  ASSUME Typed, Guarded, Holes, OpenIsCut', NEW t \in Threads, Finish(t)
  PROVE  Holes'
<1> DEFINE j == job[t]
           tier == Summarize(j.active, j.sick, j.failed, j.partial)
           status == IF j.fatal THEN "failed" ELSE tier
           how == IF j.fatal THEN "fatal" ELSE "complete"
           error == IF j.fatal \/ tier = "success" THEN {} ELSE j.told
           full == IF j.fatal THEN j.full \ {"error"} ELSE j.full
           end == [status |-> status, how |-> how, said |-> j.noted \cup error, full |-> full]
<1>1. /\ runs' = [runs EXCEPT ![j.run] = end] /\ pc[t] = "finish" /\ pc' = [pc EXCEPT ![t] = "idle"]
      /\ UNCHANGED gone
  BY DEF Finish
<1>2. pc \in [Threads -> PC]
  BY DEF Typed, TypeOK
<1>3. \A u \in Threads : pc'[u] \notin Collecting
  BY <1>1, <1>2 DEF Guarded, OneOwner, Collecting
<1>4. j.told # {} => j.failed # {}
  BY <1>1 DEF Holes, AllAccounted, Accounted, Accounts, Collecting
<1>5. j.failed # {} => tier # "success"
  <2>1. ASSUME NEW x \in j.failed PROVE tier # "success"
    <3>1. CASE x \in j.sick \cup (j.failed \ j.partial)
      BY <3>1 DEF Summarize
    <3>2. CASE x \notin j.sick \cup (j.failed \ j.partial)
      <4>1. x \in (j.partial \cup j.failed) \ (j.sick \cup (j.failed \ j.partial))
        BY <2>1, <3>2
      <4> QED BY <4>1 DEF Summarize
    <3> QED BY <3>1, <3>2
  <2> QED BY <2>1
<1>6. how = "complete" => end.said = j.noted \cup j.told /\ end.full = j.full
  BY <1>4, <1>5
<1>7. j.run \in DOMAIN runs /\ end.how = how
  BY <1>1 DEF Guarded, CollectorOwnsRun, Collecting
<1> HIDE DEF end, how
<1>8. ASSUME NEW g \in gone
      PROVE  /\ g.run \in DOMAIN runs'
             /\ Answered(runs'[g.run], g)
  <2>1. g.run \in DOMAIN runs /\ (Answered(runs[g.run], g))
    BY DEF Holes, AllReported
  <2>2. g.run = j.run => LossOf(g) \in j.noted \cup j.told \/ j.full # {}
    BY <1>1 DEF Holes, AllReported, Reported, Collecting
  <2> QED BY <1>1, <1>6, <1>7, <2>1, <2>2 DEF Answered
<1> QED BY <1>1, <1>3, <1>8, HolesAtRest

\* The operator's endpoints: a watermark an operator moves is recent enough, and
\* a deleted row claims nothing.
LEMMA OperatorHoles ==
  ASSUME Typed, Holes, OpenIsCut', NEW s \in Sources, Operator(s)
  PROVE  Holes'
<1>0. /\ cursor \in [Sources -> Row] /\ now \in Nat /\ pc \in [Threads -> PC]
      /\ \A t \in Threads : job[t] \in Job
  BY DEF Typed, TypeOK
<1>1. UNCHANGED <<now, pc, job, runs, stored, gone>>
  BY DEF Operator, ResetTo, ResetAll, ClearFailures, DeleteConnection, threadVars
<1>2. /\ \A x \in Sources \ {s} : cursor'[x] = cursor[x]
      /\ \/ cursor'[s].mark = cursor[s].mark
         \/ cursor'[s].mark = NoMark
         \/ \E days \in DaysBack : cursor'[s].mark = now - days
  <2>1. ASSUME NEW days \in DaysBack, ResetTo(s, days) PROVE <1>2!:
    BY <1>0, <2>1 DEF ResetTo
  <2>2. CASE ResetAll(s) \/ DeleteConnection(s)
    BY <1>0, <2>2 DEF ResetAll, DeleteConnection, NoRow
  <2>3. CASE ClearFailures(s)
    BY <1>0, <2>3 DEF ClearFailures, Row
  <2> QED BY <2>1, <2>2, <2>3 DEF Operator
<1>3. ASSUME NEW t \in Threads, pc[t] \in Collecting PROVE Accounted(t)'
  <2>1. PICK j \in Job : j = job[t]
    BY <1>0
  <2>2. Accounts(j, pc[t], cursor[j.src].mark, StoredIn(stored, j.src), now)
    BY <1>3, <2>1 DEF Holes, AllAccounted, Accounted
  <2>3. pc[t] = "window" => Covered(j, cursor'[j.src].mark)
    <3>1. SUFFICES ASSUME pc[t] = "window" PROVE Covered(j, cursor'[j.src].mark)
      OBVIOUS
    <3>2. j.src \in Sources /\ Covered(j, cursor[j.src].mark) /\ j.until <= now /\ j.until \in Nat
      BY <2>1, <2>2, <3>1 DEF Accounts, Typed, HoldsSource, InHand, Job
    <3>3. CASE cursor'[j.src].mark = cursor[j.src].mark
      BY <3>2, <3>3
    <3>4. CASE cursor'[j.src].mark = NoMark
      BY <3>4 DEF Covered
    <3>5. ASSUME NEW days \in DaysBack, cursor'[j.src].mark = now - days
          PROVE  Covered(j, cursor'[j.src].mark)
      <4>1. now - days >= j.until - MAX_BACKFILL
        BY <1>0, <3>2, OperatorAssumption, WindowAssumption
      <4> QED BY <3>5, <4>1 DEF Covered
    <3> QED BY <1>2, <3>2, <3>3, <3>4, <3>5
  <2>4. \A mark : (pc[t] = "window" => Covered(j, mark)) =>
          Accounts(j, pc[t], mark, StoredIn(stored, j.src), now)
    BY <2>2 DEF Accounts
  <2> QED BY <1>1, <2>1, <2>3, <2>4 DEF Accounted
<1>4. AllReported'
  BY <1>1 DEF Holes, AllReported, Reported
<1> QED BY <1>1, <1>3, <1>4 DEF Holes, AllAccounted

LEMMA InsideHoles ==
  ASSUME Typed, Typed', Guarded, Holes, OpenIsCut', NEW t \in Threads, Inside(t)
  PROVE  Holes'
<1>0. /\ pc \in [Threads -> PC] /\ job \in [Threads -> Job] /\ job' \in [Threads -> Job]
      /\ \A u \in Threads : job[u] \in Job
  BY DEF Typed, TypeOK
<1>1. /\ runs' = runs /\ pc[t] \in Collecting /\ pc'[t] \in Collecting
      /\ \A u \in Threads : pc'[u] \in Collecting => u = t
      /\ \A u \in Threads : job'[u].run = job[u].run
  BY InsideFrame DEF Guarded, OneOwner
<1>2. AllAccounted'
  <2>1. Accounted(t)'
    BY <1>0, <1>1, InsideAccounts DEF Holes, AllAccounted
  <2> QED BY <1>1, <2>1 DEF AllAccounted
<1>3. AllReported'
  <2>1. CASE Advance(t)
    BY <2>1, AdvanceReports
  <2>2. CASE ~Advance(t)
    <3>1. /\ gone' \subseteq gone
          /\ job[t].noted \subseteq job'[t].noted /\ job[t].told \subseteq job'[t].told
          /\ job[t].full \subseteq job'[t].full
      <4>1. CASE Plain(t)
        BY <1>0, <4>1, PlainKeeps
      <4>2. CASE NextSource(t)
        <5> DEFINE lost(s) == Shortfall(s, cursor[s].mark, job[t].until)
        <5>p. PICK s \in job[t].todo : \E full \in Filled(job[t].full, "summary", lost(s) # {}) :
                job' = [job EXCEPT ![t].todo = @ \ {s}, ![t].src = s, ![t].full = full,
                                   ![t].noted = @ \cup Heard(full, "summary", lost(s))]
          BY <4>2 DEF NextSource
        <5>1. PICK full \in Filled(job[t].full, "summary", lost(s) # {}) :
                job' = [job EXCEPT ![t].todo = @ \ {s}, ![t].src = s, ![t].full = full,
                                   ![t].noted = @ \cup Heard(full, "summary", lost(s))]
          BY <5>p
        <5> HIDE DEF lost
        <5>2. /\ job'[t].noted = job[t].noted \cup Heard(full, "summary", lost(s))
              /\ job'[t].told = job[t].told /\ job'[t].full = full
          BY <1>0, <5>1 DEF Job
        <5>3. gone' = gone
          BY <4>2 DEF NextSource
        <5>4. job[t].full \subseteq full
          BY DEF Filled
        <5> QED BY <5>2, <5>3, <5>4
      <4>3. CASE OpenWindow(t)
        <5> DEFINE mark == cursor[job[t].src].mark
                   start == CollectionWindow(mark, job[t].until)
        <5>1. job' = [job EXCEPT ![t].base = mark, ![t].start = start] /\ gone' = gone
          BY <4>3 DEF OpenWindow
        <5> HIDE DEF mark, start
        <5> QED BY <1>0, <5>1 DEF Job
      <4>4. CASE DispatchRaises(t)
        BY <1>0, <4>4 DEF DispatchRaises, Job
      <4>5. CASE DispatchReturns(t)
        BY <1>0, <4>5 DEF DispatchReturns, Job
      <4> QED BY <2>2, <4>1, <4>2, <4>3, <4>4, <4>5 DEF Inside, Plain
    <3> QED BY <1>1, <3>1 DEF Holes, AllReported, Reported
  <2> QED BY <2>1, <2>2
<1> QED BY <1>2, <1>3 DEF Holes

LEMMA InsertHoles ==
  ASSUME Typed, Guarded, Holes, OpenIsCut', NEW t \in Threads, InsertRun(t)
  PROVE  Holes'
<1> DEFINE new == [status |-> "running", how |-> "open", said |-> {}, full |-> {}]
           n == Len(runs) + 1
<1>0. /\ pc \in [Threads -> PC] /\ job \in [Threads -> Job] /\ runs \in Seq(Run) /\ now \in Nat
      /\ Len(runs) \in Nat /\ DOMAIN runs = 1 .. Len(runs)
  BY LenProperties DEF Typed, TypeOK
<1>1. runs' = Append(runs, new) /\ new \in Run /\ UNCHANGED <<now, gone>>
  BY DEF InsertRun, Run, How
<1>2. /\ DOMAIN runs' = 1 .. n /\ runs'[n] = new
      /\ \A i \in 1 .. Len(runs) : runs'[i] = runs[i]
  BY <1>0, <1>1, AppendProperties, LenProperties
<1>3. PICK A \in SUBSET declared :
        job' = [job EXCEPT ![t] = [NoJob EXCEPT !.run = n, !.active = A, !.until = now]]
  BY DEF InsertRun
<1>4. PICK k : k = job'[t]
  OBVIOUS
<1>5. k.run = n /\ k.until = now /\ k.told = {}
  BY <1>0, <1>3, <1>4 DEF NoJob
<1>6. /\ pc'[t] = "check"
      /\ \A u \in Threads : pc'[u] \in Collecting => u = t
  BY <1>0 DEF InsertRun, Guarded, LockHeld, CollectorOwnsRun, HasRunningRun
<1>7. \A mark, held : Accounts(k, "check", mark, held, now)
  BY <1>0, <1>5 DEF Accounts, Opened, Kept
<1>8. AllAccounted'
  BY <1>1, <1>4, <1>6, <1>7 DEF AllAccounted, Accounted
<1>9. AllReported'
  BY <1>0, <1>1, <1>2, <1>4, <1>5, <1>6 DEF Holes, AllReported, Reported
<1> QED BY <1>8, <1>9 DEF Holes

LEMMA HolesNext ==
  ASSUME Typed, Typed', Guarded, Holes, [Next]_vars
  PROVE  Holes'
<1>0. /\ pc \in [Threads -> PC] /\ now \in Nat /\ OpenIsCut' /\ \A t \in Threads : job[t] \in Job
  BY OpenIsCutNext DEF Holes, Typed, TypeOK
<1>a. OpenIsCut'
  BY OpenIsCutNext DEF Holes
<1> USE DEF processVars, threadVars
<1>1. CASE Tick
  <2>1. UNCHANGED <<pc, job, cursor, runs, stored, gone>> /\ now' = now + 1
    BY <1>1 DEF Tick
  <2>2. ASSUME NEW t \in Threads, pc[t] \in Collecting PROVE Accounted(t)'
    <3>a. PICK j \in Job : j = job[t]
      BY <1>0
    <3>1. PICK at, mark, held :
            at = pc[t] /\ mark = cursor[j.src].mark /\ held = StoredIn(stored, j.src)
      OBVIOUS
    <3>2. Accounts(j, at, mark, held, now)
      BY <2>2, <3>a, <3>1 DEF Holes, AllAccounted, Accounted
    <3>3. Accounts(j, at, mark, held, now + 1)
      BY <1>0, <3>2 DEF Accounts, Job
    <3> QED BY <2>1, <3>a, <3>1, <3>3 DEF Accounted
  <2>3. AllReported'
    BY <2>1 DEF Holes, AllReported, Reported
  <2> QED BY <1>0, <2>1, <2>2, <2>3 DEF Holes, AllAccounted
<1>2. CASE Crash
  <2>1. UNCHANGED runs /\ UNCHANGED gone /\ \A u \in Threads : pc'[u] \notin Collecting
    BY <1>2 DEF Crash, Collecting
  <2>2. \A g \in gone : /\ g.run \in DOMAIN runs'
                        /\ Answered(runs'[g.run], g)
    BY <2>1 DEF Holes, AllReported
  <2> QED BY <1>a, <2>1, <2>2, HolesAtRest
<1>3. CASE Restart
  <2>1. UNCHANGED gone /\ \A u \in Threads : pc'[u] \notin Collecting
    BY <1>3 DEF Restart, Collecting, Guarded, DownIsIdle
  <2>2. \A i \in DOMAIN runs : runs[i] \in Run
    BY DEF Typed, TypeOK
  <2>3. \A r \in Run : [r EXCEPT !.status = "failed", !.how = "reaped"].how = "reaped"
    BY DEF Run
  <2>4. DOMAIN runs' = DOMAIN runs /\ \A i \in DOMAIN runs : runs'[i].how = "reaped" \/ runs'[i] = runs[i]
    BY <1>3, <2>2, <2>3 DEF Restart
  <2>5. \A g \in gone : /\ g.run \in DOMAIN runs'
                        /\ Answered(runs'[g.run], g)
    BY <2>1, <2>4 DEF Holes, AllReported, Answered
  <2> QED BY <1>a, <2>1, <2>5, HolesAtRest
<1>4. ASSUME NEW t \in Threads, Start(t) \/ StartRefused(t) \/ StartAllowed(t) PROVE Holes'
  <2>1. /\ UNCHANGED <<now, job, cursor, runs, stored, gone>>
        /\ pc'[t] \in {"accepted", "due", "idle", "insert"}
        /\ \A u \in Threads \ {t} : pc'[u] = pc[u]
    BY <1>0, <1>4 DEF Start, Trigger, Scheduled, StartRefused, StartAllowed
  <2>2. \A u \in Threads : pc'[u] \in Collecting => pc[u] = pc'[u]
    BY <2>1 DEF Collecting
  <2>3. \A u \in Threads : pc'[u] \in Collecting => Accounted(u)'
    BY <2>1, <2>2 DEF Holes, AllAccounted, Accounted
  <2>4. AllReported'
    BY <2>1, <2>2 DEF Holes, AllReported, Reported
  <2> QED BY <1>0, <2>3, <2>4 DEF Holes, AllAccounted
<1>5. ASSUME NEW t \in Threads, InsertRun(t) PROVE Holes'
  BY <1>0, <1>5, InsertHoles
<1>6. ASSUME NEW t \in Threads, Inside(t) PROVE Holes'
  BY <1>0, <1>6, InsideHoles
<1>7. ASSUME NEW t \in Threads, Finish(t) PROVE Holes'
  BY <1>0, <1>7, FinishHoles
<1>8. ASSUME NEW t \in Threads, FinishRaises(t) PROVE Holes'
  <2>1. UNCHANGED runs /\ UNCHANGED gone /\ \A u \in Threads : pc'[u] \notin Collecting
    BY <1>0, <1>8 DEF FinishRaises, Guarded, OneOwner, Collecting
  <2>2. \A g \in gone : /\ g.run \in DOMAIN runs'
                        /\ Answered(runs'[g.run], g)
    BY <2>1 DEF Holes, AllReported
  <2> QED BY <1>a, <2>1, <2>2, HolesAtRest
<1>9. ASSUME NEW s \in Sources, Operator(s) PROVE Holes'
  BY <1>0, <1>9, OperatorHoles
<1>10. CASE BoundsReached \/ UNCHANGED vars
  <2>1. UNCHANGED vars
    BY <1>10 DEF BoundsReached
  <2> QED BY <1>0, <2>1 DEF vars, Holes, AllAccounted, Accounted, AllReported, Reported
<1> QED
  BY <1>1, <1>2, <1>3, <1>4, <1>5, <1>6, <1>7, <1>8, <1>9, <1>10 DEF Next, Step, Inside

LEMMA HolesHold == Spec => []Holes
<1>1. Typed /\ Typed' /\ Guarded /\ Holes /\ [Next]_vars => Holes'
  BY HolesNext
<1> QED BY <1>1, GuardHolds, HolesInit, PTL DEF Spec

\* Whatever the backfill cap and an exhausted streak let a watermark skip, a run
\* that completed names it in its summary or its error, or one of the two is cut
\* off at MAX_PERSISTED_CHARS: no hole behind texts that are whole, whichever way
\* the operator moves or deletes the watermark while the run collects
\* (backfill_shortfall, record_failure and the finally block of execute_run).
THEOREM HolesAreSaid == Spec => []NoSilentHole
<1>1. Holes => NoSilentHole
  BY DEF Holes, AllReported, Answered, LossOf, NoSilentHole
<1> QED BY <1>1, HolesHold, PTL

-----------------------------------------------------------------------------
(* Streaks.  A run cut short between a failure it counted and the watermark *)
(* it would have moved leaves the streak one longer than the limit allows.  *)

Cut == {i \in DOMAIN runs : runs[i].how # "complete"}
Cuts == Cardinality(Cut)

\* The run in flight counts as cut short until it is complete: a source it has
\* not failed yet, or has answered, keeps one run's distance from the bound.
Behind(s) == cursor[s].fails + 1 < MAX_STUCK_RUNS + Cuts
Unanswered(t, s) ==
  \/ s = job[t].src /\ (pc[t] = "streak" \/ (pc[t] \in {"read", "commit"} /\ job[t].op = "advance"))
  \/ pc[t] = "finish" /\ job[t].fatal
StreaksOf(t) ==
  /\ \A s \in Sources : Unanswered(t, s) \/ Behind(s)
  /\ pc[t] = "commit" /\ job[t].op = "failure" => job[t].snap.fails + 1 < MAX_STUCK_RUNS + Cuts
Bounded == \A s \in Sources : cursor[s].fails < MAX_STUCK_RUNS + Cuts
Streaks == Bounded /\ \A t \in Threads : pc[t] \in Collecting => StreaksOf(t)

\* The run table is finite, so the runs cut short can be counted.
LEMMA CutCounts ==
  ASSUME runs \in Seq(Run)
  PROVE  /\ IsFiniteSet(Cut) /\ Cuts \in Nat
         /\ \A i \in Cut : Cuts >= 1
<1>1. Len(runs) \in Nat /\ DOMAIN runs = 1 .. Len(runs)
  BY LenProperties
<1>2. IsFiniteSet(DOMAIN runs)
  BY <1>1, FS_Interval
<1>3. IsFiniteSet(Cut)
  BY <1>2, FS_Subset DEF Cut
<1>4. Cuts \in Nat
  BY <1>3, FS_CardinalityType DEF Cuts
<1>5. ASSUME NEW i \in Cut PROVE Cuts >= 1
  <2>1. Cuts # 0
    BY <1>3, <1>5, FS_EmptySet DEF Cuts
  <2> QED BY <1>4, <2>1
<1> QED BY <1>3, <1>4, <1>5

LEMMA CutSame ==
  ASSUME Cut' = Cut
  PROVE  Cuts' = Cuts
BY DEF Cuts

\* A thread that collects has its own run among those cut short.
LEMMA CollectorCuts ==
  ASSUME Typed, Guarded, Holes, NEW t \in Threads, pc[t] \in Collecting
  PROVE  job[t].run \in Cut /\ Cuts \in Nat /\ Cuts >= 1
<1>1. runs \in Seq(Run)
  BY DEF Typed, TypeOK
<1>2. job[t].run \in Cut
  BY DEF Guarded, CollectorOwnsRun, Holes, OpenIsCut, Cut
<1> QED BY <1>1, <1>2, CutCounts

LEMMA InsideStreaks ==
  ASSUME Typed, Guarded, Holes, Streaks, NEW t \in Threads, Inside(t)
  PROVE  Streaks'
<1>0. /\ pc \in [Threads -> PC] /\ job \in [Threads -> Job] /\ cursor \in [Sources -> Row]
      /\ \A s \in Sources : cursor[s].fails \in Nat
  BY DEF Typed, TypeOK, Row
<1>1. /\ runs' = runs /\ pc[t] \in Collecting
      /\ \A u \in Threads : pc'[u] \in Collecting => u = t
  BY InsideFrame DEF Guarded, OneOwner
<1>2. PICK bound : bound = MAX_STUCK_RUNS + Cuts
  OBVIOUS
<1>3. bound \in Nat /\ 2 <= bound /\ MAX_STUCK_RUNS < bound
  BY <1>1, <1>2, CollectorCuts, StuckAssumption
<1>4. Cuts' = Cuts
  BY <1>1, CutSame DEF Cut
<1>5. StreaksOf(t) /\ Bounded
  BY <1>1 DEF Streaks
<1>6. SUFFICES /\ \A s \in Sources : cursor'[s].fails < bound
               /\ \A s \in Sources : Unanswered(t, s)' \/ cursor'[s].fails + 1 < bound
               /\ pc'[t] = "commit" /\ job'[t].op = "failure" => job'[t].snap.fails + 1 < bound
  BY <1>1, <1>2, <1>4, <1>6 DEF Streaks, Bounded, StreaksOf, Behind
<1>7. /\ \A s \in Sources : cursor[s].fails < bound
      /\ \A s \in Sources : Unanswered(t, s) \/ cursor[s].fails + 1 < bound
      /\ pc[t] = "commit" /\ job[t].op = "failure" => job[t].snap.fails + 1 < bound
  BY <1>2, <1>5 DEF StreaksOf, Behind, Bounded
<1>8. CASE HealthCheck(t) \/ NextSource(t) \/ OpenWindow(t) \/ LoopDone(t) \/ DispatchRaises(t)
           \/ DispatchReturns(t) \/ StoreItems(t)
  <2>1. pc[t] \in {"check", "loop", "window", "dispatch", "store"} /\ pc'[t] # "commit" /\ cursor' = cursor
    BY <1>0, <1>8 DEF HealthCheck, NextSource, OpenWindow, LoopDone, DispatchRaises, DispatchReturns, StoreItems
  <2>2. \A s \in Sources : ~Unanswered(t, s)
    BY <2>1 DEF Unanswered
  <2> QED BY <1>7, <2>1, <2>2
<1>9. CASE HealthRaises(t) \/ StoreRaises(t) \/ RowConflict(t) \/ StreakUnreadable(t)
  <2>1. pc'[t] = "finish" /\ cursor' = cursor /\ job'[t].fatal
    BY <1>0, <1>9 DEF HealthRaises, StoreRaises, RowConflict, StreakUnreadable, Die, Job
  <2> QED BY <1>7, <2>1 DEF Unanswered
<1>10. CASE ReadRow(t)
  <2> DEFINE src == job[t].src
  <2>1. /\ pc[t] = "read" /\ pc'[t] = "commit" /\ cursor' = cursor
        /\ job'[t].src = src /\ job'[t].op = job[t].op /\ job'[t].snap = cursor[src] /\ src \in Sources
    BY <1>0, <1>10 DEF ReadRow, Job, Typed, HoldsSource, InHand
  <2>2. \A s \in Sources : Unanswered(t, s)' <=> Unanswered(t, s)
    BY <2>1 DEF Unanswered
  <2>3. job[t].op = "failure" => ~Unanswered(t, src)
    BY <2>1 DEF Unanswered
  <2> QED BY <1>7, <2>1, <2>2, <2>3
<1>11. CASE RecordAttempt(t)
  <2>1. /\ pc[t] = "commit" /\ job[t].op = "attempt" /\ pc'[t] = "read"
        /\ \A s \in Sources : cursor'[s].fails = cursor[s].fails
    BY <1>0, <1>11 DEF RecordAttempt, RowWritable, Row
  <2>2. \A s \in Sources : ~Unanswered(t, s)
    BY <2>1 DEF Unanswered
  <2> QED BY <1>7, <2>1, <2>2
<1>12. CASE RecordFailure(t)
  <2> DEFINE src == job[t].src
  <2>1. /\ pc[t] = "commit" /\ job[t].op = "failure" /\ pc'[t] = "streak" /\ job' = job
        /\ cursor' = [cursor EXCEPT ![src].present = TRUE, ![src].fails = job[t].snap.fails + 1]
    BY <1>0, <1>12 DEF RecordFailure, RowWritable
  <2>2. \A s \in Sources : s # src => cursor'[s] = cursor[s]
    BY <1>0, <2>1
  <2>3. src \in Sources => cursor'[src].fails = job[t].snap.fails + 1
    BY <1>0, <2>1 DEF Row
  <2>4. job[t].snap.fails \in Nat
    BY <1>0 DEF Job, Row
  <2>5. Unanswered(t, src)' /\ \A s \in Sources : s # src => ~Unanswered(t, s)
    BY <2>1 DEF Unanswered
  <2> QED BY <1>3, <1>7, <2>1, <2>2, <2>3, <2>4, <2>5
<1>13. CASE StreakHolds(t)
  <2> DEFINE src == job[t].src
  <2>1. /\ pc[t] = "streak" /\ pc'[t] = "loop" /\ cursor' = cursor
        /\ cursor[src].fails < MAX_STUCK_RUNS
    BY <1>0, <1>13 DEF StreakHolds
  <2>2. src \in Sources => cursor[src].fails + 1 < bound
    BY <1>0, <1>3, <2>1, StuckAssumption
  <2>3. \A s \in Sources : s # src => ~Unanswered(t, s)
    BY <2>1 DEF Unanswered
  <2> QED BY <1>7, <2>1, <2>2, <2>3
<1>14. CASE StreakExhausted(t)
  <2>1. /\ pc[t] = "streak" /\ pc'[t] = "read" /\ cursor' = cursor
        /\ job'[t].src = job[t].src /\ job'[t].op = "advance"
    BY <1>0, <1>14 DEF StreakExhausted, Job
  <2>2. \A s \in Sources : Unanswered(t, s) => Unanswered(t, s)'
    BY <2>1 DEF Unanswered
  <2> QED BY <1>7, <2>1, <2>2
<1>15. CASE Advance(t)
  <2> DEFINE src == job[t].src
             row == [present |-> TRUE, mark |-> job[t].until, fails |-> 0]
  <2>1. /\ pc[t] = "commit" /\ pc'[t] = "loop" /\ cursor' = [cursor EXCEPT ![src] = row]
    BY <1>0, <1>15 DEF Advance, RowWritable
  <2>2. row.fails = 0
    OBVIOUS
  <2> HIDE DEF row
  <2>3. \A s \in Sources : IF s = src THEN cursor'[s].fails = 0 ELSE cursor'[s] = cursor[s]
    BY <1>0, <2>1, <2>2
  <2>4. \A s \in Sources : s # src => ~Unanswered(t, s)
    BY <2>1 DEF Unanswered
  <2> QED BY <1>3, <1>7, <2>1, <2>3, <2>4
<1> QED
  BY <1>8, <1>9, <1>10, <1>11, <1>12, <1>13, <1>14, <1>15 DEF Inside

\* A step after which no thread collects, and which leaves the streaks as they are.
LEMMA StreaksAtRest ==
  ASSUME Bounded', \A u \in Threads : pc'[u] \notin Collecting
  PROVE  Streaks'
BY DEF Streaks

LEMMA OperatorStreaks ==
  ASSUME Typed, Guarded, Holes, Streaks, NEW s \in Sources, Operator(s)
  PROVE  Streaks'
<1>0. /\ cursor \in [Sources -> Row] /\ runs \in Seq(Run)
      /\ \A x \in Sources : cursor[x].fails \in Nat
  BY DEF Typed, TypeOK, Row
<1>1. /\ pc' = pc /\ job' = job /\ runs' = runs
      /\ \A x \in Sources : cursor'[x].fails = cursor[x].fails \/ cursor'[x].fails = 0
  <2>1. ASSUME NEW days \in DaysBack, ResetTo(s, days) PROVE <1>1!:
    BY <1>0, <2>1 DEF ResetTo, threadVars
  <2>2. CASE ResetAll(s) \/ DeleteConnection(s)
    BY <1>0, <2>2 DEF ResetAll, DeleteConnection, NoRow, threadVars
  <2>3. CASE ClearFailures(s)
    BY <1>0, <2>3 DEF ClearFailures, Row, threadVars
  <2> QED BY <2>1, <2>2, <2>3 DEF Operator
<1>2. PICK bound : bound = MAX_STUCK_RUNS + Cuts
  OBVIOUS
<1>3. bound \in Nat /\ 1 <= bound /\ Cuts' = Cuts
  BY <1>0, <1>1, <1>2, CutCounts, CutSame, StuckAssumption DEF Cut
<1>4. Bounded'
  BY <1>0, <1>1, <1>2, <1>3 DEF Streaks, Bounded
<1>5. ASSUME NEW t \in Threads, pc'[t] \in Collecting PROVE StreaksOf(t)'
  <2>1. StreaksOf(t) /\ 2 <= bound
    BY <1>1, <1>2, <1>5, CollectorCuts, StuckAssumption DEF Streaks
  <2>2. \A x \in Sources : Unanswered(t, x)' <=> Unanswered(t, x)
    BY <1>1 DEF Unanswered
  <2>3. \A x \in Sources : cursor[x].fails + 1 < bound => cursor'[x].fails + 1 < bound
    BY <1>0, <1>1, <1>3, <2>1
  <2> QED BY <1>1, <1>2, <1>3, <2>1, <2>2, <2>3 DEF StreaksOf, Behind
<1> QED BY <1>4, <1>5 DEF Streaks

LEMMA InsertStreaks ==
  ASSUME Typed, Guarded, Streaks, NEW t \in Threads, InsertRun(t)
  PROVE  Streaks'
<1> DEFINE new == [status |-> "running", how |-> "open", said |-> {}, full |-> {}]
           n == Len(runs) + 1
<1>0. /\ pc \in [Threads -> PC] /\ runs \in Seq(Run) /\ \A s \in Sources : cursor[s].fails \in Nat
      /\ Len(runs) \in Nat /\ DOMAIN runs = 1 .. Len(runs)
  BY LenProperties DEF Typed, TypeOK, Row
<1>1. runs' = Append(runs, new) /\ new \in Run /\ UNCHANGED cursor
  BY DEF InsertRun, Run, How
<1>2. /\ DOMAIN runs' = 1 .. n /\ runs'[n] = new
      /\ \A i \in 1 .. Len(runs) : runs'[i] = runs[i]
  BY <1>0, <1>1, AppendProperties, LenProperties
<1>3. Cut' = Cut \cup {n} /\ n \notin Cut
  BY <1>0, <1>2 DEF Cut
<1>4. Cuts \in Nat /\ Cuts' = Cuts + 1
  BY <1>0, <1>3, CutCounts, FS_AddElement DEF Cuts
<1>5. /\ pc'[t] = "check"
      /\ \A u \in Threads : pc'[u] \in Collecting => u = t
  BY <1>0 DEF InsertRun, Guarded, LockHeld, CollectorOwnsRun, HasRunningRun
<1>6. \A s \in Sources : cursor'[s].fails + 1 < MAX_STUCK_RUNS + Cuts'
  BY <1>0, <1>1, <1>4, StuckAssumption DEF Streaks, Bounded
<1>7. Bounded'
  BY <1>0, <1>1, <1>4, <1>6, StuckAssumption DEF Bounded
<1>8. StreaksOf(t)'
  BY <1>5, <1>6 DEF StreaksOf, Behind
<1> QED BY <1>5, <1>7, <1>8 DEF Streaks

LEMMA FinishStreaks ==
  ASSUME Typed, Guarded, Holes, Streaks, NEW t \in Threads, Finish(t)
  PROVE  Streaks'
<1> DEFINE j == job[t]
           tier == Summarize(j.active, j.sick, j.failed, j.partial)
           error == IF j.fatal \/ tier = "success" THEN {} ELSE j.told
           end == [status |-> IF j.fatal THEN "failed" ELSE tier,
                   how |-> IF j.fatal THEN "fatal" ELSE "complete", said |-> j.noted \cup error,
                   full |-> IF j.fatal THEN j.full \ {"error"} ELSE j.full]
<1>0. /\ pc \in [Threads -> PC] /\ runs \in Seq(Run) /\ \A s \in Sources : cursor[s].fails \in Nat
  BY DEF Typed, TypeOK, Row
<1>1. /\ runs' = [runs EXCEPT ![j.run] = end] /\ pc[t] = "finish" /\ pc' = [pc EXCEPT ![t] = "idle"]
      /\ cursor' = cursor
  BY DEF Finish
<1>2. \A u \in Threads : pc'[u] \notin Collecting
  BY <1>0, <1>1 DEF Guarded, OneOwner, Collecting
<1>3. end.how = IF j.fatal THEN "fatal" ELSE "complete"
  OBVIOUS
<1>4. pc[t] \in Collecting
  BY <1>1 DEF Collecting
<1>5. j.run \in Cut /\ Cuts \in Nat /\ IsFiniteSet(Cut)
  BY <1>0, <1>4, CollectorCuts, CutCounts
<1> HIDE DEF end
<1>6. CASE j.fatal
  <2>1. Cut' = Cut
    BY <1>1, <1>3, <1>5, <1>6 DEF Cut
  <2>2. Bounded'
    BY <1>1, <2>1, CutSame DEF Streaks, Bounded
  <2> QED BY <1>2, <2>2, StreaksAtRest
<1>7. CASE ~j.fatal
  <2>1. Cut' = Cut \ {j.run}
    BY <1>1, <1>3, <1>5, <1>7 DEF Cut
  <2>2. Cuts' = Cuts - 1
    BY <1>5, <2>1, FS_RemoveElement DEF Cuts
  <2>3. \A s \in Sources : cursor[s].fails + 1 < MAX_STUCK_RUNS + Cuts
    BY <1>1, <1>4, <1>7 DEF Streaks, StreaksOf, Unanswered, Behind
  <2>4. Bounded'
    BY <1>0, <1>1, <1>5, <2>2, <2>3, StuckAssumption DEF Bounded
  <2> QED BY <1>2, <2>4, StreaksAtRest
<1> QED BY <1>6, <1>7

LEMMA StreaksInit == Init => Streaks
<1> SUFFICES ASSUME Init PROVE Streaks
  OBVIOUS
<1>1. runs \in Seq(Run)
  BY DEF Init
<1>2. \A s \in Sources : cursor[s].fails = 0
  BY DEF Init, NoRow
<1>3. Bounded
  BY <1>1, <1>2, CutCounts, StuckAssumption DEF Bounded
<1> QED BY <1>3 DEF Init, Streaks, Collecting

LEMMA StreaksNext ==
  ASSUME Typed, Guarded, Holes, Streaks, [Next]_vars
  PROVE  Streaks'
<1>0. pc \in [Threads -> PC] /\ \A i \in DOMAIN runs : runs[i] \in Run
  BY DEF Typed, TypeOK
<1> USE DEF processVars, threadVars
<1>1. CASE Tick \/ BoundsReached \/ UNCHANGED vars
  <2>1. pc' = pc /\ job' = job /\ cursor' = cursor /\ runs' = runs
    BY <1>1 DEF Tick, BoundsReached, vars
  <2>2. Cuts' = Cuts
    BY <2>1, CutSame DEF Cut
  <2> QED BY <2>1, <2>2 DEF Streaks, Bounded, StreaksOf, Behind, Unanswered
<1>2. CASE Crash
  <2>1. runs' = runs /\ cursor' = cursor /\ \A u \in Threads : pc'[u] \notin Collecting
    BY <1>2 DEF Crash, Collecting
  <2>2. Bounded'
    BY <2>1, CutSame DEF Streaks, Bounded, Cut
  <2> QED BY <2>1, <2>2, StreaksAtRest
<1>3. CASE Restart
  <2>1. cursor' = cursor /\ \A u \in Threads : pc'[u] \notin Collecting
    BY <1>3 DEF Restart, Collecting, Guarded, DownIsIdle
  <2>2. \A r \in Run : [r EXCEPT !.status = "failed", !.how = "reaped"].how = "reaped"
    BY DEF Run
  <2>3. /\ DOMAIN runs' = DOMAIN runs
        /\ \A i \in DOMAIN runs : \/ Running(runs[i]) /\ runs'[i].how = "reaped"
                                  \/ runs'[i] = runs[i]
    BY <1>0, <1>3, <2>2 DEF Restart
  <2>4. Cut' = Cut
    BY <2>3 DEF Cut, Holes, OpenIsCut
  <2>5. Bounded'
    BY <2>1, <2>4, CutSame DEF Streaks, Bounded
  <2> QED BY <2>1, <2>5, StreaksAtRest
<1>4. ASSUME NEW t \in Threads, Start(t) \/ StartRefused(t) \/ StartAllowed(t) PROVE Streaks'
  <2>1. /\ job' = job /\ cursor' = cursor /\ runs' = runs
        /\ pc'[t] \in {"accepted", "due", "idle", "insert"}
        /\ \A u \in Threads \ {t} : pc'[u] = pc[u]
    BY <1>0, <1>4 DEF Start, Trigger, Scheduled, StartRefused, StartAllowed
  <2>2. \A u \in Threads : pc'[u] \in Collecting => pc'[u] = pc[u]
    BY <2>1 DEF Collecting
  <2>3. Cuts' = Cuts
    BY <2>1, CutSame DEF Cut
  <2> QED BY <2>1, <2>2, <2>3 DEF Streaks, Bounded, StreaksOf, Behind, Unanswered
<1>5. ASSUME NEW t \in Threads, InsertRun(t) PROVE Streaks'
  BY <1>5, InsertStreaks
<1>6. ASSUME NEW t \in Threads, Inside(t) PROVE Streaks'
  BY <1>6, InsideStreaks
<1>7. ASSUME NEW t \in Threads, Finish(t) PROVE Streaks'
  BY <1>7, FinishStreaks
<1>8. ASSUME NEW t \in Threads, FinishRaises(t) PROVE Streaks'
  <2>1. runs' = runs /\ cursor' = cursor /\ \A u \in Threads : pc'[u] \notin Collecting
    BY <1>0, <1>8 DEF FinishRaises, Guarded, OneOwner, Collecting
  <2>2. Bounded'
    BY <2>1, CutSame DEF Streaks, Bounded, Cut
  <2> QED BY <2>1, <2>2, StreaksAtRest
<1>9. ASSUME NEW s \in Sources, Operator(s) PROVE Streaks'
  BY <1>9, OperatorStreaks
<1> QED
  BY <1>1, <1>2, <1>3, <1>4, <1>5, <1>6, <1>7, <1>8, <1>9 DEF Next, Step, Inside

\* A source that fails every run is not pinned at its old watermark: whatever
\* run it fails in, and whoever clears or deletes its row, its streak exceeds the
\* limit by no more than the number of runs that were cut short
\* (record_failure, and the give-up branch after it in execute_run).
THEOREM StreaksAreAnswered == Spec => []NoPinnedWatermark
<1>1. Typed /\ Guarded /\ Holes /\ Streaks /\ [Next]_vars => Streaks'
  BY StreaksNext
<1>2. Streaks => NoPinnedWatermark
  BY DEF Streaks, Bounded, Cuts, Cut, NoPinnedWatermark
<1> QED BY <1>1, <1>2, StreaksInit, GuardHolds, HolesHold, PTL DEF Spec

=============================================================================

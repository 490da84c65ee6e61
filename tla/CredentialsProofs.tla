--------------------------- MODULE CredentialsProofs ---------------------------
(***************************************************************************)
(* Theorems about Credentials.                                             *)
(***************************************************************************)
EXTENDS Credentials, TLAPS

SignPcs == {"consume"} \cup FinishPcs

-----------------------------------------------------------------------------
(* Types *)

\* A sign-in at work is a request of the API for a sign-in that was started.
AtWork(t) ==
  /\ task[t].pc \in SignPcs => /\ t \in ApiThreads
                               /\ task[t].flow \in Flows /\ owner[task[t].flow] # "none"
                               /\ task[t].path \in Providers
  /\ task[t].pc \in ZoomPcs => "zoom" \in Providers
ConnTyped == \A p \in Providers : conn[p] = -1 \/ conn[p] \in Nat
Typed == TypeOK /\ ConnTyped /\ \A t \in Threads : AtWork(t)

LEMMA WayFacts ==
  /\ Providers \subseteq DOMAIN Way
  /\ DOMAIN Way = {"google", "microsoft", "wordpress", "zoom"}
  /\ \A p \in DOMAIN Way : /\ Way[p].cached <=> p = "microsoft"
                           /\ Way[p].rotates <=> p = "zoom"
BY ThreadAssumption DEF Way, Google, Microsoft, WordPress, Zoom

LEMMA IdleFacts ==
  /\ Idle \in Task
  /\ Idle.pc = "idle" /\ Idle.flow = 0
<1>1. "none" \in DOMAIN Way \cup {"none"} OBVIOUS
<1>2. QED BY <1>1 DEF Idle, Task

\* What an assignment to one thread's task leaves behind.
LEMMA Moved ==
  ASSUME task \in [Threads -> Task], NEW t \in Threads, NEW r \in Task, Do(t, r)
  PROVE  /\ task' \in [Threads -> Task]
         /\ task'[t] = r
         /\ \A u \in Threads \ {t} : task'[u] = task[u]
BY DEF Do

LEMMA MovedTyped ==
  ASSUME Typed, NEW t \in Threads, NEW r \in Task, Do(t, r), owner' = owner,
         r.pc \in SignPcs => /\ t \in ApiThreads /\ r.path \in Providers
                             /\ r.flow \in Flows /\ owner[r.flow] # "none",
         r.pc \in ZoomPcs => "zoom" \in Providers
  PROVE  task' \in [Threads -> Task] /\ \A u \in Threads : AtWork(u)'
<1>1. task \in [Threads -> Task] /\ \A u \in Threads : AtWork(u) BY DEF Typed, TypeOK
<1>2. task' \in [Threads -> Task] /\ task'[t] = r /\ \A u \in Threads \ {t} : task'[u] = task[u]
  BY <1>1, Moved
<1>3. ASSUME NEW u \in Threads PROVE AtWork(u)'
  BY <1>1, <1>2 DEF AtWork
<1>4. QED BY <1>2, <1>3

\* A task changed in the fields the actions change together.
LEMMA Stepped ==
  ASSUME NEW k \in Task, NEW pc \in {"idle", "consume", "silent"} \cup FinishPcs \cup ZoomPcs,
         NEW token \in Nat, NEW old \in Nat, NEW loaded \in SUBSET Flows, NEW ok \in BOOLEAN
  PROVE  /\ [k EXCEPT !.pc = pc] \in Task
         /\ [k EXCEPT !.pc = pc, !.ok = ok] \in Task
         /\ [k EXCEPT !.pc = pc, !.token = token] \in Task
         /\ [k EXCEPT !.pc = pc, !.loaded = loaded] \in Task
         /\ [k EXCEPT !.pc = pc, !.old = old, !.token = token] \in Task
BY DEF Task

LEMMA CountedTyped ==
  ASSUME NEW old, old \in [{"consumed", "issued", "ops", "faults"} -> Nat],
         NEW kind \in {"consumed", "issued", "ops", "faults"}
  PROVE  [old EXCEPT ![kind] = @ + 1] \in [{"consumed", "issued", "ops", "faults"} -> Nat]
OBVIOUS

LEMMA InitTyped == Init => Typed
<1> SUFFICES ASSUME Init PROVE Typed
  OBVIOUS
<1>1. \A t \in Threads : task[t] = Idle /\ task[t] \in Task
  BY IdleFacts DEF Init
<1>2. \A t \in Threads : AtWork(t)
  BY <1>1, IdleFacts DEF AtWork, SignPcs, FinishPcs, ZoomPcs
<1>3. ConnTyped
  BY DEF Init, ConnTyped
<1>4. task \in [Threads -> Task]
  BY IdleFacts DEF Init
<1>5. tally \in [{"consumed", "issued", "ops", "faults"} -> Nat]
  BY DEF Init
<1>6. seen \in [codes : [Flows -> Nat], kept : SUBSET Flows, spent : SUBSET Nat, lost : SUBSET Nat]
  BY DEF Init
<1>7. TypeOK
  BY <1>4, <1>5, <1>6 DEF Init, TypeOK
<1>8. QED BY <1>2, <1>3, <1>7 DEF Typed

SeenTyped == seen \in [codes : [Flows -> Nat], kept : SUBSET Flows, spent : SUBSET Nat, lost : SUBSET Nat]
TallyTyped == tally \in [{"consumed", "issued", "ops", "faults"} -> Nat]

\* The step of one thread, whatever it does to the rest.
LEMMA ThreadTyped ==
  ASSUME Typed, NEW t \in Threads, NEW r \in Task, Do(t, r), owner' = owner, expired' = expired,
         r.pc \in SignPcs => /\ t \in ApiThreads /\ r.path \in Providers
                             /\ r.flow \in Flows /\ owner[r.flow] # "none",
         r.pc \in ZoomPcs => "zoom" \in Providers,
         flows' \subseteq Flows, outcomes' \subseteq Outcome,
         conn' \in [Providers -> Int], ConnTyped', file' \subseteq Flows,
         live' \in Nat, cache' \in [Procs -> Nat], SeenTyped', TallyTyped'
  PROVE  Typed'
<1>1. task' \in [Threads -> Task] /\ \A u \in Threads : AtWork(u)'
  BY MovedTyped
<1>2. owner' \in [Flows -> Providers \cup {"none"}] /\ expired' \subseteq Flows
  BY DEF Typed, TypeOK
<1>3. TypeOK'
  BY <1>1, <1>2 DEF TypeOK, SeenTyped, TallyTyped
<1>4. QED BY <1>1, <1>3 DEF Typed

LEMMA TypedFacts ==
  ASSUME Typed, NEW t \in Threads
  PROVE  /\ task \in [Threads -> Task] /\ task[t] \in Task
         /\ AtWork(t) /\ ConnTyped /\ SeenTyped /\ TallyTyped
         /\ flows \subseteq Flows /\ outcomes \subseteq Outcome
         /\ owner \in [Flows -> Providers \cup {"none"}] /\ expired \subseteq Flows
         /\ conn \in [Providers -> Int] /\ file \subseteq Flows /\ live \in Nat
         /\ cache \in [Procs -> Nat]
BY DEF Typed, TypeOK, SeenTyped, TallyTyped

\* The new task of a thread is its old one at another pc, and the rest is typed.
LEMMA StoreFacts ==
  ASSUME Typed, NEW f \in Flows, NEW keep \in {0, f}
  PROVE  /\ Purged(flows, keep) \subseteq Flows
         /\ Consumed(f) \subseteq Flows
         /\ PurgedOutcomes \subseteq Outcome
         /\ Newest(Purged(flows, 0) \cup {f}) \subseteq Flows
BY DEF Typed, TypeOK, Purged, Consumed, PurgedOutcomes, Newest

LEMMA RecordedTyped ==
  ASSUME NEW o \in Outcome, NEW f, NEW ok \in BOOLEAN
  PROVE  Recorded(o, f, ok) \in Outcome
<1>1. ASSUME NEW status \in {"pending", "ok", "error"} PROVE [o EXCEPT !.status = status] \in Outcome
  BY DEF Outcome
<1>2. QED BY <1>1 DEF Recorded

LEMMA SignInTyped ==
  ASSUME Typed, NEW t \in Threads, SignIn(t)
  PROVE  Typed'
<1>0. /\ task \in [Threads -> Task] /\ task[t] \in Task
      /\ AtWork(t) /\ ConnTyped /\ SeenTyped /\ TallyTyped
      /\ flows \subseteq Flows /\ outcomes \subseteq Outcome
      /\ conn \in [Providers -> Int] /\ file \subseteq Flows /\ live \in Nat
      /\ cache \in [Procs -> Nat]
  BY TypedFacts
<1>1. CASE Consume(t)
  <2> DEFINE r == [task[t] EXCEPT !.pc = "finish"]
  <2>1. task[t].flow \in Flows /\ task[t].path \in Providers /\ t \in ApiThreads
        /\ owner[task[t].flow] # "none"
    BY <1>0, <1>1 DEF Consume, At, AtWork, SignPcs
  <2>2. r \in Task /\ r.pc = "finish" /\ r.flow = task[t].flow /\ r.path = task[t].path
    BY <1>0, Stepped, ZenonT(40) DEF FinishPcs, Task
  <2>3. TallyTyped' /\ tally'.consumed \in Nat
    BY <1>0, <1>1, CountedTyped DEF Consume, TallyTyped
  <2>4. [flow |-> task[t].flow, status |-> "pending", nth |-> tally'.consumed] \in Outcome
    BY <2>1, <2>3 DEF Outcome
  <2>5. outcomes' \subseteq Outcome
    BY <1>1, <2>1, <2>4, StoreFacts DEF Consume, LastFew
  <2>6. flows' \subseteq Flows
    BY <1>1, <2>1, StoreFacts DEF Consume
  <2>7. Do(t, r) /\ owner' = owner /\ expired' = expired /\ UNCHANGED tokens /\ UNCHANGED seen
    BY <1>1 DEF Consume, To
  <2> HIDE DEF r
  <2>8. QED
    BY <1>0, <2>1, <2>2, <2>3, <2>5, <2>6, <2>7, ThreadTyped
       DEF tokens, ConnTyped, SeenTyped, ZoomPcs
<1>2. CASE ConsumeRefused(t)
  BY <1>0, <1>2, IdleFacts, StoreFacts, ThreadTyped
     DEF ConsumeRefused, At, AtWork, SignPcs, FinishPcs, ZoomPcs, tokens, ConnTyped, SeenTyped, TallyTyped
<1>3. CASE Settle(t)
  <2>1. outcomes' \subseteq Outcome
    BY <1>0, <1>3, RecordedTyped DEF Settle, Task
  <2>2. QED
    BY <1>0, <1>3, <2>1, IdleFacts, ThreadTyped
       DEF Settle, SignPcs, FinishPcs, ZoomPcs, tokens, ConnTyped, SeenTyped, TallyTyped
<1>4. ASSUME NEW ok \in BOOLEAN, NEW pc \in FinishPcs, task[t].pc \in FinishPcs,
             Do(t, [task[t] EXCEPT !.pc = pc, !.ok = ok]), UNCHANGED <<store, owner, expired, live, cache>>,
             ConnTyped', conn' \in [Providers -> Int], file' \subseteq Flows, SeenTyped', TallyTyped'
      PROVE  Typed'
  <2> DEFINE r == [task[t] EXCEPT !.pc = pc, !.ok = ok]
  <2>1. task[t].flow \in Flows /\ task[t].path \in Providers /\ t \in ApiThreads
        /\ owner[task[t].flow] # "none"
    BY <1>0, <1>4 DEF AtWork, SignPcs
  <2>2. r \in Task /\ r.pc \in FinishPcs /\ r.flow = task[t].flow /\ r.path = task[t].path
    BY <1>0, <1>4, Stepped DEF Task
  <2>3. r.pc \notin ZoomPcs
    BY <2>2 DEF FinishPcs, ZoomPcs
  <2>4. Do(t, r)
    BY <1>4
  <2> HIDE DEF r
  <2>5. QED
    BY <1>0, <1>4, <2>1, <2>2, <2>3, <2>4, ThreadTyped DEF store
<1>5. CASE FinishRefused(t)
  BY <1>0, <1>4, <1>5 DEF FinishRefused, Fails, At, tokens, ConnTyped, SeenTyped, TallyTyped, FinishPcs
<1>6. CASE Finish(t)
  <2> DEFINE loaded == IF Way[task[t].path].cached THEN file ELSE {}
             r == [task[t] EXCEPT !.pc = "exchange", !.loaded = loaded]
  <2>1. task[t].flow \in Flows /\ task[t].path \in Providers /\ t \in ApiThreads
        /\ owner[task[t].flow] # "none"
    BY <1>0, <1>6 DEF Finish, At, AtWork, SignPcs, FinishPcs
  <2>2. loaded \in SUBSET Flows
    BY <1>0
  <2>3. Do(t, r)
    BY <1>6 DEF Finish
  <2>a. ASSUME NEW l \in SUBSET Flows, NEW k \in Task
        PROVE  [k EXCEPT !.pc = "exchange", !.loaded = l] \in Task
    BY Stepped DEF FinishPcs
  <2> HIDE DEF loaded
  <2>b. r \in Task
    BY <1>0, <2>2, <2>a
  <2>4. r \in Task /\ r.pc = "exchange" /\ r.flow = task[t].flow /\ r.path = task[t].path
    BY <1>0, <2>b DEF Task
  <2> HIDE DEF r
  <2>5. QED
    BY <1>0, <1>6, <2>1, <2>3, <2>4, ThreadTyped
       DEF Finish, store, tokens, ConnTyped, SeenTyped, TallyTyped, ZoomPcs
<1>7. CASE Exchange(t)
  <2>1. task[t].flow \in Flows /\ task[t].path \in Providers /\ t \in ApiThreads
        /\ owner[task[t].flow] # "none"
    BY <1>0, <1>7 DEF Exchange, At, AtWork, SignPcs, FinishPcs
  <2>2. SeenTyped'
    BY <1>0, <1>7, <2>1 DEF Exchange, SeenTyped
  <2>3. CASE Fails(t) /\ UNCHANGED <<live, tally>>
    BY <1>0, <1>4, <1>7, <2>2, <2>3 DEF Exchange, Fails, At, store, ConnTyped, TallyTyped, FinishPcs
  <2>4. CASE /\ tally' = [tally EXCEPT !.issued = @ + 1]
             /\ live' = IF Way[task[t].path].rotates THEN tally'.issued ELSE live
             /\ Do(t, [task[t] EXCEPT !.pc = "store", !.token = tally'.issued])
    <3>1. TallyTyped'
      BY <1>0, <2>4, CountedTyped DEF TallyTyped
    <3>2. tally'.issued \in Nat /\ live' \in Nat
      BY <1>0, <2>4, <3>1 DEF TallyTyped
    <3> DEFINE token == tally'.issued
               r == [task[t] EXCEPT !.pc = "store", !.token = token]
    <3>3. Do(t, r) /\ token \in Nat
      BY <2>4, <3>2
    <3> HIDE DEF token
    <3>a. ASSUME NEW n \in Nat, NEW k \in Task
          PROVE  [k EXCEPT !.pc = "store", !.token = n] \in Task
      BY Stepped DEF FinishPcs
    <3>b. r \in Task
      BY <1>0, <3>3, <3>a
    <3>4. r \in Task /\ r.pc = "store" /\ r.flow = task[t].flow /\ r.path = task[t].path
      BY <1>0, <3>b DEF Task
    <3> HIDE DEF r
    <3>5. QED
      BY <1>0, <1>7, <2>1, <2>2, <3>1, <3>2, <3>3, <3>4, ThreadTyped
         DEF Exchange, store, ConnTyped, ZoomPcs
  <2>5. QED BY <1>7, <2>3, <2>4 DEF Exchange
<1>8. CASE StoreToken(t)
  <2>1. /\ task[t].flow \in Flows /\ task[t].path \in Providers /\ task[t].token \in Nat
        /\ task[t].pc \in FinishPcs
    BY <1>0, <1>8 DEF StoreToken, At, AtWork, SignPcs, FinishPcs, Task
  <2>2. CASE Fails(t) /\ UNCHANGED <<conn, seen>>
    BY <1>0, <1>4, <1>8, <2>1, <2>2 DEF StoreToken, Fails, ConnTyped, SeenTyped, TallyTyped, FinishPcs
  <2>3. CASE /\ conn' = [conn EXCEPT ![task[t].path] = task[t].token]
             /\ seen' = [seen EXCEPT !.kept = @ \cup {task[t].flow}]
             /\ Do(t, [task[t] EXCEPT !.pc = "settle", !.ok = TRUE])
    <3>1. SeenTyped'
      BY <1>0, <2>1, <2>3 DEF SeenTyped
    <3>2. conn' \in [Providers -> Int] /\ ConnTyped'
      BY <1>0, <2>1, <2>3 DEF ConnTyped
    <3>3. QED
      BY <1>0, <1>4, <1>8, <2>1, <2>3, <3>1, <3>2 DEF StoreToken, TallyTyped, FinishPcs
  <2>4. QED BY <1>8, <2>2, <2>3 DEF StoreToken
<1>9. CASE SaveCache(t)
  <2>1. /\ task[t].flow \in Flows /\ task[t].path \in Providers /\ t \in ApiThreads
        /\ owner[task[t].flow] # "none" /\ task[t].loaded \subseteq Flows
    BY <1>0, <1>9 DEF SaveCache, At, AtWork, SignPcs, FinishPcs, Task
  <2>2. SeenTyped' /\ file' \subseteq Flows
    BY <1>0, <1>9, <2>1 DEF SaveCache, SeenTyped
  <2>3. [task[t] EXCEPT !.pc = "view"] \in Task
    BY <1>0, Stepped DEF FinishPcs
  <2> DEFINE r == [task[t] EXCEPT !.pc = "view"]
  <2>4. r \in Task /\ r.pc = "view" /\ r.flow = task[t].flow /\ r.path = task[t].path /\ Do(t, r)
    BY <1>0, <1>9, <2>3 DEF SaveCache, To, Task
  <2> HIDE DEF r
  <2>5. QED
    BY <1>0, <1>9, <2>1, <2>2, <2>4, ThreadTyped DEF SaveCache, store, ConnTyped, TallyTyped, ZoomPcs
<1>10. CASE SaveFails(t)
  <2>1. TallyTyped'
    BY <1>0, <1>10, CountedTyped DEF SaveFails, Counted, TallyTyped
  <2>2. QED
    BY <1>0, <1>4, <1>10, <2>1 DEF SaveFails, Fails, At, tokens, ConnTyped, SeenTyped, FinishPcs
<1>11. CASE FinishView(t)
  BY <1>0, <1>4, <1>11 DEF FinishView, At, tokens, ConnTyped, SeenTyped, TallyTyped, FinishPcs
<1>12. QED
  BY <1>1, <1>2, <1>3, <1>5, <1>6, <1>7, <1>8, <1>9, <1>10, <1>11 DEF SignIn

LEMMA RefreshTyped ==
  ASSUME Typed, NEW t \in Threads, Refresh(t)
  PROVE  Typed'
<1>0. /\ task \in [Threads -> Task] /\ task[t] \in Task
      /\ AtWork(t) /\ ConnTyped /\ SeenTyped /\ TallyTyped
      /\ flows \subseteq Flows /\ outcomes \subseteq Outcome
      /\ conn \in [Providers -> Int] /\ file \subseteq Flows /\ live \in Nat
      /\ cache \in [Procs -> Nat]
  BY TypedFacts
<1> DEFINE ZTask(r) == /\ r \in Task /\ r.pc \in {"idle"} \cup ZoomPcs
                       /\ r.pc \in ZoomPcs => "zoom" \in Providers
<1>a. ASSUME NEW r, ZTask(r), Do(t, r), UNCHANGED <<store, owner, expired, file>>,
             ConnTyped', conn' \in [Providers -> Int], live' \in Nat, cache' \in [Procs -> Nat],
             SeenTyped', TallyTyped'
      PROVE  Typed'
  <2>1. r.pc \notin SignPcs
    BY <1>a DEF SignPcs, FinishPcs, ZoomPcs
  <2>2. QED BY <1>0, <1>a, <2>1, ThreadTyped DEF store
<1>b. ZTask(Idle)
  BY IdleFacts DEF ZoomPcs
<1>c. ASSUME task[t].pc \in ZoomPcs, NEW pc \in ZoomPcs, NEW token \in Nat, NEW old \in Nat
      PROVE  /\ ZTask([task[t] EXCEPT !.pc = pc])
             /\ ZTask([task[t] EXCEPT !.pc = pc, !.token = token])
             /\ ZTask([task[t] EXCEPT !.pc = pc, !.old = old, !.token = token])
  <2>1. "zoom" \in Providers
    BY <1>0, <1>c DEF AtWork
  <2>2. /\ [task[t] EXCEPT !.pc = pc] \in Task
        /\ [task[t] EXCEPT !.pc = pc, !.token = token] \in Task
        /\ [task[t] EXCEPT !.pc = pc, !.old = old, !.token = token] \in Task
    BY <1>0, <1>c, Stepped
  <2>3. QED BY <1>0, <1>c, <2>1, <2>2 DEF Task
<1>d. ASSUME task[t].pc \in ZoomPcs, ~ZoomServed(t) PROVE conn["zoom"] \in Nat
  BY <1>0, <1>d DEF AtWork, ConnTyped, ZoomServed
<1>e. ASSUME NEW token \in Nat, "zoom" \in Providers
      PROVE  LET c == [conn EXCEPT !["zoom"] = token] IN
               /\ c \in [Providers -> Int]
               /\ \A p \in Providers : c[p] = -1 \/ c[p] \in Nat
  BY <1>0, <1>e DEF ConnTyped
<1> HIDE DEF ZTask
<1>1. CASE ZoomAsk(t)
  <2>1. ZTask([Idle EXCEPT !.pc = "zread"])
    <3>1. [Idle EXCEPT !.pc = "zread"] \in Task
      BY IdleFacts, Stepped DEF ZoomPcs
    <3>2. [Idle EXCEPT !.pc = "zread"].pc = "zread"
      BY IdleFacts DEF Task
    <3>3. "zoom" \in Providers
      BY <1>1 DEF ZoomAsk
    <3>4. QED BY <3>1, <3>2, <3>3 DEF ZTask, ZoomPcs
  <2>2. TallyTyped'
    BY <1>0, <1>1, CountedTyped DEF ZoomAsk, Counted, TallyTyped
  <2>3. QED BY <1>0, <1>1, <1>a, <2>1, <2>2 DEF ZoomAsk, tokens, ConnTyped, SeenTyped
<1>2. CASE ZoomRead(t)
  <2>1. task[t].pc \in ZoomPcs /\ "zflock" \in ZoomPcs
    BY <1>2 DEF ZoomRead, At, ZoomPcs
  <2>2. PICK r : ZTask(r) /\ Do(t, r)
    <3>1. CASE ZoomServed(t) BY <1>2, <1>b, <3>1 DEF ZoomRead
    <3>2. CASE ~ZoomServed(t)
      <4>1. conn["zoom"] \in Nat BY <1>d, <2>1, <3>2
      <4>2. ZTask([task[t] EXCEPT !.pc = "zflock", !.token = conn["zoom"]])
        BY <1>c, <2>1, <4>1
      <4>3. QED BY <1>2, <3>2, <4>2 DEF ZoomRead
    <3>3. QED BY <3>1, <3>2
  <2>3. QED BY <1>0, <1>2, <1>a, <2>2 DEF ZoomRead, tokens, ConnTyped, SeenTyped, TallyTyped
<1>3. CASE ZoomReread(t)
  <2>1. task[t].pc \in ZoomPcs /\ "zcall" \in ZoomPcs
    BY <1>3 DEF ZoomReread, At, ZoomPcs
  <2>2. PICK r : ZTask(r) /\ Do(t, r)
    <3>1. CASE ZoomServed(t) BY <1>3, <1>b, <3>1 DEF ZoomReread
    <3>2. CASE ~ZoomServed(t)
      <4>1. conn["zoom"] \in Nat BY <1>d, <2>1, <3>2
      <4>2. ZTask([task[t] EXCEPT !.pc = "zcall", !.token = conn["zoom"]])
        BY <1>c, <2>1, <4>1
      <4>3. QED BY <1>3, <3>2, <4>2 DEF ZoomReread
    <3>3. QED BY <3>1, <3>2
  <2>3. QED BY <1>0, <1>3, <1>a, <2>2 DEF ZoomReread, tokens, ConnTyped, SeenTyped, TallyTyped
<1>4. CASE ZoomRefresh(t)
  <2>1. task[t].pc \in ZoomPcs /\ "zstore" \in ZoomPcs /\ task[t].token \in Nat
    BY <1>0, <1>4 DEF ZoomRefresh, At, ZoomPcs, Task
  <2>2. TallyTyped' /\ tally'.issued \in Nat
    BY <1>0, <1>4, CountedTyped DEF ZoomRefresh, TallyTyped
  <2>3. SeenTyped'
    BY <1>0, <1>4, <2>1 DEF ZoomRefresh, SeenTyped
  <2>4. ZTask([task[t] EXCEPT !.pc = "zstore", !.old = task[t].token, !.token = tally'.issued])
    BY <1>c, <2>1, <2>2
  <2>5. QED BY <1>0, <1>4, <1>a, <2>2, <2>3, <2>4 DEF ZoomRefresh, ConnTyped
<1>5. CASE ZoomRejected(t)
  BY <1>0, <1>5, <1>a, <1>b DEF ZoomRejected, tokens, ConnTyped, SeenTyped, TallyTyped
<1>6. CASE ZoomFails(t)
  <2>1. TallyTyped'
    BY <1>0, <1>6, CountedTyped DEF ZoomFails, Counted, TallyTyped
  <2>2. SeenTyped'
    BY <1>0, <1>6 DEF ZoomFails, SeenTyped, Task
  <2>3. QED BY <1>0, <1>6, <1>a, <1>b, <2>1, <2>2 DEF ZoomFails, tokens, ConnTyped
<1>7. CASE ZoomStore(t)
  <2>1. task[t].pc \in ZoomPcs /\ "zcache" \in ZoomPcs /\ task[t].token \in Nat /\ "zoom" \in Providers
    BY <1>0, <1>7 DEF ZoomStore, At, AtWork, ZoomPcs, Task
  <2>2. CASE Do(t, Idle) /\ UNCHANGED conn
    BY <1>0, <1>7, <1>a, <1>b, <2>2 DEF ZoomStore, ConnTyped, SeenTyped, TallyTyped
  <2>3. CASE conn' = [conn EXCEPT !["zoom"] = task[t].token] /\ To(t, "zcache")
    <3>1. ZTask([task[t] EXCEPT !.pc = "zcache"])
      BY <1>c, <2>1
    <3>2. conn' \in [Providers -> Int] /\ ConnTyped'
      BY <1>e, <2>1, <2>3 DEF ConnTyped
    <3>3. QED BY <1>0, <1>7, <1>a, <2>3, <3>1, <3>2 DEF ZoomStore, To, SeenTyped, TallyTyped
  <2>4. QED BY <1>7, <2>2, <2>3 DEF ZoomStore
<1>8. CASE ZoomCached(t)
  <2>1. cache' \in [Procs -> Nat]
    BY <1>0, <1>8 DEF ZoomCached, Task
  <2>2. QED
    BY <1>0, <1>8, <1>a, <1>b, <2>1 DEF ZoomCached, ConnTyped, SeenTyped, TallyTyped
<1>9. QED
  BY <1>1, <1>2, <1>3, <1>4, <1>5, <1>6, <1>7, <1>8 DEF Refresh

\* The task a request starts with.
Begun(pc, f, p, known) == [Idle EXCEPT !.pc = pc, !.flow = f, !.path = p, !.known = known]

LEMMA Started ==
  ASSUME NEW f \in Flows, NEW p \in Providers, NEW pc \in {"consume", "settle"}, NEW known \in BOOLEAN
  PROVE  Begun(pc, f, p, known) \in Task
<1> DEFINE P == {"idle", "consume", "silent"} \cup FinishPcs \cup ZoomPcs
           D == DOMAIN Way \cup {"none"}
<1>1. p \in D
  BY WayFacts
<1>2. f \in Nat
  BY FlowAssumption
<1>3. pc \in P
  BY DEF FinishPcs
<1>4. Task = [pc : P, flow : Nat, path : D, known : BOOLEAN, token : Nat, old : Nat,
              loaded : SUBSET Flows, ok : BOOLEAN]
  BY DEF Task
<1> HIDE DEF P, D
<1>5. QED BY <1>1, <1>2, <1>3, <1>4, IdleFacts DEF Begun

LEMMA StartedFields ==
  ASSUME NEW f, NEW p, NEW pc, NEW known
  PROVE  /\ Begun(pc, f, p, known).pc = pc /\ Begun(pc, f, p, known).flow = f
         /\ Begun(pc, f, p, known).path = p
BY DEF Begun, Idle

LEMMA StartedFlags ==
  ASSUME NEW f, NEW p, NEW pc, NEW known
  PROVE  Begun(pc, f, p, known).known = known /\ Begun(pc, f, p, known).ok = FALSE
BY DEF Begun, Idle

LEMMA RequestStarts ==
  ASSUME NEW t \in Threads, NEW f \in Flows, NEW p \in Providers, Callback(t, f, p) \/ Paste(t, f, p)
  PROVE  /\ t \in ApiThreads /\ task[t].pc = "idle" /\ owner[f] # "none"
         /\ Counted("ops", MaxOps) /\ UNCHANGED <<store, owner, expired, tokens, seen>>
         /\ \/ Do(t, Idle)
            \/ \E pc \in {"consume", "settle"}, known \in BOOLEAN :
                 /\ Do(t, Begun(pc, f, p, known))
                 /\ pc = "settle" => known
                 /\ f \in flows => known
<1>1. CASE Callback(t, f, p)
  <2>1. Do(t, Begun("consume", f, p, f \in flows))
    BY <1>1 DEF Callback, Begun
  <2>2. (f \in flows) \in BOOLEAN
    OBVIOUS
  <2>3. \E known \in BOOLEAN : Do(t, Begun("consume", f, p, known)) /\ (f \in flows => known)
    BY <2>1, <2>2, Zenon
  <2>4. /\ t \in ApiThreads /\ task[t].pc = "idle" /\ owner[f] # "none"
        /\ Counted("ops", MaxOps) /\ UNCHANGED <<store, owner, expired, tokens, seen>>
    BY <1>1, Zenon DEF Callback, At
  <2>5. QED BY <2>3, <2>4
<1>2. CASE Paste(t, f, p)
  <2>1. PICK pc \in {"consume", "settle", "idle"} :
          Do(t, IF pc = "idle" THEN Idle ELSE Begun(pc, f, p, TRUE))
    BY <1>2 DEF Paste, Pasted, Begun
  <2>2. Do(t, Idle) \/ \E q \in {"consume", "settle"} : Do(t, Begun(q, f, p, TRUE))
    BY <2>1
  <2>3. TRUE \in BOOLEAN
    OBVIOUS
  <2>4. /\ t \in ApiThreads /\ task[t].pc = "idle" /\ owner[f] # "none"
        /\ Counted("ops", MaxOps) /\ UNCHANGED <<store, owner, expired, tokens, seen>>
    BY <1>2, Zenon DEF Paste, At
  <2>5. QED BY <2>2, <2>3, <2>4, Zenon
<1>3. QED BY <1>1, <1>2

LEMMA RequestTyped ==
  ASSUME Typed, NEW t \in Threads, NEW f \in Flows, NEW p \in Providers, Callback(t, f, p) \/ Paste(t, f, p)
  PROVE  Typed'
<1>0. /\ ConnTyped /\ SeenTyped /\ TallyTyped
      /\ flows \subseteq Flows /\ outcomes \subseteq Outcome
      /\ conn \in [Providers -> Int] /\ file \subseteq Flows /\ live \in Nat
      /\ cache \in [Procs -> Nat]
  BY TypedFacts
<1>1. /\ t \in ApiThreads /\ owner[f] # "none"
      /\ Counted("ops", MaxOps) /\ UNCHANGED <<store, owner, expired, tokens, seen>>
  BY RequestStarts
<1>2. TallyTyped'
  BY <1>0, <1>1, CountedTyped DEF Counted, TallyTyped
<1>3. ASSUME NEW r \in Task, Do(t, r),
             r = Idle \/ (r.pc \in {"consume", "settle"} /\ r.flow = f /\ r.path = p)
      PROVE  Typed'
  BY <1>0, <1>1, <1>2, <1>3, IdleFacts, ThreadTyped
     DEF store, tokens, SignPcs, FinishPcs, ZoomPcs, ConnTyped, SeenTyped
<1>4. CASE Do(t, Idle)
  BY <1>3, <1>4, IdleFacts
<1>5. ASSUME NEW pc \in {"consume", "settle"}, NEW known \in BOOLEAN, Do(t, Begun(pc, f, p, known))
      PROVE  Typed'
  <2> DEFINE r == Begun(pc, f, p, known)
  <2>1. r \in Task /\ r.pc = pc /\ r.flow = f /\ r.path = p
    <3>1. r \in Task
      BY Started
    <3>2. QED BY <3>1, StartedFields
  <2>2. Do(t, r)
    BY <1>5
  <2> HIDE DEF r
  <2>3. QED BY <1>3, <2>1, <2>2
<1>6. QED BY <1>4, <1>5, RequestStarts

LEMMA SilentTyped ==
  ASSUME Typed, NEW t \in Threads, SilentLoad(t) \/ SilentSave(t)
  PROVE  Typed'
<1>0. /\ task[t] \in Task /\ ConnTyped /\ SeenTyped /\ TallyTyped
      /\ flows \subseteq Flows /\ outcomes \subseteq Outcome
      /\ conn \in [Providers -> Int] /\ file \subseteq Flows /\ live \in Nat
      /\ cache \in [Procs -> Nat]
  BY TypedFacts
<1>1. CASE SilentLoad(t)
  <2>1. TallyTyped'
    BY <1>0, <1>1, CountedTyped DEF SilentLoad, Counted, TallyTyped
  <2>2. ASSUME NEW l \in SUBSET Flows
        PROVE  [Idle EXCEPT !.pc = "silent", !.loaded = l] \in Task
    BY <2>2, IdleFacts, Stepped
  <2> DEFINE r == [Idle EXCEPT !.pc = "silent", !.loaded = file]
  <2>3. r \in Task /\ r.pc = "silent"
    BY <1>0, <2>2, IdleFacts DEF Task
  <2>4. Do(t, r) /\ UNCHANGED <<store, owner, expired, tokens, seen>>
    BY <1>1 DEF SilentLoad
  <2> HIDE DEF r
  <2>5. QED
    BY <1>0, <2>1, <2>3, <2>4, ThreadTyped
       DEF store, tokens, SignPcs, FinishPcs, ZoomPcs, ConnTyped, SeenTyped
<1>2. CASE SilentSave(t)
  <2>1. file' \subseteq Flows
    BY <1>0, <1>2 DEF SilentSave, Task
  <2>2. QED
    BY <1>0, <1>2, <2>1, IdleFacts, ThreadTyped
       DEF SilentSave, store, SignPcs, FinishPcs, ZoomPcs, ConnTyped, SeenTyped, TallyTyped
<1>3. QED BY <1>1, <1>2

\* A step of no thread leaves tasks alone or drops them.
LEMMA SurroundingsTyped ==
  ASSUME Typed,
         \/ \E f \in Flows, p \in Providers : StartSignIn(f, p)
         \/ \E f \in Flows : Expire(f)
         \/ \E p \in Procs : ZoomCacheAges(p) \/ Crash(p)
         \/ \E p \in Providers : DeleteConnection(p)
  PROVE  Typed'
<1>0. /\ task \in [Threads -> Task] /\ ConnTyped /\ SeenTyped /\ TallyTyped
      /\ \A t \in Threads : AtWork(t)
      /\ flows \subseteq Flows /\ outcomes \subseteq Outcome
      /\ owner \in [Flows -> Providers \cup {"none"}] /\ expired \subseteq Flows
      /\ conn \in [Providers -> Int] /\ file \subseteq Flows /\ live \in Nat
      /\ cache \in [Procs -> Nat]
  BY DEF Typed, TypeOK, SeenTyped, TallyTyped
<1>1. ASSUME NEW f \in Flows, NEW p \in Providers, StartSignIn(f, p) PROVE Typed'
  <2>1. flows' \subseteq Flows /\ outcomes' \subseteq Outcome
    BY <1>1, StoreFacts DEF StartSignIn
  <2>2. p # "none"
    BY ThreadAssumption
  <2>3. owner' \in [Flows -> Providers \cup {"none"}]
    BY <1>0, <1>1 DEF StartSignIn
  <2>4. ASSUME NEW t \in Threads PROVE AtWork(t)'
    BY <1>0, <1>1, <2>2 DEF StartSignIn, AtWork
  <2>5. QED
    BY <1>0, <1>1, <2>1, <2>3, <2>4
       DEF StartSignIn, tokens, Typed, TypeOK, ConnTyped, SeenTyped, TallyTyped
<1>2. ASSUME NEW f \in Flows, Expire(f) PROVE Typed'
  BY <1>0, <1>2 DEF Expire, store, tokens, Typed, TypeOK, ConnTyped, SeenTyped, TallyTyped, AtWork
<1>3. ASSUME NEW p \in Procs, ZoomCacheAges(p) PROVE Typed'
  <2>1. cache' \in [Procs -> Nat]
    BY <1>0, <1>3 DEF ZoomCacheAges
  <2>2. QED
    BY <1>0, <1>3, <2>1
       DEF ZoomCacheAges, store, Typed, TypeOK, ConnTyped, SeenTyped, TallyTyped, AtWork
<1>4. ASSUME NEW p \in Procs, Crash(p) PROVE Typed'
  <2>1. task' \in [Threads -> Task]
    BY <1>0, <1>4, IdleFacts DEF Crash
  <2>2. ASSUME NEW t \in Threads PROVE AtWork(t)'
    BY <1>0, <1>4, IdleFacts DEF Crash, AtWork, SignPcs, FinishPcs, ZoomPcs
  <2>3. cache' \in [Procs -> Nat] /\ flows' \subseteq Flows /\ outcomes' \subseteq Outcome
    BY <1>0, <1>4 DEF Crash
  <2>4. TallyTyped'
    BY <1>0, <1>4, CountedTyped DEF Crash, Counted, TallyTyped
  <2>5. {task[t].old : t \in {u \in {v \in Threads : Proc(v) = p} : At(u, "zstore")}} \subseteq Nat
    BY <1>0 DEF Task
  <2>6. SeenTyped'
    BY <1>0, <1>4, <2>5 DEF Crash, SeenTyped
  <2>7. QED
    BY <1>0, <1>4, <2>1, <2>2, <2>3, <2>4, <2>6
       DEF Crash, Typed, TypeOK, ConnTyped, SeenTyped, TallyTyped
<1>5. ASSUME NEW p \in Providers, DeleteConnection(p) PROVE Typed'
  <2>1. TallyTyped'
    BY <1>0, <1>5, CountedTyped DEF DeleteConnection, Counted, TallyTyped
  <2>2. conn' \in [Providers -> Int] /\ ConnTyped'
    BY <1>0, <1>5 DEF DeleteConnection, ConnTyped
  <2>3. QED
    BY <1>0, <1>5, <2>1, <2>2
       DEF DeleteConnection, store, Typed, TypeOK, SeenTyped, TallyTyped, AtWork
<1>6. QED BY <1>1, <1>2, <1>3, <1>4, <1>5

LEMMA StepTyped == Typed /\ [Next]_vars => Typed'
<1> SUFFICES ASSUME Typed, [Next]_vars PROVE Typed'
  OBVIOUS
<1>1. CASE UNCHANGED vars
  BY <1>1 DEF vars, Typed, TypeOK, ConnTyped, AtWork
<1>2. CASE Next
  BY <1>2, SignInTyped, RefreshTyped, RequestTyped, SilentTyped, SurroundingsTyped DEF Next
<1>3. QED BY <1>1, <1>2

\* Every variable has its type in every reachable state.
THEOREM TypeCorrect == Spec => []TypeOK
<1>1. Spec => []Typed
  BY InitTyped, StepTyped, PTL DEF Spec
<1>2. Typed => TypeOK
  BY DEF Typed
<1>3. QED BY <1>1, <1>2, PTL

-----------------------------------------------------------------------------
(* What the steps outside a sign-in may do to one *)

\* Tokens are refreshed, requests come in, a process dies: no code is presented,
\* no token is kept for a sign-in, and a sign-in at work goes on or is dropped
\* together with the flow store.
Elsewhere ==
  /\ owner' = owner /\ flows' \subseteq flows
  /\ seen'.codes = seen.codes /\ seen'.kept = seen.kept
  /\ \A t \in Threads : task'[t].pc \in SignPcs => \/ task'[t] = task[t]
                                                  \/ /\ task'[t].pc \in {"consume", "settle"}
                                                     /\ task'[t].ok = FALSE
                                                     /\ task'[t].flow \in flows => task'[t].known
                                                     /\ task'[t].pc = "settle" => task'[t].known
  /\ \/ outcomes' = {}
     \/ outcomes' = outcomes /\ \A t \in ApiThreads : task[t].pc \in FinishPcs => task'[t] = task[t]
  /\ \/ file' = file /\ \A t \in Threads : task'[t].pc = "silent" => task'[t] = task[t]
     \/ \E t \in Threads : SilentLoad(t) \/ SilentSave(t)

Aside ==
  \/ \E f \in Flows, p \in Providers, t \in Threads : Callback(t, f, p) \/ Paste(t, f, p)
  \/ \E t \in Threads : Refresh(t) \/ SilentLoad(t) \/ SilentSave(t)
  \/ \E f \in Flows : Expire(f)
  \/ \E p \in Procs : ZoomCacheAges(p) \/ Crash(p)
  \/ \E p \in Providers : DeleteConnection(p)

LEMMA NextSplit ==
  ASSUME Next
  PROVE  \/ Aside
         \/ \E f \in Flows, p \in Providers : StartSignIn(f, p)
         \/ \E t \in Threads : SignIn(t)
BY DEF Next, Aside

LEMMA AsideElsewhere ==
  ASSUME Typed, Aside
  PROVE  Elsewhere
<1>0. task \in [Threads -> Task] /\ SeenTyped
  BY DEF Typed, TypeOK, SeenTyped
<1>1. ASSUME NEW t \in Threads, NEW r, Do(t, r), task[t].pc \notin FinishPcs,
             UNCHANGED <<store, owner>>, seen'.codes = seen.codes, seen'.kept = seen.kept,
             r.pc \in SignPcs => /\ r.pc \in {"consume", "settle"} /\ r.ok = FALSE
                                 /\ r.flow \in flows => r.known
                                 /\ r.pc = "settle" => r.known,
             (file' = file /\ r.pc # "silent") \/ SilentLoad(t) \/ SilentSave(t)
      PROVE  Elsewhere
  <2>1. task'[t] = r /\ \A u \in Threads \ {t} : task'[u] = task[u]
    BY <1>0, <1>1 DEF Do
  <2>2. \A u \in ApiThreads : task[u].pc \in FinishPcs => task'[u] = task[u]
    BY <1>1, <2>1 DEF Threads
  <2>3. QED BY <1>1, <2>1, <2>2 DEF Elsewhere, store
<1>2. ASSUME NEW f \in Flows, NEW p \in Providers, NEW t \in Threads, Callback(t, f, p) \/ Paste(t, f, p)
      PROVE  Elsewhere
  <2>1. task[t].pc \notin FinishPcs /\ UNCHANGED <<store, owner, seen, file>>
    BY <1>2, RequestStarts DEF FinishPcs, tokens
  <2>2. CASE Do(t, Idle)
    BY <1>1, <2>1, <2>2, IdleFacts DEF SignPcs, FinishPcs
  <2>3. ASSUME NEW pc \in {"consume", "settle"}, NEW known \in BOOLEAN, Do(t, Begun(pc, f, p, known)),
               pc = "settle" => known, f \in flows => known
        PROVE  Elsewhere
    <3> DEFINE r == Begun(pc, f, p, known)
    <3>1. r.pc = pc /\ r.flow = f
      BY StartedFields
    <3>a. r.known = known /\ r.ok = FALSE
      BY StartedFlags, Zenon
    <3>2. Do(t, r)
      BY <2>3
    <3> HIDE DEF r
    <3>3. QED BY <1>1, <2>1, <2>3, <3>1, <3>a, <3>2
  <2>4. QED BY <1>2, <2>2, <2>3, RequestStarts
<1>4. ASSUME NEW t \in Threads, Refresh(t) PROVE Elsewhere
  <2>0. task[t] \in Task
    BY <1>0
  <2>1. task[t].pc \notin FinishPcs
    BY <1>4 DEF Refresh, ZoomAsk, ZoomRead, ZoomReread, ZoomRefresh, ZoomRejected, ZoomFails,
                ZoomStore, ZoomCached, At, FinishPcs
  <2>2. UNCHANGED <<store, owner, file>>
    BY <1>4 DEF Refresh, ZoomAsk, ZoomRead, ZoomReread, ZoomRefresh, ZoomRejected, ZoomFails,
                ZoomStore, ZoomCached, tokens
  <2>3. seen'.codes = seen.codes /\ seen'.kept = seen.kept
    BY <1>0, <1>4 DEF Refresh, ZoomAsk, ZoomRead, ZoomReread, ZoomRefresh, ZoomRejected, ZoomFails,
                ZoomStore, ZoomCached, SeenTyped
  <2> DEFINE ZPc(r) == r.pc \in {"idle"} \cup ZoomPcs
  <2>4. ASSUME NEW r, Do(t, r), ZPc(r) PROVE Elsewhere
    BY <1>1, <2>1, <2>2, <2>3, <2>4 DEF SignPcs, FinishPcs, ZoomPcs
  <2>5. ZPc(Idle) /\ ZPc([Idle EXCEPT !.pc = "zread"])
    BY IdleFacts DEF Task, ZoomPcs
  <2>6. ASSUME NEW pc \in ZoomPcs, NEW old, NEW token
        PROVE  /\ ZPc([task[t] EXCEPT !.pc = pc])
               /\ ZPc([task[t] EXCEPT !.pc = pc, !.token = token])
               /\ ZPc([task[t] EXCEPT !.pc = pc, !.old = old, !.token = token])
    BY <2>0 DEF Task
  <2>7. "zflock" \in ZoomPcs /\ "zcall" \in ZoomPcs /\ "zstore" \in ZoomPcs /\ "zcache" \in ZoomPcs
    BY DEF ZoomPcs
  <2> HIDE DEF ZPc
  <2>8. CASE ZoomAsk(t)
    BY <2>4, <2>5, <2>7, <2>8 DEF ZoomAsk
  <2>9. CASE ZoomRead(t)
    BY <2>4, <2>5, <2>6, <2>7, <2>9 DEF ZoomRead
  <2>10. CASE ZoomReread(t)
    BY <2>4, <2>5, <2>6, <2>7, <2>10 DEF ZoomReread
  <2>11. CASE ZoomRefresh(t)
    BY <2>4, <2>6, <2>7, <2>11 DEF ZoomRefresh
  <2>12. CASE ZoomRejected(t) \/ ZoomFails(t) \/ ZoomCached(t)
    BY <2>4, <2>5, <2>12 DEF ZoomRejected, ZoomFails, ZoomCached
  <2>13. CASE ZoomStore(t)
    BY <2>4, <2>5, <2>6, <2>7, <2>13 DEF ZoomStore, To
  <2>14. QED BY <1>4, <2>8, <2>9, <2>10, <2>11, <2>12, <2>13 DEF Refresh
<1>5. ASSUME NEW t \in Threads, SilentLoad(t) \/ SilentSave(t) PROVE Elsewhere
  <2>1. task[t].pc \notin FinishPcs /\ UNCHANGED <<store, owner, seen>>
    BY <1>5 DEF SilentLoad, SilentSave, At, FinishPcs
  <2>2. \E r : Do(t, r) /\ r.pc \in {"silent", "idle"}
    <3>1. Idle.pc = "idle" /\ [Idle EXCEPT !.pc = "silent", !.loaded = file].pc = "silent"
      BY IdleFacts DEF Task
    <3>2. Do(t, Idle) \/ Do(t, [Idle EXCEPT !.pc = "silent", !.loaded = file])
      BY <1>5 DEF SilentLoad, SilentSave
    <3>3. QED BY <3>1, <3>2
  <2>3. QED BY <1>1, <1>5, <2>1, <2>2 DEF SignPcs, FinishPcs
<1>6. ASSUME NEW f \in Flows, Expire(f) PROVE Elsewhere
  BY <1>6 DEF Expire, Elsewhere, store, tokens
<1>7. ASSUME NEW p \in Procs, ZoomCacheAges(p) PROVE Elsewhere
  BY <1>7 DEF ZoomCacheAges, Elsewhere, store, tokens
<1>8. ASSUME NEW p \in Procs, Crash(p) PROVE Elsewhere
  <2>1. \A t \in Threads : task'[t] = task[t] \/ task'[t] = Idle
    BY <1>8 DEF Crash
  <2>2. \A t \in Threads : task'[t].pc \in SignPcs => task'[t] = task[t]
    BY <2>1, IdleFacts DEF SignPcs, FinishPcs
  <2>a. \A t \in Threads : task'[t].pc = "silent" => task'[t] = task[t]
    BY <2>1, IdleFacts
  <2>3. p = "api" \/ \A t \in ApiThreads : task'[t] = task[t]
    BY <1>0, <1>8 DEF Crash, Proc, Procs, Threads
  <2>4. seen'.codes = seen.codes /\ seen'.kept = seen.kept
    BY <1>0, <1>8 DEF Crash, SeenTyped
  <2>5. QED BY <1>8, <2>2, <2>a, <2>3, <2>4 DEF Crash, Elsewhere
<1>9. ASSUME NEW p \in Providers, DeleteConnection(p) PROVE Elsewhere
  BY <1>9 DEF DeleteConnection, Elsewhere, store, tokens
<1>10. QED BY <1>2, <1>4, <1>5, <1>6, <1>7, <1>8, <1>9 DEF Aside

-----------------------------------------------------------------------------
(* Codes *)

\* Between the flow's consumption and the exchange a sign-in's code is its thread's.
Presenting(t) == task[t].pc \in {"finish", "exchange"}
CodesOnce ==
  /\ \A f \in Flows : seen.codes[f] \in {0, 1}
  /\ \A f \in Flows : f \in flows \/ owner[f] = "none" => seen.codes[f] = 0
  /\ \A f \in flows : owner[f] # "none"
  /\ \A t \in Threads : Presenting(t) =>
       /\ task[t].flow \in Flows \ flows /\ owner[task[t].flow] # "none"
       /\ seen.codes[task[t].flow] = 0
       /\ \A u \in Threads \ {t} : Presenting(u) => task[u].flow # task[t].flow

\* A step that presents nothing and starts no attempt.
LEMMA QuietCodes ==
  ASSUME CodesOnce, owner' = owner, flows' \subseteq flows, seen'.codes = seen.codes,
         \A t \in Threads : Presenting(t)' => Presenting(t) /\ task'[t].flow = task[t].flow
  PROVE  CodesOnce'
BY DEF CodesOnce

LEMMA InitCodes == Init => CodesOnce
BY IdleFacts DEF Init, CodesOnce, Presenting

LEMMA StepCodes == Typed /\ CodesOnce /\ [Next]_vars => CodesOnce'
<1> SUFFICES ASSUME Typed, CodesOnce, [Next]_vars PROVE CodesOnce'
  OBVIOUS
<1>0. /\ task \in [Threads -> Task] /\ SeenTyped /\ flows \subseteq Flows
      /\ owner \in [Flows -> Providers \cup {"none"}]
      /\ \A t \in Threads : AtWork(t)
  BY DEF Typed, TypeOK, SeenTyped
<1>1. CASE UNCHANGED vars
  BY <1>1, QuietCodes DEF vars, Presenting
<1>2. CASE Aside
  <2>1. Elsewhere
    BY <1>2, AsideElsewhere
  <2>2. QED BY <2>1, QuietCodes DEF Elsewhere, Presenting, SignPcs, FinishPcs
<1>3. ASSUME NEW f \in Flows, NEW p \in Providers, StartSignIn(f, p) PROVE CodesOnce'
  <2>1. flows' \subseteq flows \cup {f} /\ owner[f] = "none" /\ UNCHANGED <<task, seen>>
    BY <1>3 DEF StartSignIn, Newest, Purged
  <2>2. p # "none" /\ owner' = [owner EXCEPT ![f] = p]
    BY <1>3, ThreadAssumption DEF StartSignIn
  <2>3. QED BY <1>0, <2>1, <2>2 DEF CodesOnce, Presenting
<1>4. ASSUME NEW t \in Threads, SignIn(t) PROVE CodesOnce'
  <2>0. task[t] \in Task /\ owner' = owner
    BY <1>0, <1>4 DEF SignIn, Consume, ConsumeRefused, Settle, FinishRefused, Finish, Exchange,
                      StoreToken, SaveCache, SaveFails, FinishView
  <2>1. ASSUME NEW r, Do(t, r)
        PROVE  task'[t] = r /\ \A u \in Threads \ {t} : task'[u] = task[u]
    BY <1>0, <2>1 DEF Do
  <2>2. ASSUME NEW r, Do(t, r), flows' \subseteq flows, seen'.codes = seen.codes,
               r.pc \in {"finish", "exchange"} => Presenting(t) /\ r.flow = task[t].flow
        PROVE  CodesOnce'
    BY <2>0, <2>1, <2>2, QuietCodes DEF Presenting
  <2>3. CASE Consume(t)
    <3> DEFINE f == task[t].flow
    <3>1. f \in flows /\ flows' \subseteq flows \ {f} /\ UNCHANGED seen
      BY <2>3 DEF Consume, Consumed, Purged
    <3>2. task'[t].pc = "finish" /\ task'[t].flow = f /\ \A u \in Threads \ {t} : task'[u] = task[u]
      BY <2>0, <2>1, <2>3 DEF Consume, To, Task
    <3> HIDE DEF f
    <3>3. QED BY <1>0, <2>0, <3>1, <3>2 DEF CodesOnce, Presenting
  <2>4. CASE Exchange(t)
    <3> DEFINE f == task[t].flow
    <3>1. f \in Flows /\ Presenting(t)
      BY <1>0, <2>4 DEF Exchange, At, AtWork, SignPcs, FinishPcs, Presenting
    <3>2. seen'.codes = [seen.codes EXCEPT ![f] = @ + 1] /\ flows' = flows
      BY <1>0, <2>4 DEF Exchange, SeenTyped, store
    <3>3. task'[t].pc \in {"store", "settle"} /\ \A u \in Threads \ {t} : task'[u] = task[u]
      <4>1. ASSUME NEW x PROVE /\ [task[t] EXCEPT !.pc = "store", !.token = x].pc = "store"
                               /\ [task[t] EXCEPT !.pc = "settle", !.ok = x].pc = "settle"
        BY <2>0 DEF Task
      <4>2. PICK r : Do(t, r) /\ r.pc \in {"store", "settle"}
        BY <2>4, <4>1 DEF Exchange, Fails
      <4>3. QED BY <2>1, <4>2
    <3>4. seen.codes \in [Flows -> Nat]
      BY <1>0 DEF SeenTyped
    <3> HIDE DEF f
    <3>5. seen.codes[f] = 0 /\ f \notin flows /\ owner[f] # "none"
          /\ \A u \in Threads \ {t} : Presenting(u) => task[u].flow # f
      BY <3>1 DEF CodesOnce, f
    <3>6. seen'.codes[f] = 1 /\ \A g \in Flows \ {f} : seen'.codes[g] = seen.codes[g]
      BY <3>1, <3>2, <3>4, <3>5
    <3>7. QED BY <2>0, <3>1, <3>2, <3>3, <3>5, <3>6 DEF CodesOnce, Presenting
  <2>5. CASE ConsumeRefused(t)
    BY <2>2, <2>5, IdleFacts DEF ConsumeRefused, Purged
  <2>6. CASE Settle(t)
    BY <2>2, <2>6, IdleFacts DEF Settle
  <2>7. CASE FinishRefused(t) \/ SaveFails(t) \/ FinishView(t)
    <3>1. \A ok : [task[t] EXCEPT !.pc = "settle", !.ok = ok].pc = "settle"
      BY <2>0 DEF Task
    <3>2. flows' = flows /\ seen' = seen
      BY <2>7 DEF FinishRefused, SaveFails, FinishView, store
    <3>3. QED BY <2>2, <2>7, <3>1, <3>2 DEF FinishRefused, SaveFails, FinishView, Fails
  <2>8. CASE Finish(t)
    <3> DEFINE r == [task[t] EXCEPT !.pc = "exchange", !.loaded = IF Way[task[t].path].cached THEN file ELSE {}]
    <3>1. r.pc = "exchange" /\ r.flow = task[t].flow
      BY <2>0 DEF Task
    <3>2. Do(t, r) /\ Presenting(t) /\ flows' = flows /\ seen' = seen
      BY <2>8 DEF Finish, At, Presenting, store
    <3> HIDE DEF r
    <3>3. QED BY <2>2, <3>1, <3>2
  <2>9. CASE StoreToken(t)
    <3>1. task'[t].pc = "settle" /\ \A u \in Threads \ {t} : task'[u] = task[u]
      <4>1. ASSUME NEW x PROVE [task[t] EXCEPT !.pc = "settle", !.ok = x].pc = "settle"
        BY <2>0 DEF Task
      <4>2. PICK r : Do(t, r) /\ r.pc = "settle"
        BY <2>9, <4>1 DEF StoreToken, Fails
      <4>3. QED BY <2>1, <4>2
    <3>2. flows' = flows /\ seen'.codes = seen.codes
      BY <1>0, <2>9 DEF StoreToken, store, SeenTyped
    <3>3. QED BY <2>0, <3>1, <3>2, QuietCodes DEF Presenting
  <2>10. CASE SaveCache(t)
    <3>1. task'[t].pc = "view" /\ \A u \in Threads \ {t} : task'[u] = task[u]
      BY <2>0, <2>1, <2>10 DEF SaveCache, To, Task
    <3>2. flows' = flows /\ seen'.codes = seen.codes
      BY <1>0, <2>10 DEF SaveCache, store, SeenTyped
    <3>3. QED BY <2>0, <3>1, <3>2, QuietCodes DEF Presenting
  <2>11. QED
    BY <1>4, <2>3, <2>4, <2>5, <2>6, <2>7, <2>8, <2>9, <2>10 DEF SignIn
<1>5. QED BY <1>1, <1>2, <1>3, <1>4, NextSplit

-----------------------------------------------------------------------------
(* Outcomes *)

\* A thread past its consumption knows the flow it will settle, and one that
\* reports a success has kept its token.
Honest(t) ==
  /\ task[t].pc \in FinishPcs => task[t].known
  /\ task[t].pc = "consume" /\ task[t].flow \in flows => task[t].known
  /\ task[t].pc = "view" => task[t].flow \in seen.kept
  /\ task[t].pc = "settle" /\ task[t].ok # FALSE => task[t].flow \in seen.kept
Underway(f) == \E t \in ApiThreads : task[t].flow = f /\ task[t].pc \in FinishPcs
Told ==
  /\ \A o \in outcomes : o.status = "ok" => o.flow \in seen.kept
  /\ \A o \in outcomes : o.status = "pending" => Underway(o.flow)
  /\ \A t \in Threads : Honest(t)

LEMMA InitTold == Init => Told
BY IdleFacts DEF Init, Told, Honest, FinishPcs

\* A step of a sign-in that goes on.
LEMMA OnwardTold ==
  ASSUME Typed, Told, NEW t \in Threads, NEW r, Do(t, r), task[t].pc \in FinishPcs, r.pc \in FinishPcs,
         r.flow = task[t].flow, r.known = task[t].known, UNCHANGED store,
         seen.kept \subseteq seen'.kept,
         r.pc = "view" \/ (r.pc = "settle" /\ r.ok # FALSE) => r.flow \in seen'.kept
  PROVE  Told'
<1>1. task'[t] = r /\ \A u \in Threads \ {t} : task'[u] = task[u]
  BY DEF Do, Typed, TypeOK
<1>2. ASSUME NEW f, Underway(f) PROVE Underway(f)'
  <2>1. PICK u \in ApiThreads : task[u].flow = f /\ task[u].pc \in FinishPcs
    BY <1>2 DEF Underway
  <2>2. task'[u].flow = f /\ task'[u].pc \in FinishPcs
    BY <1>1, <2>1 DEF Threads
  <2>3. QED BY <2>2 DEF Underway
<1>3. ASSUME NEW u \in Threads PROVE Honest(u)'
  BY <1>1 DEF Honest, Told, store, FinishPcs
<1>4. QED BY <1>2, <1>3 DEF Told, store

LEMMA StepTold == Typed /\ Told /\ [Next]_vars => Told'
<1> SUFFICES ASSUME Typed, Told, [Next]_vars PROVE Told'
  OBVIOUS
<1>0. /\ task \in [Threads -> Task] /\ SeenTyped /\ \A t \in Threads : AtWork(t)
      /\ outcomes \subseteq Outcome
  BY DEF Typed, TypeOK, SeenTyped
<1>1. CASE UNCHANGED vars
  BY <1>1 DEF vars, Told, Honest, Underway
<1>2. CASE Aside
  <2>1. Elsewhere
    BY <1>2, AsideElsewhere
  <2>2. ASSUME NEW t \in Threads PROVE Honest(t)'
    <3>1. CASE task'[t].pc \notin SignPcs
      BY <3>1 DEF Honest, SignPcs, FinishPcs
    <3>2. CASE task'[t] = task[t]
      BY <2>1, <3>2 DEF Honest, Told, Elsewhere
    <3>3. CASE task'[t].pc \in SignPcs /\ task'[t] # task[t]
      BY <2>1, <3>3 DEF Honest, Elsewhere, FinishPcs
    <3>4. QED BY <3>1, <3>2, <3>3
  <2>3. CASE outcomes' = {}
    BY <2>2, <2>3 DEF Told
  <2>4. CASE outcomes' = outcomes /\ \A t \in ApiThreads : task[t].pc \in FinishPcs => task'[t] = task[t]
    <3>1. \A f : Underway(f) => Underway(f)'
      BY <2>4 DEF Underway
    <3>2. QED BY <2>1, <2>2, <2>4, <3>1 DEF Told, Elsewhere
  <2>5. QED BY <2>1, <2>3, <2>4 DEF Elsewhere
<1>3. ASSUME NEW f \in Flows, NEW p \in Providers, StartSignIn(f, p) PROVE Told'
  <2>1. flows' \subseteq flows \cup {f} /\ owner[f] = "none" /\ outcomes' \subseteq outcomes
        /\ UNCHANGED <<task, seen>>
    BY <1>3 DEF StartSignIn, Newest, Purged, PurgedOutcomes
  <2>2. ASSUME NEW t \in Threads PROVE Honest(t)'
    BY <1>0, <2>1 DEF Honest, Told, AtWork, SignPcs
  <2>3. \A g : Underway(g) => Underway(g)'
    BY <2>1 DEF Underway
  <2>4. QED BY <2>1, <2>2, <2>3 DEF Told
<1>4. ASSUME NEW t \in Threads, SignIn(t) PROVE Told'
  <2>0. task[t] \in Task
    BY <1>0
  <2>1. ASSUME NEW r, Do(t, r)
        PROVE  task'[t] = r /\ \A u \in Threads \ {t} : task'[u] = task[u]
    BY <1>0, <2>1 DEF Do
  <2>2. CASE Consume(t)
    <3>0. PICK f : f = task[t].flow
      OBVIOUS
    <3> DEFINE r == [task[t] EXCEPT !.pc = "finish"]
    <3>1. f \in flows /\ flows' \subseteq flows /\ UNCHANGED seen /\ t \in ApiThreads
      BY <1>0, <2>2, <3>0 DEF Consume, Consumed, Purged, At, AtWork, SignPcs
    <3>2. task[t].pc = "consume" /\ Do(t, r)
      BY <2>2 DEF Consume, To, At
    <3>3. r.pc = "finish" /\ r.flow = f /\ r.known = task[t].known
      BY <2>0, <3>0 DEF Task
    <3>4. \A o \in outcomes' : o \in outcomes \/ (o.flow = f /\ o.status = "pending")
      BY <2>2, <3>0 DEF Consume, LastFew, PurgedOutcomes
    <3> HIDE DEF r
    <3>5. task'[t] = r /\ \A u \in Threads \ {t} : task'[u] = task[u]
      BY <2>1, <3>2
    <3>6. ASSUME NEW u \in Threads PROVE Honest(u)'
      BY <3>0, <3>1, <3>2, <3>3, <3>5 DEF Honest, Told, FinishPcs
    <3>7. Underway(f)'
      BY <3>1, <3>3, <3>5 DEF Underway, FinishPcs, Threads
    <3>8. ASSUME NEW g, Underway(g) PROVE Underway(g)'
      <4>1. PICK u \in ApiThreads : task[u].flow = g /\ task[u].pc \in FinishPcs
        BY <3>8 DEF Underway
      <4>2. u # t
        BY <3>2, <4>1 DEF FinishPcs
      <4>3. task'[u] = task[u]
        BY <3>5, <4>2 DEF Threads
      <4>4. QED BY <4>1, <4>3 DEF Underway
    <3>9. QED BY <3>1, <3>4, <3>6, <3>7, <3>8 DEF Told
  <2>3. CASE ConsumeRefused(t)
    <3>1. flows' \subseteq flows /\ outcomes' \subseteq outcomes /\ UNCHANGED seen
          /\ task[t].pc = "consume" /\ Do(t, Idle)
      BY <2>3 DEF ConsumeRefused, Purged, PurgedOutcomes, At
    <3>2. task'[t] = Idle /\ \A u \in Threads \ {t} : task'[u] = task[u]
      BY <2>1, <3>1
    <3>3. ASSUME NEW u \in Threads PROVE Honest(u)'
      BY <3>1, <3>2, IdleFacts DEF Honest, Told, FinishPcs
    <3>4. ASSUME NEW g, Underway(g) PROVE Underway(g)'
      BY <3>1, <3>2, <3>4 DEF Underway, Threads, FinishPcs
    <3>5. QED BY <3>1, <3>3, <3>4 DEF Told
  <2>4. CASE Settle(t)
    <3> DEFINE f == task[t].flow
    <3>1. task[t].pc = "settle" /\ Do(t, Idle) /\ UNCHANGED <<flows, seen>>
      BY <2>4 DEF Settle, At
    <3>2. task'[t] = Idle /\ \A u \in Threads \ {t} : task'[u] = task[u]
      BY <2>1, <3>1
    <3>3. task[t].known
      BY <3>1 DEF Told, Honest, FinishPcs
    <3>4. outcomes' = {Recorded(o, f, task[t].ok) : o \in outcomes}
      BY <2>4, <3>3 DEF Settle, Settles
    <3>5. ASSUME NEW u \in Threads PROVE Honest(u)'
      BY <3>1, <3>2, IdleFacts DEF Honest, Told, FinishPcs
    <3>6. ASSUME NEW o \in outcomes
          PROVE  LET n == Recorded(o, f, task[t].ok) IN
                 /\ n.flow = o.flow
                 /\ n.status = "ok" => o.status = "ok" \/ (o.flow = f /\ task[t].ok # FALSE)
                 /\ n.status = "pending" => o.status = "pending" /\ o.flow # f
      BY <1>0, <3>6 DEF Recorded, Outcome
    <3>7. task[t].ok # FALSE => f \in seen.kept
      BY <3>1 DEF Told, Honest
    <3>8. ASSUME NEW g, g # f, Underway(g) PROVE Underway(g)'
      BY <3>2, <3>8 DEF Underway, Threads
    <3> HIDE DEF f
    <3>9. QED BY <3>1, <3>4, <3>5, <3>6, <3>7, <3>8 DEF Told
  <2>5. ASSUME NEW ok, Do(t, [task[t] EXCEPT !.pc = "settle", !.ok = ok]), task[t].pc \in FinishPcs,
               UNCHANGED store, seen.kept \subseteq seen'.kept, ok # FALSE => task[t].flow \in seen'.kept
        PROVE  Told'
    <3> DEFINE r == [task[t] EXCEPT !.pc = "settle", !.ok = ok]
    <3>1. r.pc = "settle" /\ r.flow = task[t].flow /\ r.known = task[t].known /\ r.ok = ok
      BY <2>0 DEF Task
    <3>2. Do(t, r)
      BY <2>5
    <3> HIDE DEF r
    <3>3. QED BY <2>5, <3>1, <3>2, OnwardTold DEF FinishPcs
  <2>6. CASE FinishRefused(t) \/ SaveFails(t)
    BY <2>5, <2>6 DEF FinishRefused, SaveFails, Fails, At, FinishPcs
  <2>7. CASE Finish(t)
    <3> DEFINE r == [task[t] EXCEPT !.pc = "exchange", !.loaded = IF Way[task[t].path].cached THEN file ELSE {}]
    <3>1. r.pc = "exchange" /\ r.flow = task[t].flow /\ r.known = task[t].known
      BY <2>0 DEF Task
    <3>2. Do(t, r) /\ task[t].pc \in FinishPcs /\ UNCHANGED store /\ seen' = seen
      BY <2>7 DEF Finish, At, FinishPcs
    <3> HIDE DEF r
    <3>3. QED BY <3>1, <3>2, OnwardTold DEF FinishPcs
  <2>8. CASE Exchange(t)
    <3>1. task[t].pc \in FinishPcs /\ UNCHANGED store /\ seen'.kept = seen.kept
      BY <1>0, <2>8 DEF Exchange, At, FinishPcs, SeenTyped
    <3>2. CASE Fails(t)
      BY <2>5, <3>1, <3>2 DEF Fails
    <3>3. CASE Do(t, [task[t] EXCEPT !.pc = "store", !.token = tally'.issued])
      <4> DEFINE r == [task[t] EXCEPT !.pc = "store", !.token = tally'.issued]
      <4>1. r.pc = "store" /\ r.flow = task[t].flow /\ r.known = task[t].known
        BY <2>0 DEF Task
      <4>2. Do(t, r)
        BY <3>3
      <4> HIDE DEF r
      <4>3. QED BY <3>1, <4>1, <4>2, OnwardTold DEF FinishPcs
    <3>4. QED BY <2>8, <3>2, <3>3 DEF Exchange
  <2>9. CASE StoreToken(t)
    <3>1. task[t].pc \in FinishPcs /\ UNCHANGED store
      BY <2>9 DEF StoreToken, At, FinishPcs
    <3>2. CASE Fails(t) /\ seen' = seen
      BY <2>5, <3>1, <3>2 DEF Fails
    <3>3. CASE /\ seen' = [seen EXCEPT !.kept = @ \cup {task[t].flow}]
               /\ Do(t, [task[t] EXCEPT !.pc = "settle", !.ok = TRUE])
      <4>1. seen'.kept = seen.kept \cup {task[t].flow}
        BY <1>0, <3>3 DEF SeenTyped
      <4>2. QED BY <2>5, <3>1, <3>3, <4>1
    <3>4. QED BY <2>9, <3>2, <3>3 DEF StoreToken
  <2>10. CASE SaveCache(t)
    <3> DEFINE r == [task[t] EXCEPT !.pc = "view"]
    <3>1. r.pc = "view" /\ r.flow = task[t].flow /\ r.known = task[t].known
      BY <2>0 DEF Task
    <3>2. Do(t, r) /\ task[t].pc \in FinishPcs /\ UNCHANGED store
      BY <2>10 DEF SaveCache, To, At, FinishPcs
    <3>3. seen'.kept = seen.kept \cup {task[t].flow}
      BY <1>0, <2>10 DEF SaveCache, SeenTyped
    <3> HIDE DEF r
    <3>4. QED BY <3>1, <3>2, <3>3, OnwardTold DEF FinishPcs
  <2>11. CASE FinishView(t)
    <3>1. task[t].pc = "view" /\ UNCHANGED store /\ seen' = seen
      BY <2>11 DEF FinishView, At
    <3>2. task[t].flow \in seen.kept
      BY <3>1 DEF Told, Honest
    <3>3. QED BY <2>5, <2>11, <3>1, <3>2 DEF FinishView, FinishPcs
  <2>12. QED
    BY <1>4, <2>2, <2>3, <2>4, <2>6, <2>7, <2>8, <2>9, <2>10, <2>11 DEF SignIn
<1>5. QED BY <1>1, <1>2, <1>3, <1>4, NextSplit

\* A browser is told "ok" only of a sign-in that was kept, and "pending" only
\* while a thread is at work on it.
THEOREM StatusesTrue == Spec => []StatusIsTrue
<1>1. Spec => [](Typed /\ Told)
  BY InitTyped, StepTyped, InitTold, StepTold, PTL DEF Spec
<1>2. ASSUME Told PROVE OkIsKept
  <2> SUFFICES ASSUME NEW f \in Flows, Status(f) = "ok" PROVE f \in seen.kept
    BY DEF OkIsKept
  <2>1. "ok" \in Outcomes(f)
    BY DEF Status
  <2>2. QED BY <1>2, <2>1 DEF Outcomes, Told
<1>3. Told => PendingIsUnderway
  BY DEF Told, Underway, PendingIsUnderway
<1>4. QED BY <1>1, <1>2, <1>3, PTL DEF StatusIsTrue

-----------------------------------------------------------------------------
(* The cache file *)

\* One thread at a time is between load and save, and what it loaded is still
\* what the file holds.
InAlias(t) == At(t, "silent") \/ (task[t].pc \in {"exchange", "store"} /\ Way[task[t].path].cached)
Ways == {"finish", "exchange", "store", "view"}
FileKept ==
  /\ \A t \in Threads : InAlias(t) => /\ t \in ApiThreads /\ task[t].loaded = file
                                      /\ \A u \in Threads \ {t} : ~InAlias(u)
  /\ \A t \in Threads : task[t].pc \in Ways => owner[task[t].flow] = task[t].path
  /\ \A f \in seen.kept : owner[f] # "none" /\ (Way[owner[f]].cached => f \in file)

LEMMA InitFile == Init => FileKept
BY IdleFacts DEF Init, FileKept, InAlias, At, Ways

\* A step outside the section.
LEMMA QuietFile ==
  ASSUME FileKept, owner' = owner, file' = file, seen'.kept = seen.kept,
         \A t \in Threads : /\ InAlias(t)' => InAlias(t) /\ task'[t].loaded = task[t].loaded
                            /\ task'[t].pc \in Ways => /\ task[t].pc \in Ways
                                                       /\ task'[t].flow = task[t].flow
                                                       /\ task'[t].path = task[t].path
  PROVE  FileKept'
BY DEF FileKept

LEMMA StepFile ==
  ASSUME Silent \subseteq ApiThreads, Typed, FileKept, [Next]_vars
  PROVE  FileKept'
<1>0. /\ task \in [Threads -> Task] /\ SeenTyped /\ \A t \in Threads : AtWork(t)
      /\ owner \in [Flows -> Providers \cup {"none"}]
  BY DEF Typed, TypeOK, SeenTyped
<1>1. CASE UNCHANGED vars
  BY <1>1, QuietFile DEF vars, InAlias, At
<1>a. ASSUME NEW t \in Threads, t \in ApiThreads, AliasFree(t)
      PROVE  \A u \in Threads \ {t} : ~InAlias(u)
  BY <1>a DEF AliasFree, FileKept, InAlias, Proc
<1>b. ASSUME NEW t \in Threads, NEW r, Do(t, r)
      PROVE  task'[t] = r /\ \A u \in Threads \ {t} : task'[u] = task[u]
  BY <1>0, <1>b DEF Do
<1>2. CASE Aside
  <2>1. Elsewhere
    BY <1>2, AsideElsewhere
  <2>2. CASE file' = file /\ \A t \in Threads : task'[t].pc = "silent" => task'[t] = task[t]
    <3>1. ASSUME NEW t \in Threads, InAlias(t)' PROVE InAlias(t) /\ task'[t].loaded = task[t].loaded
      BY <2>1, <2>2, <3>1 DEF Elsewhere, InAlias, At, SignPcs, FinishPcs
    <3>2. ASSUME NEW t \in Threads, task'[t].pc \in Ways PROVE task'[t] = task[t]
      BY <2>1, <3>2 DEF Elsewhere, Ways, SignPcs, FinishPcs
    <3>3. QED BY <2>1, <2>2, <3>1, <3>2, QuietFile DEF Elsewhere
  <2>3. ASSUME NEW t \in Threads, SilentLoad(t) PROVE FileKept'
    <3>1. t \in ApiThreads /\ AliasFree(t) /\ UNCHANGED <<owner, file, seen>>
      BY <2>3 DEF SilentLoad, tokens
    <3>2. [Idle EXCEPT !.pc = "silent", !.loaded = file].pc = "silent"
          /\ [Idle EXCEPT !.pc = "silent", !.loaded = file].loaded = file
      BY IdleFacts DEF Task
    <3>3. /\ task'[t].pc = "silent" /\ task'[t].loaded = file
          /\ \A u \in Threads \ {t} : task'[u] = task[u]
      BY <1>b, <2>3, <3>2 DEF SilentLoad
    <3>4. \A u \in Threads \ {t} : ~InAlias(u)
      BY <1>a, <3>1
    <3>5. QED BY <3>1, <3>3, <3>4 DEF FileKept, InAlias, At, Ways
  <2>4. ASSUME NEW t \in Threads, SilentSave(t) PROVE FileKept'
    <3>1. task[t].loaded = file
      BY <2>4 DEF SilentSave, FileKept, InAlias
    <3>2. file' = file /\ UNCHANGED <<owner, seen>>
      BY <2>4, <3>1 DEF SilentSave
    <3>3. task'[t] = Idle /\ \A u \in Threads \ {t} : task'[u] = task[u]
      BY <1>b, <2>4 DEF SilentSave
    <3>4. QED BY <3>2, <3>3, IdleFacts, QuietFile DEF InAlias, At, Ways
  <2>5. QED BY <2>1, <2>2, <2>3, <2>4 DEF Elsewhere
<1>3. ASSUME NEW f \in Flows, NEW p \in Providers, StartSignIn(f, p) PROVE FileKept'
  <2>1. owner[f] = "none" /\ owner' = [owner EXCEPT ![f] = p] /\ UNCHANGED <<task, file, seen>>
    BY <1>3 DEF StartSignIn, tokens
  <2>2. \A t \in Threads : task[t].pc \in Ways => task[t].flow \in Flows /\ owner[task[t].flow] # "none"
    BY <1>0 DEF AtWork, Ways, SignPcs, FinishPcs
  <2>3. seen.kept \subseteq Flows
    BY <1>0 DEF SeenTyped
  <2>4. QED BY <1>0, <2>1, <2>2, <2>3 DEF FileKept, InAlias, At
<1>4. ASSUME NEW t \in Threads, SignIn(t) PROVE FileKept'
  <2>0. task[t] \in Task /\ owner' = owner
    BY <1>0, <1>4 DEF SignIn, Consume, ConsumeRefused, Settle, FinishRefused, Finish, Exchange,
                      StoreToken, SaveCache, SaveFails, FinishView
  <2>1. ASSUME NEW r, Do(t, r), r.pc \notin Ways \cup {"silent"}, file' = file, seen'.kept = seen.kept
        PROVE  FileKept'
    <3>1. task'[t] = r /\ \A u \in Threads \ {t} : task'[u] = task[u]
      BY <1>b, <2>1
    <3>2. QED BY <2>0, <2>1, <3>1, QuietFile DEF InAlias, At, Ways
  <2>2. ASSUME NEW ok PROVE [task[t] EXCEPT !.pc = "settle", !.ok = ok].pc = "settle"
    BY <2>0 DEF Task
  <2>3. CASE Consume(t)
    <3>1. owner[task[t].flow] = task[t].path /\ UNCHANGED <<file, seen>>
      BY <2>3 DEF Consume, tokens
    <3>2. [task[t] EXCEPT !.pc = "finish"].pc = "finish"
          /\ [task[t] EXCEPT !.pc = "finish"].flow = task[t].flow
          /\ [task[t] EXCEPT !.pc = "finish"].path = task[t].path
      BY <2>0 DEF Task
    <3>3. /\ task'[t].pc = "finish" /\ task'[t].flow = task[t].flow /\ task'[t].path = task[t].path
          /\ \A u \in Threads \ {t} : task'[u] = task[u]
      BY <1>b, <2>3, <3>2 DEF Consume, To
    <3>4. QED BY <2>0, <3>1, <3>3 DEF FileKept, InAlias, At, Ways
  <2>4. CASE ConsumeRefused(t) \/ Settle(t)
    BY <2>1, <2>4, IdleFacts DEF ConsumeRefused, Settle, tokens, Ways
  <2>5. CASE FinishRefused(t) \/ SaveFails(t) \/ FinishView(t)
    <3>1. file' = file /\ seen' = seen
      BY <2>5 DEF FinishRefused, SaveFails, FinishView, tokens
    <3>2. QED BY <2>1, <2>2, <2>5, <3>1 DEF FinishRefused, SaveFails, FinishView, Fails, Ways
  <2>6. CASE Finish(t)
    <3> DEFINE r == [task[t] EXCEPT !.pc = "exchange", !.loaded = IF Way[task[t].path].cached THEN file ELSE {}]
    <3>1. r.pc = "exchange" /\ r.flow = task[t].flow /\ r.path = task[t].path
          /\ (Way[task[t].path].cached => r.loaded = file)
      BY <2>0 DEF Task
    <3>2. Do(t, r) /\ task[t].pc = "finish" /\ UNCHANGED <<file, seen>>
      BY <2>6 DEF Finish, At, tokens
    <3> HIDE DEF r
    <3>3. task'[t] = r /\ \A u \in Threads \ {t} : task'[u] = task[u]
      BY <1>b, <3>2
    <3>4. t \in ApiThreads
      BY <1>0, <3>2 DEF AtWork, SignPcs, FinishPcs
    <3>5. Way[task[t].path].cached => \A u \in Threads \ {t} : ~InAlias(u)
      BY <1>a, <2>6, <3>4 DEF Finish
    <3>6. QED BY <2>0, <3>1, <3>2, <3>3, <3>4, <3>5 DEF FileKept, InAlias, At, Ways
  <2>7. CASE Exchange(t)
    <3>1. task[t].pc = "exchange" /\ file' = file /\ seen'.kept = seen.kept
      BY <1>0, <2>7 DEF Exchange, At, SeenTyped
    <3>2. CASE Fails(t)
      BY <2>1, <2>2, <3>1, <3>2 DEF Fails, Ways
    <3>3. CASE Do(t, [task[t] EXCEPT !.pc = "store", !.token = tally'.issued])
      <4> DEFINE r == [task[t] EXCEPT !.pc = "store", !.token = tally'.issued]
      <4>1. r.pc = "store" /\ r.flow = task[t].flow /\ r.path = task[t].path /\ r.loaded = task[t].loaded
        BY <2>0 DEF Task
      <4>2. task'[t] = r /\ \A u \in Threads \ {t} : task'[u] = task[u]
        BY <1>b, <3>3
      <4> HIDE DEF r
      <4>3. QED BY <2>0, <3>1, <4>1, <4>2, QuietFile DEF InAlias, At, Ways
    <3>4. QED BY <2>7, <3>2, <3>3 DEF Exchange
  <2>8. CASE StoreToken(t)
    <3>1. task[t].pc = "store" /\ file' = file /\ ~Way[task[t].path].cached
      BY <2>8 DEF StoreToken, At
    <3>2. owner[task[t].flow] = task[t].path /\ owner[task[t].flow] # "none"
      BY <1>0, <3>1 DEF FileKept, Ways, AtWork, SignPcs, FinishPcs
    <3>3. seen'.kept \subseteq seen.kept \cup {task[t].flow}
      BY <1>0, <2>8 DEF StoreToken, SeenTyped
    <3>4. PICK r : Do(t, r) /\ r.pc = "settle"
      BY <2>2, <2>8 DEF StoreToken, Fails
    <3>5. task'[t].pc = "settle" /\ \A u \in Threads \ {t} : task'[u] = task[u]
      BY <1>b, <3>4
    <3>6. QED BY <2>0, <3>1, <3>2, <3>3, <3>5 DEF FileKept, InAlias, At, Ways
  <2>9. CASE SaveCache(t)
    <3>1. task[t].pc = "store" /\ InAlias(t)
      BY <2>9 DEF SaveCache, At, InAlias
    <3>2. owner[task[t].flow] = task[t].path /\ owner[task[t].flow] # "none"
      BY <1>0, <3>1 DEF FileKept, Ways, AtWork, SignPcs, FinishPcs
    <3>3. seen'.kept = seen.kept \cup {task[t].flow} /\ file' = file \cup {task[t].flow}
      BY <1>0, <2>9, <3>1 DEF SaveCache, SeenTyped, FileKept
    <3>4. [task[t] EXCEPT !.pc = "view"].pc = "view"
          /\ [task[t] EXCEPT !.pc = "view"].flow = task[t].flow
          /\ [task[t] EXCEPT !.pc = "view"].path = task[t].path
      BY <2>0 DEF Task
    <3>5. /\ task'[t].pc = "view" /\ task'[t].flow = task[t].flow /\ task'[t].path = task[t].path
          /\ \A u \in Threads \ {t} : task'[u] = task[u]
      BY <1>b, <2>9, <3>4 DEF SaveCache, To
    <3>6. \A u \in Threads \ {t} : ~InAlias(u)
      BY <3>1 DEF FileKept
    <3>7. QED BY <2>0, <3>2, <3>3, <3>5, <3>6 DEF FileKept, InAlias, At, Ways
  <2>10. QED
    BY <1>4, <2>3, <2>4, <2>5, <2>6, <2>7, <2>8, <2>9 DEF SignIn
<1>5. QED BY <1>1, <1>2, <1>3, <1>4, NextSplit

\* While only threads of the API refresh silently, a Microsoft sign-in that was
\* kept stays in the cache file: the alias lock is enough.
THEOREM SignInsLast ==
  ASSUME Silent \subseteq ApiThreads
  PROVE  Spec => []SignInKept
<1>1. Typed /\ FileKept /\ [Next]_vars => FileKept'
  BY StepFile
<1>2. Spec => [](Typed /\ FileKept)
  BY <1>1, InitTyped, StepTyped, InitFile, PTL DEF Spec
<1>3. FileKept => SignInKept
  BY DEF FileKept, SignInKept
<1>4. QED BY <1>2, <1>3, PTL

-----------------------------------------------------------------------------
(* Zoom's tokens *)

\* Between the lock file's acquisition and release; and with a token that was
\* issued but is not stored yet.
Locked == {"zcall", "zstore", "zcache"}
Holding == {"store", "zstore"}

\* The token in the store was spent only while the thread that spent it is about
\* to store the next one, and what threads hold is new, and their own.
SpentOnce ==
  /\ \A t \in Threads : task[t].pc \in Locked => \A u \in Threads \ {t} : task[u].pc \notin Locked
  /\ \A n \in seen.spent : n <= tally.issued
  /\ "zoom" \in Providers =>
       /\ conn["zoom"] <= tally.issued
       /\ conn["zoom"] \in seen.spent \ seen.lost =>
            \E t \in Threads : task[t].pc = "zstore" /\ task[t].old = conn["zoom"]
  /\ \A t \in Threads : task[t].pc = "zcall" =>
       task[t].token <= tally.issued /\ task[t].token \notin seen.spent \ seen.lost
  /\ \A t \in Threads : task[t].pc \in Holding =>
       /\ task[t].token <= tally.issued /\ task[t].token \notin seen.spent
       /\ "zoom" \in Providers => task[t].token # conn["zoom"]
       /\ \A u \in Threads \ {t} :
            task[u].pc \in Holding \cup {"zcall"} => task[u].token # task[t].token

LEMMA InitSpent == Init => SpentOnce
BY IdleFacts, ThreadAssumption DEF Init, SpentOnce, Locked, Holding

\* A step that issues, spends and stores no token of Zoom's.
LEMMA QuietSpent ==
  ASSUME Typed, SpentOnce, tally'.issued = tally.issued,
         seen'.spent = seen.spent, seen.lost \subseteq seen'.lost,
         "zoom" \in Providers => conn'["zoom"] \in {conn["zoom"], -1},
         \A t \in Threads :
           /\ task'[t].pc \in Locked \cup Holding => task'[t] = task[t]
           /\ task[t].pc = "zstore" => task'[t] = task[t] \/ task[t].old \in seen'.lost
  PROVE  SpentOnce'
<1>0. /\ SeenTyped /\ TallyTyped /\ \A t \in Threads : task[t].token \in Nat
      /\ "zoom" \in Providers => conn["zoom"] \in Int
  BY DEF Typed, TypeOK, SeenTyped, TallyTyped, Task
<1>1. seen.spent \subseteq Nat /\ tally.issued \in Nat
  BY <1>0 DEF SeenTyped, TallyTyped
<1>2. \A t \in Threads : task'[t].pc \in Locked =>
        \A u \in Threads \ {t} : task'[u].pc \notin Locked
  BY DEF SpentOnce
<1>3. ASSUME "zoom" \in Providers
      PROVE  /\ conn'["zoom"] <= tally'.issued
             /\ conn'["zoom"] \in seen'.spent \ seen'.lost =>
                  \E t \in Threads : task'[t].pc = "zstore" /\ task'[t].old = conn'["zoom"]
  <2>1. CASE conn'["zoom"] = -1
    BY <1>1, <2>1
  <2>2. CASE conn'["zoom"] = conn["zoom"]
    BY <1>3, <2>2 DEF SpentOnce
  <2>3. QED BY <1>3, <2>1, <2>2
<1>4. ASSUME NEW t \in Threads, task'[t].pc \in Holding
      PROVE  /\ task'[t].token <= tally'.issued /\ task'[t].token \notin seen'.spent
             /\ "zoom" \in Providers => task'[t].token # conn'["zoom"]
             /\ \A u \in Threads \ {t} :
                  task'[u].pc \in Holding \cup {"zcall"} => task'[u].token # task'[t].token
  <2>1. task'[t] = task[t]
    BY <1>4
  <2>2. "zoom" \in Providers => task[t].token # conn'["zoom"]
    BY <1>0, <1>4, <2>1 DEF SpentOnce
  <2>3. \A u \in Threads : task'[u].pc \in Holding \cup {"zcall"} => task'[u] = task[u]
    BY DEF Locked
  <2>4. QED BY <1>4, <2>1, <2>2, <2>3 DEF SpentOnce
<1>5. \A t \in Threads : task'[t].pc = "zcall" =>
        task'[t].token <= tally'.issued /\ task'[t].token \notin seen'.spent \ seen'.lost
  BY DEF SpentOnce, Locked
<1>6. QED BY <1>1, <1>2, <1>3, <1>4, <1>5 DEF SpentOnce

LEMMA QuietMove ==
  ASSUME Typed, SpentOnce, NEW t \in Threads, NEW r, Do(t, r), r.pc \notin Locked \cup Holding,
         task[t].pc = "zstore" => task[t].old \in seen'.lost,
         conn' = conn, seen'.spent = seen.spent, seen.lost \subseteq seen'.lost,
         tally'.issued = tally.issued
  PROVE  SpentOnce'
<1>1. task'[t] = r /\ \A u \in Threads \ {t} : task'[u] = task[u]
  BY DEF Do, Typed, TypeOK
<1>2. QED BY <1>1, QuietSpent

LEMMA CountedIssued ==
  ASSUME TallyTyped, NEW kind \in {"consumed", "ops", "faults"}, tally' = [tally EXCEPT ![kind] = @ + 1]
  PROVE  tally'.issued = tally.issued
BY DEF TallyTyped

LEMMA SignInSpent ==
  ASSUME Typed, SpentOnce, NEW t \in Threads, SignIn(t)
  PROVE  SpentOnce'
<1>0. /\ task \in [Threads -> Task] /\ task[t] \in Task /\ SeenTyped /\ TallyTyped /\ AtWork(t)
      /\ conn \in [Providers -> Int]
  BY DEF Typed, TypeOK, SeenTyped, TallyTyped
<1>1. ASSUME NEW x
      PROVE  /\ [task[t] EXCEPT !.pc = "finish"].pc = "finish"
             /\ [task[t] EXCEPT !.pc = "view"].pc = "view"
             /\ [task[t] EXCEPT !.pc = "settle", !.ok = x].pc = "settle"
             /\ [task[t] EXCEPT !.pc = "exchange", !.loaded = x].pc = "exchange"
  BY <1>0 DEF Task
<1>2. ASSUME NEW r, Do(t, r), r.pc \in {"idle", "finish", "view", "settle", "exchange"},
             task[t].pc # "zstore", conn' = conn,
             UNCHANGED <<seen, live>> \/ (seen'.spent = seen.spent /\ seen'.lost = seen.lost),
             tally'.issued = tally.issued
      PROVE  SpentOnce'
  BY <1>2, QuietMove DEF Locked, Holding
<1>3. CASE Consume(t)
  <2>1. tally'.issued = tally.issued
    BY <1>0, <1>3, CountedIssued DEF Consume
  <2>2. QED BY <1>1, <1>2, <1>3, <2>1 DEF Consume, To, At, tokens
<1>4. CASE ConsumeRefused(t) \/ Settle(t)
  BY <1>2, <1>4, IdleFacts DEF ConsumeRefused, Settle, At, tokens
<1>5. CASE FinishRefused(t) \/ FinishView(t)
  BY <1>1, <1>2, <1>5 DEF FinishRefused, FinishView, Fails, At, tokens
<1>6. CASE SaveFails(t)
  <2>1. tally'.issued = tally.issued
    BY <1>0, <1>6, CountedIssued DEF SaveFails, Counted
  <2>2. QED BY <1>1, <1>2, <1>6, <2>1 DEF SaveFails, Fails, At, tokens
<1>7. CASE Finish(t)
  BY <1>1, <1>2, <1>7 DEF Finish, At, tokens
<1>8. CASE SaveCache(t)
  <2>1. seen'.spent = seen.spent /\ seen'.lost = seen.lost
    BY <1>0, <1>8 DEF SaveCache, SeenTyped
  <2>2. QED BY <1>1, <1>2, <1>8, <2>1 DEF SaveCache, To, At
<1>9. CASE Exchange(t)
  <2>1. task[t].pc = "exchange" /\ conn' = conn /\ seen'.spent = seen.spent /\ seen'.lost = seen.lost
    BY <1>0, <1>9 DEF Exchange, At, SeenTyped
  <2>2. CASE Fails(t) /\ UNCHANGED <<live, tally>>
    BY <1>1, <1>2, <2>1, <2>2 DEF Fails
  <2>3. CASE /\ tally' = [tally EXCEPT !.issued = @ + 1]
             /\ Do(t, [task[t] EXCEPT !.pc = "store", !.token = tally'.issued])
    <3>1. tally'.issued = tally.issued + 1 /\ tally.issued \in Nat
      BY <1>0, <2>3 DEF TallyTyped
    <3>2. /\ task'[t].pc = "store" /\ task'[t].token = tally.issued + 1
          /\ \A u \in Threads \ {t} : task'[u] = task[u]
      BY <1>0, <2>3, <3>1 DEF Do, Task
    <3>3. /\ \A u \in Threads : task[u].token \in Nat
          /\ "zoom" \in Providers => conn["zoom"] \in Int
          /\ seen.spent \subseteq Nat
      BY <1>0 DEF Task, SeenTyped
    <3>4. "store" \in Holding /\ "store" \notin Locked /\ "store" # "zcall" /\ "store" # "zstore"
      BY DEF Holding, Locked
    <3>5. QED BY <2>1, <3>1, <3>2, <3>3, <3>4 DEF SpentOnce
  <2>4. QED BY <1>9, <2>2, <2>3 DEF Exchange
<1>10. CASE StoreToken(t)
  <2>1. task[t].pc = "store" /\ tally' = tally
    BY <1>10 DEF StoreToken, At
  <2>2. CASE Fails(t) /\ UNCHANGED <<conn, seen>>
    BY <1>1, <1>2, <2>1, <2>2 DEF Fails
  <2>3. CASE /\ conn' = [conn EXCEPT ![task[t].path] = task[t].token]
             /\ seen' = [seen EXCEPT !.kept = @ \cup {task[t].flow}]
             /\ Do(t, [task[t] EXCEPT !.pc = "settle", !.ok = TRUE])
    <3>1. seen'.spent = seen.spent /\ seen'.lost = seen.lost
      BY <1>0, <2>3 DEF SeenTyped
    <3>2. task'[t].pc = "settle" /\ \A u \in Threads \ {t} : task'[u] = task[u]
      BY <1>0, <1>1, <2>3 DEF Do
    <3>3. task[t].path \in Providers
      BY <1>0, <2>1 DEF AtWork, SignPcs, FinishPcs
    <3>4. CASE task[t].path # "zoom"
      <4>1. "zoom" \in Providers => conn'["zoom"] = conn["zoom"]
        BY <1>0, <2>3, <3>3, <3>4
      <4>2. QED BY <2>1, <3>1, <3>2, <4>1, QuietSpent DEF Locked, Holding
    <3>5. CASE task[t].path = "zoom"
      <4>1. conn'["zoom"] = task[t].token
        BY <1>0, <2>3, <3>3, <3>5
      <4>2. "store" \in Holding /\ "settle" \notin Locked \cup Holding
        BY DEF Locked, Holding
      <4>3. QED BY <2>1, <3>1, <3>2, <4>1, <4>2 DEF SpentOnce
    <3>6. QED BY <3>4, <3>5
  <2>4. QED BY <1>10, <2>2, <2>3 DEF StoreToken
<1>11. QED
  BY <1>3, <1>4, <1>5, <1>6, <1>7, <1>8, <1>9, <1>10 DEF SignIn

LEMMA RefreshSpent ==
  ASSUME Typed, SpentOnce, NEW t \in Threads, Refresh(t)
  PROVE  SpentOnce'
<1>0. /\ task \in [Threads -> Task] /\ task[t] \in Task /\ SeenTyped /\ TallyTyped /\ AtWork(t)
      /\ conn \in [Providers -> Int] /\ ConnTyped
      /\ \A u \in Threads : task[u].token \in Nat /\ task[u].old \in Nat
      /\ seen.spent \subseteq Nat /\ tally.issued \in Nat
  BY DEF Typed, TypeOK, SeenTyped, TallyTyped, Task
<1>1. ASSUME NEW x
      PROVE  /\ [Idle EXCEPT !.pc = "zread"].pc = "zread"
             /\ [task[t] EXCEPT !.pc = "zflock", !.token = x].pc = "zflock"
             /\ [task[t] EXCEPT !.pc = "zcall", !.token = x].pc = "zcall"
             /\ [task[t] EXCEPT !.pc = "zcall", !.token = x].token = x
             /\ [task[t] EXCEPT !.pc = "zcache"].pc = "zcache"
             /\ [task[t] EXCEPT !.pc = "zcache"].token = task[t].token
  BY <1>0, IdleFacts DEF Task
<1>a. ASSUME NEW x, NEW y
      PROVE  LET r == [task[t] EXCEPT !.pc = "zstore", !.old = x, !.token = y] IN
             r.pc = "zstore" /\ r.old = x /\ r.token = y
  BY <1>0 DEF Task
<1>2. ASSUME NEW r, Do(t, r), r.pc \in {"idle", "zread", "zflock"}, task[t].pc # "zstore",
             conn' = conn, UNCHANGED seen, tally'.issued = tally.issued
      PROVE  SpentOnce'
  BY <1>2, QuietMove DEF Locked, Holding
<1>3. ASSUME NEW r, Do(t, r)
      PROVE  task'[t] = r /\ \A u \in Threads \ {t} : task'[u] = task[u]
  BY <1>0, <1>3 DEF Do
<1>4. CASE ZoomAsk(t)
  <2>1. tally'.issued = tally.issued
    BY <1>0, <1>4, CountedIssued DEF ZoomAsk, Counted
  <2>2. QED BY <1>1, <1>2, <1>4, <2>1 DEF ZoomAsk, At, tokens
<1>5. CASE ZoomRead(t)
  <2>1. \E r : Do(t, r) /\ r.pc \in {"idle", "zflock"}
    <3>1. Do(t, Idle) \/ Do(t, [task[t] EXCEPT !.pc = "zflock", !.token = conn["zoom"]])
      BY <1>5 DEF ZoomRead
    <3>2. [task[t] EXCEPT !.pc = "zflock", !.token = conn["zoom"]].pc = "zflock"
      BY <1>1
    <3>3. QED BY <3>1, <3>2, IdleFacts
  <2>2. task[t].pc = "zread" /\ UNCHANGED <<conn, seen, tally>>
    BY <1>5 DEF ZoomRead, At, tokens
  <2>3. QED BY <1>2, <2>1, <2>2
<1>6. CASE ZoomReread(t)
  <2>1. task[t].pc = "zflock" /\ FlockFree(t) /\ UNCHANGED <<conn, seen, tally>>
    BY <1>6 DEF ZoomReread, At, tokens
  <2>2. CASE Do(t, Idle)
    BY <1>2, <2>1, <2>2, IdleFacts
  <2>3. CASE ~ZoomServed(t) /\ Do(t, [task[t] EXCEPT !.pc = "zcall", !.token = conn["zoom"]])
    <3>1. task'[t].pc = "zcall" /\ task'[t].token = conn["zoom"] /\ \A u \in Threads \ {t} : task'[u] = task[u]
      <4> DEFINE r == [task[t] EXCEPT !.pc = "zcall", !.token = conn["zoom"]]
      <4>1. r.pc = "zcall" /\ r.token = conn["zoom"]
        BY <1>1
      <4>2. Do(t, r)
        BY <2>3
      <4> HIDE DEF r
      <4>3. QED BY <1>3, <4>1, <4>2
    <3>2. "zoom" \in Providers
      BY <1>0, <2>1 DEF AtWork, ZoomPcs
    <3>3. \A u \in Threads \ {t} : task[u].pc \notin Locked
      BY <2>1 DEF FlockFree, Locked
    <3>4. conn["zoom"] \notin seen.spent \ seen.lost
      BY <2>1, <3>2, <3>3 DEF SpentOnce, Locked
    <3>5. \A u \in Threads : task'[u].pc = "zstore" => FALSE
      BY <3>1, <3>3 DEF Locked
    <3>6. QED BY <2>1, <3>1, <3>2, <3>3, <3>4, <3>5 DEF SpentOnce, Holding, Locked
  <2>4. QED BY <1>6, <2>2, <2>3 DEF ZoomReread
<1>7. CASE ZoomRefresh(t)
  <2> DEFINE tok == task[t].token
  <2>1. task[t].pc = "zcall" /\ conn' = conn /\ tally'.issued = tally.issued + 1
    BY <1>0, <1>7 DEF ZoomRefresh, At, TallyTyped
  <2>2. seen'.spent = seen.spent \cup {tok} /\ seen'.lost = seen.lost
    BY <1>0, <1>7 DEF ZoomRefresh, SeenTyped
  <2>3. /\ task'[t].pc = "zstore" /\ task'[t].old = tok /\ task'[t].token = tally.issued + 1
        /\ \A u \in Threads \ {t} : task'[u] = task[u]
    <3> DEFINE r == [task[t] EXCEPT !.pc = "zstore", !.old = tok, !.token = tally'.issued]
    <3>1. r.pc = "zstore" /\ r.old = tok /\ r.token = tally.issued + 1
      BY <1>a, <2>1
    <3>2. Do(t, r)
      BY <1>7 DEF ZoomRefresh
    <3> HIDE DEF r
    <3>3. QED BY <1>3, <3>1, <3>2
  <2>4. \A u \in Threads \ {t} : task[u].pc \notin Locked
    BY <2>1 DEF SpentOnce, Locked
  <2>5. tok <= tally.issued /\ \A u \in Threads \ {t} : task[u].pc \in Holding => task[u].token # tok
    BY <2>1 DEF SpentOnce
  <2>6. \A u \in Threads : task'[u].pc = "zcall" => FALSE
    BY <2>3, <2>4 DEF Locked
  <2>7. \A u \in Threads : task'[u].pc \in Locked => u = t
    BY <2>3, <2>4
  <2>8. \A n \in seen'.spent : n <= tally'.issued
    BY <1>0, <2>1, <2>2, <2>5 DEF SpentOnce
  <2>9. ASSUME "zoom" \in Providers
        PROVE  /\ conn'["zoom"] <= tally'.issued
               /\ conn'["zoom"] \in seen'.spent \ seen'.lost =>
                    \E u \in Threads : task'[u].pc = "zstore" /\ task'[u].old = conn'["zoom"]
    <3>1. conn["zoom"] \in Int /\ conn["zoom"] <= tally.issued
      BY <1>0, <2>9 DEF SpentOnce
    <3>2. conn["zoom"] \notin seen.spent \ seen.lost
      BY <2>1, <2>4, <2>9 DEF SpentOnce, Locked
    <3>3. QED BY <1>0, <2>1, <2>2, <2>3, <3>1, <3>2
  <2>10. ASSUME NEW u \in Threads, task'[u].pc \in Holding
         PROVE  /\ task'[u].token <= tally'.issued /\ task'[u].token \notin seen'.spent
                /\ "zoom" \in Providers => task'[u].token # conn'["zoom"]
                /\ \A v \in Threads \ {u} :
                     task'[v].pc \in Holding \cup {"zcall"} => task'[v].token # task'[u].token
    <3>1. \A v \in Threads \ {t} : task[v].pc \in Holding => task[v].token <= tally.issued
      BY DEF SpentOnce
    <3>2. "zoom" \in Providers => conn["zoom"] \in Int /\ conn["zoom"] <= tally.issued
      BY <1>0 DEF SpentOnce
    <3>3. CASE u = t
      BY <1>0, <2>1, <2>2, <2>3, <2>5, <2>6, <2>8, <3>1, <3>2, <3>3 DEF SpentOnce
    <3>4. CASE u # t
      BY <1>0, <2>1, <2>2, <2>3, <2>5, <2>6, <2>10, <3>1, <3>4 DEF SpentOnce
    <3>5. QED BY <3>3, <3>4
  <2>11. QED BY <2>6, <2>7, <2>8, <2>9, <2>10 DEF SpentOnce
<1>8. CASE ZoomRejected(t)
  BY <1>2, <1>8, IdleFacts DEF ZoomRejected, At, tokens
<1>9. CASE ZoomFails(t)
  <2>1. tally'.issued = tally.issued
    BY <1>0, <1>9, CountedIssued DEF ZoomFails, Counted
  <2>2. seen'.spent = seen.spent /\ seen.lost \subseteq seen'.lost
        /\ (task[t].pc = "zstore" => task[t].old \in seen'.lost)
    BY <1>0, <1>9 DEF ZoomFails, SeenTyped, At
  <2>3. Do(t, Idle) /\ conn' = conn /\ Idle.pc \notin Locked \cup Holding
    BY <1>9, IdleFacts DEF ZoomFails, tokens, Locked, Holding
  <2>4. QED BY <2>1, <2>2, <2>3, QuietMove
<1>10. CASE ZoomStore(t)
  <2>1. task[t].pc = "zstore" /\ UNCHANGED <<seen, tally>> /\ "zoom" \in Providers
    BY <1>0, <1>10 DEF ZoomStore, At, AtWork, ZoomPcs
  <2>2. \A u \in Threads \ {t} : task[u].pc \notin Locked
    BY <2>1 DEF SpentOnce, Locked
  <2>3. CASE conn["zoom"] = -1 /\ Do(t, Idle) /\ UNCHANGED conn
    <3>1. task'[t] = Idle /\ \A u \in Threads \ {t} : task'[u] = task[u]
      BY <1>3, <2>3
    <3>2. conn'["zoom"] \notin seen'.spent
      BY <1>0, <2>1, <2>3
    <3>3. QED BY <2>1, <2>3, <3>1, <3>2, IdleFacts DEF SpentOnce, Locked, Holding
  <2>4. CASE conn' = [conn EXCEPT !["zoom"] = task[t].token] /\ To(t, "zcache")
    <3>1. conn'["zoom"] = task[t].token
      BY <1>0, <2>1, <2>4
    <3>2. task'[t].pc = "zcache" /\ \A u \in Threads \ {t} : task'[u] = task[u]
      <4>1. Do(t, [task[t] EXCEPT !.pc = "zcache"]) /\ [task[t] EXCEPT !.pc = "zcache"].pc = "zcache"
        BY <1>1, <2>4 DEF To
      <4>2. QED BY <1>3, <4>1
    <3>3. QED BY <2>1, <2>2, <3>1, <3>2 DEF SpentOnce, Locked, Holding
  <2>5. QED BY <1>10, <2>3, <2>4 DEF ZoomStore
<1>11. CASE ZoomCached(t)
  BY <1>2, <1>11, IdleFacts DEF ZoomCached, At
<1>12. QED
  BY <1>4, <1>5, <1>6, <1>7, <1>8, <1>9, <1>10, <1>11 DEF Refresh

LEMMA StepSpent == Typed /\ SpentOnce /\ [Next]_vars => SpentOnce'
<1> SUFFICES ASSUME Typed, SpentOnce, [Next]_vars PROVE SpentOnce'
  OBVIOUS
<1>0. /\ task \in [Threads -> Task] /\ SeenTyped /\ TallyTyped /\ conn \in [Providers -> Int]
  BY DEF Typed, TypeOK, SeenTyped, TallyTyped
<1>1. CASE UNCHANGED vars
  BY <1>1, QuietSpent DEF vars
<1>2. ASSUME NEW f \in Flows, NEW p \in Providers, StartSignIn(f, p) PROVE SpentOnce'
  BY <1>2, QuietSpent DEF StartSignIn, tokens
<1>3. ASSUME NEW f \in Flows, Expire(f) PROVE SpentOnce'
  BY <1>3, QuietSpent DEF Expire, tokens
<1>4. ASSUME NEW p \in Procs, ZoomCacheAges(p) PROVE SpentOnce'
  BY <1>4, QuietSpent DEF ZoomCacheAges
<1>5. ASSUME NEW p \in Procs, Crash(p) PROVE SpentOnce'
  <2>1. tally'.issued = tally.issued
    BY <1>0, <1>5, CountedIssued DEF Crash, Counted
  <2>2. \A t \in Threads : task'[t] = task[t] \/ (task'[t] = Idle /\ Proc(t) = p)
    BY <1>5 DEF Crash
  <2>3. /\ seen'.spent = seen.spent /\ seen.lost \subseteq seen'.lost
        /\ \A t \in Threads : Proc(t) = p /\ task[t].pc = "zstore" => task[t].old \in seen'.lost
    BY <1>0, <1>5 DEF Crash, SeenTyped, At
  <2>4. Idle.pc \notin Locked \cup Holding /\ conn' = conn
    BY <1>5, IdleFacts DEF Locked, Holding, Crash
  <2>5. QED BY <2>1, <2>2, <2>3, <2>4, QuietSpent
<1>6. ASSUME NEW p \in Providers, DeleteConnection(p) PROVE SpentOnce'
  <2>1. tally'.issued = tally.issued
    BY <1>0, <1>6, CountedIssued DEF DeleteConnection, Counted
  <2>2. "zoom" \in Providers => conn'["zoom"] \in {conn["zoom"], -1}
    BY <1>0, <1>6 DEF DeleteConnection
  <2>3. QED BY <1>6, <2>1, <2>2, QuietSpent DEF DeleteConnection
<1>7. ASSUME NEW f \in Flows, NEW p \in Providers, NEW t \in Threads, Callback(t, f, p) \/ Paste(t, f, p)
      PROVE  SpentOnce'
  <2>1. conn' = conn /\ seen' = seen /\ task[t].pc = "idle" /\ Counted("ops", MaxOps)
    BY <1>7, RequestStarts DEF tokens
  <2>2. tally'.issued = tally.issued
    BY <1>0, <2>1, CountedIssued DEF Counted
  <2>3. \E r : Do(t, r) /\ r.pc \in {"idle", "consume", "settle"}
    <3>1. \A pc, known : Begun(pc, f, p, known).pc = pc
      BY StartedFields
    <3>2. QED BY <1>7, <3>1, IdleFacts, RequestStarts
  <2>4. QED BY <2>1, <2>2, <2>3, QuietMove DEF Locked, Holding
<1>8. ASSUME NEW t \in Threads, SilentLoad(t) \/ SilentSave(t) PROVE SpentOnce'
  <2>1. tally'.issued = tally.issued
    BY <1>0, <1>8, CountedIssued DEF SilentLoad, SilentSave, Counted
  <2>2. conn' = conn /\ seen' = seen /\ task[t].pc # "zstore"
    BY <1>8 DEF SilentLoad, SilentSave, tokens, At
  <2>3. [Idle EXCEPT !.pc = "silent", !.loaded = file].pc = "silent"
    BY IdleFacts DEF Task
  <2>4. \E r : Do(t, r) /\ r.pc \in {"idle", "silent"}
    BY <1>8, <2>3, IdleFacts DEF SilentLoad, SilentSave
  <2>5. QED BY <2>1, <2>2, <2>4, QuietMove DEF Locked, Holding
<1>9. QED
  BY <1>1, <1>2, <1>3, <1>4, <1>5, <1>6, <1>7, <1>8, SignInSpent, RefreshSpent DEF Next

\* What can be used once is used once: sign-in codes and Zoom's refresh tokens.
THEOREM UsedOnce == Spec => []SingleUse
<1>1. Spec => [](Typed /\ CodesOnce /\ SpentOnce)
  BY InitTyped, StepTyped, InitCodes, StepCodes, InitSpent, StepSpent, PTL DEF Spec
<1>2. CodesOnce => OneExchange
  BY DEF CodesOnce, OneExchange
<1>3. SpentOnce => NeverSpentTwice
  BY DEF SpentOnce, NeverSpentTwice, At
<1>4. QED BY <1>1, <1>2, <1>3, PTL DEF SingleUse
=============================================================================

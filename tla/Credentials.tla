------------------------------ MODULE Credentials ------------------------------
(***************************************************************************)
(* The tokens a source needs and the ways they change: the browser         *)
(* sign-ins (api/routers/oauth.py, pipeline/oauth_flows.py and the four    *)
(* oauth_* providers), the Zoom refresh with its two locks                 *)
(* (pipeline/health.py) and the Microsoft token cache file                 *)
(* (pipeline/tokencache.py).                                               *)
(*                                                                         *)
(* Threads of the API process and of the collection command line share     *)
(* the connection store, the cache file and the refresh lock file; flows,  *)
(* thread locks and the Zoom access token are each process's own.  A lock  *)
(* is not a variable: its holder is the thread whose pc lies inside it.    *)
(* A sign-in code, an address and a nonce are what their checks found.     *)
(***************************************************************************)
EXTENDS Integers, FiniteSets, FiniteSetsExt

CONSTANTS
  ApiThreads, CliThreads,        \* threads of the two processes
  Flows,                         \* sign-ins: the n-th one started is n
  Providers,                     \* "google", "microsoft", "zoom", "wordpress"
  Silent,                        \* threads that refresh Microsoft tokens
  MaxPending, MaxOutcomes,       \* the caps of the flow store
  MaxOps, MaxFaults              \* bounds

Threads == ApiThreads \cup CliThreads
Procs == {"api", "cli"}

ASSUME FlowAssumption ==
  /\ 1 \in Flows /\ Flows \subseteq Nat \ {0} /\ \A f \in Flows : 1 .. f \subseteq Flows
  /\ MaxPending \in Nat \ {0} /\ MaxOutcomes \in Nat \ {0}
ASSUME ThreadAssumption ==
  /\ ApiThreads \cap CliThreads = {} /\ Silent \subseteq Threads
  /\ Providers # {} /\ Providers \subseteq {"google", "microsoft", "wordpress", "zoom"}
ASSUME CredentialBounds == MaxOps \in Nat /\ MaxFaults \in Nat

VARIABLES
  flows,     \* FlowStore._flows: the sign-ins still pending
  outcomes,  \* FlowStore._outcomes: how the sign-ins that were consumed stand
  owner,     \* each sign-in's provider; "none" until it is started
  expired,   \* sign-ins whose expires_at has passed
  conn,      \* each provider's connection: its token in the store, 0 for none,
             \* -1 once the connection is deleted
  file,      \* the Microsoft cache file: the sign-ins whose account it holds
  live,      \* the refresh token Zoom accepts
  cache,     \* each process's _zoom_cache: the refresh token it came from
  task,      \* what each thread is doing
  seen,      \* ghost: codes exchanged, sign-ins kept, Zoom tokens spent and lost
  tally      \* sign-ins consumed, tokens issued, requests and faults there were

vars == <<flows, outcomes, owner, expired, conn, file, live, cache, task, seen, tally>>
store == <<flows, outcomes>>
tokens == <<conn, file, live, cache>>

-----------------------------------------------------------------------------
(* What the four providers' start and finish do with a sign-in.            *)
(*   paste    an address pasted by the user is accepted                    *)
(*   cached   the token goes to the MSAL cache file, under the alias lock, *)
(*            and the connection is looked up once more after that         *)
(*   rotates  the provider takes one token of an app at a time             *)
Google == [paste |-> TRUE, cached |-> FALSE, rotates |-> FALSE]
Microsoft == [paste |-> TRUE, cached |-> TRUE, rotates |-> FALSE]
WordPress == [paste |-> TRUE, cached |-> FALSE, rotates |-> FALSE]
Zoom == [paste |-> FALSE, cached |-> FALSE, rotates |-> TRUE]

Way == [google |-> Google, microsoft |-> Microsoft, wordpress |-> WordPress, zoom |-> Zoom]

\* The outcomes are kept in the order the sign-ins were consumed in.
Outcome == [flow : Flows, status : {"pending", "ok", "error"}, nth : Nat]

\* A sign-in's pcs, the Microsoft refresh's, the Zoom refresh's.
FinishPcs == {"finish", "exchange", "store", "view", "settle"}
ZoomPcs == {"zread", "zflock", "zcall", "zstore", "zcache"}
Task == [pc : {"idle", "consume", "silent"} \cup FinishPcs \cup ZoomPcs,
         flow : Nat, path : DOMAIN Way \cup {"none"}, known : BOOLEAN,
         token : Nat, old : Nat, loaded : SUBSET Flows, ok : BOOLEAN]
Idle == [pc |-> "idle", flow |-> 0, path |-> "none", known |-> FALSE,
         token |-> 0, old |-> 0, loaded |-> {}, ok |-> FALSE]

Proc(t) == IF t \in ApiThreads THEN "api" ELSE "cli"
Do(t, r) == task' = [task EXCEPT ![t] = r]
At(t, pc) == task[t].pc = pc
To(t, pc) == Do(t, [task[t] EXCEPT !.pc = pc])
Counted(kind, limit) == tally[kind] < limit /\ tally' = [tally EXCEPT ![kind] = @ + 1]

Init ==
  /\ flows = {} /\ outcomes = {}
  /\ owner = [f \in Flows |-> "none"]
  /\ expired = {}
  /\ conn = [p \in Providers |-> 0]
  /\ file = {}
  /\ live = 0
  /\ cache = [p \in Procs |-> 0]
  /\ task = [t \in Threads |-> Idle]
  /\ seen = [codes |-> [f \in Flows |-> 0], kept |-> {}, spent |-> {}, lost |-> {}]
  /\ tally = [consumed |-> 0, issued |-> 0, ops |-> 0, faults |-> 0]

-----------------------------------------------------------------------------
(* The flow store: each method holds its lock throughout. *)

Purged(fs, keep) == {f \in fs : f \notin expired \/ f = keep}
PurgedOutcomes == {o \in outcomes : o.flow \notin expired}

\* The oldest records go when there are more than the cap allows.
Newest(fs) == IF Cardinality(fs) > MaxPending THEN fs \ {Min(fs)} ELSE fs
LastFew(os) == IF Cardinality(os) > MaxOutcomes
               THEN {o \in os : \E older \in os : older.nth < o.nth} ELSE os

\* start of each provider: the connection is looked up, then FlowStore.create.
StartSignIn(f, p) ==
  /\ owner[f] = "none" /\ \A g \in Flows : g < f => owner[g] # "none"
  /\ conn[p] # -1
  /\ owner' = [owner EXCEPT ![f] = p]
  /\ flows' = Newest(Purged(flows, 0) \cup {f})
  /\ outcomes' = PurgedOutcomes
  /\ UNCHANGED <<expired, tokens, task, seen, tally>>

\* All flows live equally long, so they expire in the order they were started.
Expire(f) ==
  /\ owner[f] # "none" /\ f \notin expired /\ \A g \in Flows : g < f => g \in expired
  /\ expired' = expired \cup {f}
  /\ UNCHANGED <<store, owner, tokens, task, seen, tally>>

\* A request for a sign-in that was started.  The callback knows the state
\* only: it asks for the flow's id before it consumes the flow.
Callback(t, f, p) ==
  /\ t \in ApiThreads /\ At(t, "idle") /\ owner[f] # "none"
  /\ Counted("ops", MaxOps)
  /\ Do(t, [Idle EXCEPT !.pc = "consume", !.flow = f, !.path = p, !.known = f \in flows])
  /\ UNCHANGED <<store, owner, expired, tokens, seen>>

\* parse_pasted_url, before the flow is looked at: an address that is not one
\* loopback redirect with a state and a code or an error (InvalidPastedUrl)
\* ends the request, and nothing is settled.  A paste for Zoom ends at once too
\* (PasteBackNotSupported), and that is settled like a failure.
Pasted(p) == IF Way[p].paste THEN {"consume", "idle"} ELSE {"settle"}

Paste(t, f, p) ==
  /\ t \in ApiThreads /\ At(t, "idle") /\ owner[f] # "none"
  /\ Counted("ops", MaxOps)
  /\ \E pc \in Pasted(p) :
       Do(t, IF pc = "idle" THEN Idle
             ELSE [Idle EXCEPT !.pc = pc, !.flow = f, !.path = p, !.known = TRUE])
  /\ UNCHANGED <<store, owner, expired, tokens, seen>>

Consumed(f) == Purged(flows, 0) \ {f}

\* FlowStore.consume by the browser that holds the nonce.
Consume(t) ==
  LET f == task[t].flow IN
  /\ At(t, "consume")
  /\ f \in flows /\ f \notin expired /\ owner[f] = task[t].path
  /\ flows' = Consumed(f)
  /\ tally' = [tally EXCEPT !.consumed = @ + 1]
  /\ outcomes' = LastFew(PurgedOutcomes \cup
                          {[flow |-> f, status |-> "pending", nth |-> tally'.consumed]})
  /\ To(t, "finish")
  /\ UNCHANGED <<owner, expired, tokens, seen>>

\* UnknownFlow, ExpiredFlow (the record goes), NonceMismatch and
\* ProviderMismatch (it stays): nothing is settled.
ConsumeRefused(t) ==
  LET f == task[t].flow IN
  /\ At(t, "consume")
  /\ flows' = Purged(flows, IF f \in expired THEN 0 ELSE f)
  /\ outcomes' = PurgedOutcomes
  /\ Do(t, Idle)
  /\ UNCHANGED <<owner, expired, tokens, seen, tally>>

\* Mutant of Recorded: the reason code is stored as the status.
ReasonAsStatus(o, f, ok) ==
  IF o.flow = f /\ o.status = "pending" THEN [o EXCEPT !.status = IF ok THEN "ok" ELSE "failed"] ELSE o

\* record_outcome: the first write wins.
Recorded(o, f, ok) ==
  IF o.flow = f /\ o.status = "pending" THEN [o EXCEPT !.status = IF ok THEN "ok" ELSE "error"] ELSE o

\* Mutant of Settles: only a success is recorded.
SettlesOk(t) == task[t].ok

\* A callback that came to know no id has nothing to settle.
Settles(t) == task[t].known

Settle(t) ==
  /\ At(t, "settle")
  /\ outcomes' = IF Settles(t)
                 THEN {Recorded(o, task[t].flow, task[t].ok) : o \in outcomes} ELSE outcomes
  /\ Do(t, Idle)
  /\ UNCHANGED <<flows, owner, expired, tokens, seen, tally>>

\* FlowStore.status: what the browser that polls is told.
Outcomes(f) == {o.status : o \in {x \in outcomes : x.flow = f}}
Status(f) ==
  IF f \in flows THEN (IF f \in expired THEN "expired" ELSE "pending")
  ELSE IF f \in expired \/ Outcomes(f) = {} THEN "unknown"
  ELSE CHOOSE status \in Outcomes(f) : TRUE

-----------------------------------------------------------------------------
(* finish of the four providers, once the flow is consumed *)

Fails(t) == Do(t, [task[t] EXCEPT !.pc = "settle", !.ok = FALSE])

\* Mutant of AliasFree: the alias lock is taken for the write alone.
NoAliasLock(t) == TRUE

\* tokencache.locked: one thread of a process between load and save.
AliasFree(t) ==
  \A u \in Threads \ {t} : Proc(u) = Proc(t) =>
    ~(At(u, "silent") \/ (task[u].pc \in {"exchange", "store"} /\ Way[task[u].path].cached))

\* The state is another sign-in's, consent was denied, there is no code, or the
\* connection is gone, incomplete or (Zoom) no longer one that signs in.
FinishRefused(t) ==
  /\ At(t, "finish")
  /\ Fails(t)
  /\ UNCHANGED <<store, owner, expired, tokens, seen, tally>>

Finish(t) ==
  /\ At(t, "finish") /\ conn[task[t].path] # -1
  /\ Way[task[t].path].cached => AliasFree(t)
  /\ Do(t, [task[t] EXCEPT !.pc = "exchange",
                           !.loaded = IF Way[task[t].path].cached THEN file ELSE {}])
  /\ UNCHANGED <<store, owner, expired, tokens, seen, tally>>

\* The code is presented.  The provider issues a token, or the exchange fails
\* or grants too little (ExchangeFailed, ScopeNotGranted, NoRefreshToken).
Exchange(t) ==
  /\ At(t, "exchange")
  /\ seen' = [seen EXCEPT !.codes[task[t].flow] = @ + 1]
  /\ \/ /\ tally' = [tally EXCEPT !.issued = @ + 1]
        /\ live' = IF Way[task[t].path].rotates THEN tally'.issued ELSE live
        /\ Do(t, [task[t] EXCEPT !.pc = "store", !.token = tally'.issued])
     \/ Fails(t) /\ UNCHANGED <<live, tally>>
  /\ UNCHANGED <<store, owner, expired, conn, file, cache>>

\* connections.set_secret: the connection may have been deleted meanwhile.
StoreToken(t) ==
  LET p == task[t].path IN
  /\ At(t, "store") /\ ~Way[p].cached
  /\ IF conn[p] = -1 THEN Fails(t) /\ UNCHANGED <<conn, seen>>
     ELSE /\ conn' = [conn EXCEPT ![p] = task[t].token]
          /\ seen' = [seen EXCEPT !.kept = @ \cup {task[t].flow}]
          /\ Do(t, [task[t] EXCEPT !.pc = "settle", !.ok = TRUE])
  /\ UNCHANGED <<store, owner, expired, file, live, cache, tally>>

\* tokencache.save replaces the file in one step; then the lock is released.
SaveCache(t) ==
  /\ At(t, "store") /\ Way[task[t].path].cached
  /\ file' = task[t].loaded \cup {task[t].flow}
  /\ seen' = [seen EXCEPT !.kept = @ \cup {task[t].flow}]
  /\ To(t, "view")
  /\ UNCHANGED <<store, owner, expired, conn, live, cache, tally>>

\* CacheWriteFailed: the file is as it was.
SaveFails(t) ==
  /\ At(t, "store") /\ Way[task[t].path].cached
  /\ Counted("faults", MaxFaults)
  /\ Fails(t)
  /\ UNCHANGED <<store, owner, expired, tokens, seen>>

\* The view is read after the save: without a connection the sign-in fails.
FinishView(t) ==
  /\ At(t, "view")
  /\ Do(t, [task[t] EXCEPT !.pc = "settle", !.ok = conn[task[t].path] # -1])
  /\ UNCHANGED <<store, owner, expired, tokens, seen, tally>>

-----------------------------------------------------------------------------
(* check_m365 and the Graph collector: a silent refresh of the cached account *)

SilentLoad(t) ==
  /\ t \in Silent /\ At(t, "idle") /\ AliasFree(t)
  /\ file # {}
  /\ Counted("ops", MaxOps)
  /\ Do(t, [Idle EXCEPT !.pc = "silent", !.loaded = file])
  /\ UNCHANGED <<store, owner, expired, tokens, seen>>

\* MSAL changed the cache, or it did not and nothing is written.
SilentSave(t) ==
  /\ At(t, "silent")
  /\ file' \in {file, task[t].loaded}
  /\ Do(t, Idle)
  /\ UNCHANGED <<store, owner, expired, conn, live, cache, seen, tally>>

-----------------------------------------------------------------------------
(* zoom_token and check_zoom: _zoom_oauth_token_data *)

\* _ZOOM_LOCK of the thread's process.
ZoomFree(t) == \A u \in Threads \ {t} : Proc(u) = Proc(t) => task[u].pc \notin ZoomPcs

\* flock on zoom_refresh.lock, which the kernel releases with its process.
FlockFree(t) == \A u \in Threads \ {t} : task[u].pc \notin {"zcall", "zstore", "zcache"}

\* A token is at hand, or none ever will be without a sign-in.
ZoomServed(t) == conn["zoom"] \in {-1, 0, cache[Proc(t)]}

ZoomAsk(t) ==
  /\ At(t, "idle") /\ "zoom" \in Providers /\ conn["zoom"] # -1 /\ ZoomFree(t)
  /\ Counted("ops", MaxOps)
  /\ Do(t, [Idle EXCEPT !.pc = "zread"])
  /\ UNCHANGED <<store, owner, expired, tokens, seen>>

ZoomRead(t) ==
  /\ At(t, "zread")
  /\ Do(t, IF ZoomServed(t) THEN Idle
           ELSE [task[t] EXCEPT !.pc = "zflock", !.token = conn["zoom"]])
  /\ UNCHANGED <<store, owner, expired, tokens, seen, tally>>

\* Mutant of ZoomReread: the token read before the wait is presented.
ZoomFirstRead(t) ==
  /\ At(t, "zflock") /\ FlockFree(t)
  /\ To(t, "zcall")
  /\ UNCHANGED <<store, owner, expired, tokens, seen, tally>>

\* Behind the lock file everything is read again.
ZoomReread(t) ==
  /\ At(t, "zflock") /\ FlockFree(t)
  /\ Do(t, IF ZoomServed(t) THEN Idle
           ELSE [task[t] EXCEPT !.pc = "zcall", !.token = conn["zoom"]])
  /\ UNCHANGED <<store, owner, expired, tokens, seen, tally>>

\* oauth_zoom.refresh: Zoom rotates the token it accepts.
ZoomRefresh(t) ==
  LET tok == task[t].token IN
  /\ At(t, "zcall") /\ tok = live
  /\ tally' = [tally EXCEPT !.issued = @ + 1]
  /\ live' = tally'.issued
  /\ seen' = [seen EXCEPT !.spent = @ \cup {tok}]
  /\ Do(t, [task[t] EXCEPT !.pc = "zstore", !.old = tok, !.token = tally'.issued])
  /\ UNCHANGED <<store, owner, expired, conn, file, cache>>

\* RefreshTokenRejected; the dead token stays in the store.
ZoomRejected(t) ==
  /\ At(t, "zcall") /\ task[t].token # live
  /\ Do(t, Idle)
  /\ UNCHANGED <<store, owner, expired, tokens, seen, tally>>

\* RefreshFailed: Zoom was not reached, or its answer was lost or unreadable.
ZoomFails(t) ==
  /\ task[t].pc \in {"zcall", "zstore"}
  /\ Counted("faults", MaxFaults)
  /\ seen' = [seen EXCEPT !.lost = @ \cup (IF At(t, "zstore") THEN {task[t].old} ELSE {})]
  /\ Do(t, Idle)
  /\ UNCHANGED <<store, owner, expired, tokens>>

\* The new token is stored before it is used.
ZoomStore(t) ==
  /\ At(t, "zstore")
  /\ IF conn["zoom"] = -1 THEN Do(t, Idle) /\ UNCHANGED conn
     ELSE conn' = [conn EXCEPT !["zoom"] = task[t].token] /\ To(t, "zcache")
  /\ UNCHANGED <<store, owner, expired, file, live, cache, seen, tally>>

ZoomCached(t) ==
  /\ At(t, "zcache")
  /\ cache' = [cache EXCEPT ![Proc(t)] = task[t].token]
  /\ Do(t, Idle)
  /\ UNCHANGED <<store, owner, expired, conn, file, live, seen, tally>>

\* The access token comes within _ZOOM_EXPIRY_MARGIN of its end.
ZoomCacheAges(p) ==
  /\ cache[p] # 0
  /\ cache' = [cache EXCEPT ![p] = 0]
  /\ UNCHANGED <<store, owner, expired, conn, file, live, task, seen, tally>>

-----------------------------------------------------------------------------
(* The surroundings *)

\* DELETE /connections/{id}.
DeleteConnection(p) ==
  /\ conn[p] # -1
  /\ Counted("faults", MaxFaults)
  /\ conn' = [conn EXCEPT ![p] = -1]
  /\ UNCHANGED <<store, owner, expired, file, live, cache, task, seen>>

\* A process dies: its memory and its locks go, the store and the file stay.
Crash(p) ==
  LET dead == {t \in Threads : Proc(t) = p} IN
  /\ Counted("faults", MaxFaults)
  /\ task' = [t \in Threads |-> IF t \in dead THEN Idle ELSE task[t]]
  /\ cache' = [cache EXCEPT ![p] = 0]
  /\ flows' = IF p = "api" THEN {} ELSE flows
  /\ outcomes' = IF p = "api" THEN {} ELSE outcomes
  /\ seen' = [seen EXCEPT !.lost = @ \cup {task[t].old : t \in {u \in dead : At(u, "zstore")}}]
  /\ UNCHANGED <<owner, expired, conn, file, live>>

-----------------------------------------------------------------------------
SignIn(t) == Consume(t) \/ ConsumeRefused(t) \/ Settle(t) \/ FinishRefused(t) \/ Finish(t)
               \/ Exchange(t) \/ StoreToken(t) \/ SaveCache(t) \/ SaveFails(t) \/ FinishView(t)
Refresh(t) == ZoomAsk(t) \/ ZoomRead(t) \/ ZoomReread(t) \/ ZoomRefresh(t) \/ ZoomRejected(t)
             \/ ZoomFails(t) \/ ZoomStore(t) \/ ZoomCached(t)

Next ==
  \/ \E f \in Flows, p \in Providers : \/ StartSignIn(f, p)
                                       \/ \E t \in Threads : Callback(t, f, p) \/ Paste(t, f, p)
  \/ \E f \in Flows : Expire(f)
  \/ \E t \in Threads : SignIn(t) \/ Refresh(t) \/ SilentLoad(t) \/ SilentSave(t)
  \/ \E p \in Procs : ZoomCacheAges(p) \/ Crash(p)
  \/ \E p \in Providers : DeleteConnection(p)

Spec == Init /\ [][Next]_vars

-----------------------------------------------------------------------------
TypeOK ==
  /\ flows \subseteq Flows
  /\ outcomes \subseteq Outcome
  /\ owner \in [Flows -> Providers \cup {"none"}]
  /\ expired \subseteq Flows
  /\ conn \in [Providers -> Int]
  /\ file \subseteq Flows
  /\ live \in Nat
  /\ cache \in [Procs -> Nat]
  /\ task \in [Threads -> Task]
  /\ seen \in [codes : [Flows -> Nat], kept : SUBSET Flows, spent : SUBSET Nat, lost : SUBSET Nat]
  /\ tally \in [{"consumed", "issued", "ops", "faults"} -> Nat]

\* A browser is told "ok" only of a sign-in whose token was stored, also when
\* the same sign-in came in twice and the other attempt failed.
OkIsKept == \A f \in Flows : Status(f) = "ok" => f \in seen.kept

\* No browser polls for ever: an outcome is pending only while the attempt that
\* consumed the sign-in is under way.
PendingIsUnderway ==
  \A o \in outcomes : o.status = "pending" =>
    \E t \in ApiThreads : task[t].flow = o.flow /\ task[t].pc \in FinishPcs
StatusIsTrue == OkIsKept /\ PendingIsUnderway

\* What can be used once is used once.  A sign-in's code reaches its provider at
\* most once, however often the browser repeats the callback or the user pastes the
\* address (oauth_flows.py: single use); and Zoom is never asked twice to rotate the
\* same token, by threads or processes that race for it, unless the first answer was
\* lost (health.py: rotation "never races two refreshes of the same token").
OneExchange == \A f \in Flows : seen.codes[f] <= 1
NeverSpentTwice ==
  \A t \in Threads : At(t, "zcall") => task[t].token \notin seen.spent \ seen.lost
SingleUse == OneExchange /\ NeverSpentTwice

\* A Microsoft sign-in that was saved stays in the cache file: a refresh that
\* loaded the file before it never writes the older content over it.
SignInKept == \A f \in seen.kept : Way[owner[f]].cached => f \in file
=============================================================================

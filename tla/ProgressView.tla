---------------------------- MODULE ProgressView ----------------------------
(***************************************************************************)
(* What the web page shows of a model's preparation: the operation and      *)
(* revision numbers the server gives it (app/structured_progress.py), the   *)
(* page's reconciliation of status answers (app/progress_operation_ui.py)   *)
(* and its progress controller (app/progress_reliability.py) with the       *)
(* optimistic entry of a request that is not answered yet.                  *)
(*                                                                         *)
(* One model.  Status requests with the same API key are one request; the   *)
(* key may change while one is under way, and answers overtake each other.  *)
(* A scheduled rendering happens in a later turn of the page's event loop.  *)
(***************************************************************************)
EXTENDS Naturals

CONSTANTS
  PageKeys,    \* API keys used by the page
  MaxOps,      \* bound: operations the server begins
  MaxUpdates,  \* bound: progress updates of the server
  MaxCalls     \* bound: revisions the page hands out

ASSUME ViewAssumption == {MaxOps, MaxUpdates, MaxCalls} \subseteq Nat

VARIABLES
  server,     \* the model's entry at the server
  clock,      \* the server's clock, in seconds
  requests,   \* the status request under way for each key
  post,       \* the load or conversion request
  accepted,   \* acceptedModels
  optimistic, \* the optimistic entry is there
  page,       \* latestStatus, its revision, the revisions handed out, the timer
  shown,      \* what the dock shows
  highest     \* for the properties: since the last answer without the operation, the latest
              \* second accepted and the highest revision of the operation accepted now

viewVars == <<server, clock, requests, post, accepted, optimistic, page, shown, highest>>

ViewStates == {"idle", "loading", "loaded", "error"}
Entries == [op : 0..MaxOps, rev : 0..MaxUpdates, at : 0..1, state : ViewStates]
NoProgress == [op |-> 0, rev |-> 0, at |-> 0, state |-> "idle"]
Nothing == [op |-> 0, rev |-> 0, at |-> 0, state |-> "none"]   \* no entry
Optimistic == [Nothing EXCEPT !.state = "optimistic"]
NoRequest == [pc |-> "none", rev |-> 0, entry |-> Nothing]
MaybeEntry == Entries \cup {Nothing}
Latest(i, j) == IF i > j THEN i ELSE j
NoneYet == [at |-> 0, rev |-> 0]

ViewTypeOK ==
  /\ server.entry \in Entries /\ server.ops \in 0..MaxOps /\ server.counter \in 0..MaxUpdates
  /\ clock \in 0..1
  /\ \A k \in PageKeys : requests[k].pc \in {"none", "sent", "answered", "failed"}
                         /\ requests[k].rev \in 0..MaxCalls /\ requests[k].entry \in MaybeEntry
  /\ post.pc \in {"none", "sent", "answered", "failed"} /\ post.entry \in MaybeEntry
  /\ accepted \in MaybeEntry /\ optimistic \in BOOLEAN
  /\ page.latest \in MaybeEntry /\ page.rev \in 0..MaxCalls /\ page.next \in 0..MaxCalls
  /\ page.timer \in {0} \cup 1..MaxCalls
  /\ shown \in MaybeEntry \cup {Optimistic}

ViewInit ==
  /\ server = [entry |-> NoProgress, ops |-> 0, counter |-> 0] /\ clock = 0
  /\ requests = [k \in PageKeys |-> NoRequest] /\ post = [pc |-> "none", entry |-> Nothing]
  /\ accepted = Nothing /\ optimistic = FALSE
  /\ page = [latest |-> Nothing, rev |-> 0, next |-> 0, timer |-> 0]
  /\ shown = Nothing
  /\ highest = NoneYet

serverVars == <<server, clock>>
pageVars == <<requests, post, accepted, optimistic, page, shown, highest>>

-----------------------------------------------------------------------------
(* The server.                                                              *)

SecondPasses == clock = 0 /\ clock' = 1 /\ UNCHANGED <<server, pageVars>>

\* _clear_progress, then the first _set_progress of a new operation.  Revisions go on.
Begun(s) ==
  [entry |-> [op |-> s.ops + 1, rev |-> s.counter + 1, at |-> clock, state |-> "loading"],
   ops |-> s.ops + 1, counter |-> s.counter + 1]
CanBegin == server.entry.state # "loading" /\ server.ops < MaxOps /\ server.counter < MaxUpdates

\* _set_progress: a converter's record, a heartbeat, the end.  Lines that come after an
\* end are dropped (structured_progress.py:213).
Update(state) ==
  /\ server.entry.state = "loading" /\ server.counter < MaxUpdates
  /\ server' = [server EXCEPT !.counter = @ + 1, !.entry.rev = server.counter + 1,
                              !.entry.at = clock, !.entry.state = state]
  /\ UNCHANGED <<clock, pageVars>>

\* The model is unloaded or deleted.
ClearProgress ==
  /\ server.entry.state \in {"loaded", "error"} /\ server' = [server EXCEPT !.entry = NoProgress]
  /\ UNCHANGED <<clock, pageVars>>

\* Revisions start anew, operations have new names.
RestartServer ==
  /\ server.entry # NoProgress \/ server.counter > 0
  /\ server' = [server EXCEPT !.entry = NoProgress, !.counter = 0]
  /\ UNCHANGED <<clock, pageVars>>

-----------------------------------------------------------------------------
(* Status requests.                                                         *)

\* sharedStatusFetch: a request under way with the same key is joined.
Poll(k) ==
  /\ requests[k].pc = "none" /\ page.next < MaxCalls
  /\ page' = [page EXCEPT !.next = @ + 1]
  /\ requests' = [requests EXCEPT ![k] = [NoRequest EXCEPT !.pc = "sent", !.rev = page.next + 1]]
  /\ UNCHANGED <<serverVars, post, accepted, optimistic, shown, highest>>

ServeStatus(k) ==
  /\ requests[k].pc = "sent"
  /\ \/ requests' = [requests EXCEPT ![k].pc = "answered", ![k].entry = server.entry]
     \/ requests' = [requests EXCEPT ![k].pc = "failed"]
  /\ UNCHANGED <<serverVars, post, accepted, optimistic, page, shown, highest>>

\* Regression form: the answer that arrives last is taken.
KeepNone(old, new) == FALSE

\* shouldKeepPrevious
KeepPrevious(old, new) ==
  /\ old # Nothing
  /\ IF new.op = old.op THEN new.rev < old.rev
     ELSE /\ new.op # 0 /\ old.op # 0
          /\ \/ new.at < old.at
             \/ new.at = old.at /\ new.rev <= old.rev /\ old.state = "loading" /\ new.state = "loading"

Reconciled(new) == IF KeepPrevious(accepted, new) THEN accepted ELSE new

\* scheduleRender: an answer older than what was rendered is dropped; a pending
\* rendering is replaced.
Schedule(p, data, rev) ==
  IF rev < p.rev THEN p ELSE [p EXCEPT !.latest = data, !.timer = rev]

\* The answer is reconciled, then given to the progress controller.
StatusArrives(k) ==
  /\ requests[k].pc = "answered" /\ requests' = [requests EXCEPT ![k] = NoRequest]
  /\ LET new == requests[k].entry
         kept == Reconciled(new) IN
     IF new = NoProgress
     THEN /\ accepted' = Nothing /\ page' = Schedule(page, new, requests[k].rev)
          /\ highest' = NoneYet
     ELSE /\ accepted' = kept /\ page' = Schedule(page, kept, requests[k].rev)
          /\ highest' = [at |-> Latest(kept.at, highest.at),
                         rev |-> IF kept.op = accepted.op THEN Latest(kept.rev, highest.rev) ELSE kept.rev]
  /\ UNCHANGED <<serverVars, post, optimistic, shown>>

StatusFails(k) ==
  /\ requests[k].pc = "failed" /\ requests' = [requests EXCEPT ![k] = NoRequest]
  /\ accepted' = Nothing
  /\ highest' = NoneYet
  /\ UNCHANGED <<serverVars, post, optimistic, page, shown>>

-----------------------------------------------------------------------------
(* Requests to load or convert.                                             *)

\* renderOptimistic
Submit ==
  /\ post.pc = "none" /\ post' = [post EXCEPT !.pc = "sent"]
  /\ optimistic' = TRUE /\ shown' = Optimistic
  /\ UNCHANGED <<serverVars, requests, accepted, page, highest>>

ServePost ==
  /\ post.pc = "sent" /\ UNCHANGED <<clock, requests, accepted, optimistic, page, shown, highest>>
  /\ \/ CanBegin /\ server' = Begun(server) /\ post' = [pc |-> "answered", entry |-> server'.entry]
     \/ post' = [post EXCEPT !.pc = "failed"] /\ UNCHANGED server

\* The returned model is merged under a revision of its own.
PostArrives ==
  /\ post.pc = "answered" /\ page.next < MaxCalls
  /\ post' = [pc |-> "none", entry |-> Nothing] /\ optimistic' = FALSE
  /\ page' = Schedule([page EXCEPT !.next = @ + 1], post.entry, page.next + 1)
  /\ UNCHANGED <<serverVars, requests, accepted, shown, highest>>

\* Regression form: the optimistic entry of a refused request stays.
RefusedKeepsOptimistic ==
  /\ post.pc = "failed" /\ post' = [pc |-> "none", entry |-> Nothing]
  /\ UNCHANGED <<serverVars, requests, accepted, optimistic, page, shown, highest>>

\* clearOptimistic
PostRefused ==
  /\ post.pc = "failed" /\ post' = [pc |-> "none", entry |-> Nothing] /\ optimistic' = FALSE
  /\ IF page.latest = Nothing THEN shown' = Nothing /\ UNCHANGED page
     ELSE /\ page.next < MaxCalls /\ UNCHANGED shown
          /\ page' = Schedule([page EXCEPT !.next = @ + 1], page.latest, page.next + 1)
  /\ UNCHANGED <<serverVars, requests, accepted, highest>>

-----------------------------------------------------------------------------
\* mergeOptimistic and renderDock: the optimistic entry gives way to a server that knows
\* of the operation, or expires.
Draw(data) ==
  \/ /\ optimistic /\ data.state \in {"idle", "none"}
     /\ shown' = Optimistic /\ UNCHANGED optimistic
  \/ /\ shown' = (IF data.state \in {"loading", "error"} THEN data ELSE Nothing)
     /\ optimistic' = FALSE

\* The timer, or the ticker that draws the latest status anew.
Render ==
  /\ page.timer # 0 /\ page' = [page EXCEPT !.timer = 0, !.rev = page.timer]
  /\ Draw(page.latest)
  /\ UNCHANGED <<serverVars, requests, post, accepted, highest>>
Redraw ==
  /\ shown # Nothing /\ page.latest # Nothing /\ Draw(page.latest)
  /\ UNCHANGED <<serverVars, requests, post, accepted, page, highest>>

ViewNext ==
  \/ SecondPasses \/ ClearProgress \/ RestartServer \/ (\E s \in {"loading", "loaded", "error"} : Update(s))
  \/ \E k \in PageKeys : Poll(k) \/ ServeStatus(k) \/ StatusArrives(k) \/ StatusFails(k)
  \/ Submit \/ ServePost \/ PostArrives \/ PostRefused \/ Render \/ Redraw

ViewSpec == ViewInit /\ [][ViewNext]_viewVars

-----------------------------------------------------------------------------
\* Whatever the order in which status answers arrive, the page is not taken back to what an
\* earlier second said, nor, while it shows one operation, to an earlier revision
\* (progress_operation_ui.py:59-73; tests/test_progress_operation_ui.py:19).  An operation
\* that ended may come back for one that began in the same second: updated_at is in
\* whole seconds.
AcceptedNeverOlder ==
  accepted.op # 0 => accepted.at >= highest.at /\ accepted.rev >= highest.rev

\* An optimistic entry belongs to a request that is not answered yet, and a dock that shows
\* an operation shows what some answer said.
OptimisticAccounted == optimistic => post.pc # "none"

\* The rendered revision is the newest one rendered so far, and a pending one is not older.
PendingNotOlder == page.timer # 0 => page.timer >= page.rev

\* What the page promises of the progress it shows.
ViewSafe == AcceptedNeverOlder /\ OptimisticAccounted /\ PendingNotOlder

\* The visible operation never goes back to an earlier revision
\* (browser_tests/test_progress_browser.py:137, "lower server revision cannot regress visible
\* operation").  It does: the answer of a load is not reconciled.
VisibleNeverRegresses ==
  [][ (/\ shown \in Entries /\ shown' \in Entries /\ post'.pc = post.pc
       /\ shown'.op = shown.op)
      => shown'.rev >= shown.rev ]_viewVars
=============================================================================

------------------------------ MODULE OrdersScreen ------------------------------
(***************************************************************************)
(* GET /app/stores/{store_id}/orders, beside the imports it reports on.    *)
(*                                                                         *)
(* orders_list reads the store, then the state of its import runs, then    *)
(* the freshness of its orders, in three statements of one READ COMMITTED  *)
(* connection: each sees what is committed when it runs, and imports       *)
(* commit between them.  The scope is resolved before the first.           *)
(***************************************************************************)
EXTENDS OrderImport

CONSTANTS
  Viewers,        \* browser tabs on the orders screen
  ViewScope       \* the stores in the scope of those who look at them

ASSUME ViewScopeIsAScope == ViewScope \subseteq Stores

VARIABLES
  pages           \* the page each viewer waits for or looks at: the reads left
                  \* to make, the facts they gave, and (known, which is no
                  \* variable of orders_list) the runs visible at the request

screenVars == <<vars, pages>>

RunsOf(s) == {b \in batches : b.store = s}

ReadOrderSwapped == <<"freshness", "runs">>    \* fault: freshness is read first
ReadOrder == <<"runs", "freshness">>

ScreenInit == Init /\ pages = [v \in Viewers |-> None]

\* The request arrives with a live session; a store outside the scope raises
\* OutOfScope in get_store and has no page.
OpenPage(v, s) ==
  /\ pages[v] = None
  /\ s \in ViewScope
  /\ pages' = [pages EXCEPT ![v] = [store |-> s, known |-> RunsOf(s), left |-> ReadOrder,
                                    runs |-> None, freshness |-> None]]
  /\ UNCHANGED vars

\* get_import_run_state, or get_order_level_freshness.
Read(v) ==
  /\ pages[v] # None
  /\ pages[v].left # <<>>
  /\ LET s == pages[v].store
     IN  pages' = [pages EXCEPT
           ![v].left = Tail(@),
           ![v].runs = IF Head(pages[v].left) = "runs" THEN RunState(s) ELSE @,
           ![v].freshness = IF Head(pages[v].left) = "freshness"
                            THEN OrderLevelFreshness(s) ELSE @]
  /\ UNCHANGED vars

\* The tab is closed or refreshed, whether the page has come or not.
Close(v) ==
  /\ pages[v] # None
  /\ pages' = [pages EXCEPT ![v] = None]
  /\ UNCHANGED vars

ScreenNext ==
  \/ Next /\ UNCHANGED pages
  \/ \E v \in Viewers : \/ \E s \in Stores : OpenPage(v, s)
                        \/ Read(v)
                        \/ Close(v)

ScreenSpec == ScreenInit /\ [][ScreenNext]_screenVars

\* Fairness is asked of imports only: people look, or do not.
FairScreenSpec == ScreenSpec /\ \A r \in Requests : WF_vars(Serve(r))

--------------------------------------------------------------------------------
(* Properties *)

Shown(v) == pages[v] # None /\ pages[v].left = <<>>

\* The facts of one page go together although imports commit between its two
\* reads.  A page that reports a successful run reports fresh orders too, and
\* a page misses nothing that was committed when it was asked for: neither the
\* run that is its last attempt or last success, nor the orders it imported.
PageIsCoherent ==
  \A v \in Viewers : Shown(v) =>
    LET page == pages[v]
    IN  /\ page.runs.last_success_at # None => page.freshness # None
        /\ page.runs.never_imported => page.known = {}
        /\ \A b \in page.known :
             /\ b.success_count > 0 => page.freshness # None
             /\ Succeeded(b) => page.runs.last_success_at # None
             /\ (\A a \in RunsOf(page.store) \ {b} : Later(b, a)) =>
                  page.runs.last_attempt_status = b.status

Overlap(a, b) == a.started_at <= b.finished_at /\ b.started_at <= a.finished_at

\* The freshness of a store is not older than any run that imported something,
\* unless another run was open beside it: that one may have read the clock
\* first and committed last, and its stamp is then the one that stays.
FreshnessCoversItsRuns ==
  \A s \in Stores : \A b \in RunsOf(s) :
    (b.success_count > 0 /\ \A a \in RunsOf(s) \ {b} : ~Overlap(a, b)) =>
      OrderLevelFreshness(s) # None /\ b.started_at <= OrderLevelFreshness(s)

================================================================================

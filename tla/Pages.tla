-------------------------------- MODULE Pages -------------------------------
(***************************************************************************)
(* The pages of the web client over the cluster service: the two routers,  *)
(* the setup and join pages, the model select and the chat page's layout   *)
(* with its dialogs. What Pages sees of the cluster changes as in          *)
(* ClusterFeed, by onMessage or reset. An action is an event with the      *)
(* renders and the effects that follow it. The list of models has arrived. *)
(***************************************************************************)
EXTENDS ClusterService, Integers, FiniteSets, SequencesExt

CONSTANTS
    Report,      \* what a scheduler with a model may report: [status, need]
    MaxNum,      \* bound: the number of nodes
    MaxCalls,    \* bound: calls of init in flight
    MaxChanges,  \* bound: changes of the scheduler's report
    MaxMoves     \* bound: what the user does

ASSUME PagesAssumption ==
    /\ Report \subseteq [status : ReportedStatus, need : BOOLEAN]
    /\ MaxNum \in Nat \ {0}

VARIABLES
    host,       \* 'cluster' for the scheduler's pages, 'node' for those of a node
    path,       \* the location
    nav,        \* targets of the router's timers that run
    info,       \* clusterInfo
    config,     \* the configuration: number of nodes and model
    loading,    \* of the setup page
    can,        \* canAutoCommit of the chat page's model select
    dialogs,    \* dialogs of the chat page that are open
    sidebar,    \* sidebarExpanded of the chat page
    failTimer,  \* the chat page's timer for the dialog 'failed' runs
    calls,      \* calls of init in flight, of [by, model, num, served]; by is "setup",
                \* "gone" when that page was left, or "select"
    backend,    \* what the scheduler would report
    changes, moves

vars == <<host, path, nav, info, config, loading, can, dialogs, sidebar, failTimer,
          calls, backend, changes, moves>>

Path == {"/", "/setup", "/join", "/chat"}

-----------------------------------------------------------------------------
(* The routers: where the location and the status lead after 300 ms.       *)

\* Mutant: only the join page waits for the cluster.
RouteFromJoin(h, p, status) ==
    CASE h = "node"                            -> {"/chat"} \ {p}
      [] h = "cluster" /\ p = "/"              -> {"/setup"}
      [] h = "cluster" /\ p = "/chat" /\ status = "idle"      -> {"/setup"}
      [] h = "cluster" /\ p = "/join" /\ status = "available" -> {"/chat"}
      [] OTHER                                 -> {}

\* The effects of ChatRouter (host 'node') and of MainRouter.
RouteTarget(h, p, status) ==
    CASE h = "node"                            -> {"/chat"} \ {p}
      [] h = "cluster" /\ p = "/"              -> {"/setup"}
      [] h = "cluster" /\ p = "/chat" /\ status = "idle" -> {"/setup"}
      [] h = "cluster" /\ p \notin {"/", "/chat"} /\ status = "available" -> {"/chat"}
      [] OTHER                                 -> {}

\* Mutant: the effect has no cleanup.
RouterAccumulates(p, status) ==
    nav' = IF p = path /\ (status = info.status \/ host = "node") THEN nav
           ELSE nav \cup RouteTarget(host, p, status)

\* The effect runs when one of its dependencies changes; its cleanup clears
\* the timer before.
RouterEffect(p, status) ==
    nav' = IF p = path /\ (status = info.status \/ host = "node") THEN nav
           ELSE RouteTarget(host, p, status)

-----------------------------------------------------------------------------
(* The chat page. All of its state goes when it is left.                   *)

\* Whether the effects on a value run: it has changed, or the page is mounted.
Ran(old, new) == path # "/chat" \/ old # new

Opened(new) ==
    {d \in {"waiting", "rebalancing", "failed"} :
        /\ Ran(info.status, new.status) /\ new.status = d
        /\ d = "waiting" => host = "cluster"}
    \cup {d \in {"needMore"} : Ran(info.need, new.need) /\ new.need}

\* The effects of DrawerLayout.
DrawerEffects(p, new) ==
    /\ dialogs' = IF p # "/chat" THEN {}
                  ELSE (IF path = "/chat" THEN dialogs ELSE {}) \cup Opened(new)
    /\ failTimer' = (p = "/chat" /\ (IF Ran(info.status, new.status) THEN new.status = "idle"
                                     ELSE failTimer))
    /\ sidebar' = (sidebar \/ p # "/chat" \/ path # "/chat")

\* Mutant: the effect of the select also depends on the cluster's model.
CommitsOnReport(p, new, name, auto) ==
    /\ p = "/chat" /\ path = "/chat" /\ auto
    /\ auto # can \/ name # config.model \/ new.model # info.model
    /\ name # new.model

\* The effect of ModelSelect calls init: the user has chosen and the choice is
\* not what the cluster hosts.
Commits(p, new, name, auto) ==
    /\ p = "/chat" /\ path = "/chat" /\ auto
    /\ auto # can \/ name # config.model
    /\ name # new.model

\* Leaving the setup page leaves its call behind.
Forget(p, list) ==
    [i \in DOMAIN list |-> IF list[i].by = "setup" /\ p # "/setup"
                           THEN [list[i] EXCEPT !.by = "gone"] ELSE list[i]]

Call(by, num, name) == [by |-> by, num |-> num, model |-> name, served |-> FALSE]

\* Everything that follows an event which leads to location p, cluster info
\* new, configuration cfg, canAutoCommit auto and calls list.
Renders(p, new, cfg, auto, list) ==
    /\ path' = p /\ info' = new /\ config' = cfg
    /\ RouterEffect(p, new.status)
    /\ DrawerEffects(p, new)
    /\ IF Commits(p, new, cfg.model, auto)
       THEN /\ can' = FALSE
            /\ calls' = IF InitParams(cfg.num, cfg.model)
                        THEN Append(Forget(p, list), Call("select", cfg.num, cfg.model))
                        ELSE Forget(p, list)
       ELSE can' = (auto /\ p = "/chat") /\ calls' = Forget(p, list)

-----------------------------------------------------------------------------
Init ==
    /\ host \in {"cluster", "node"} /\ path \in Path
    /\ info = InitialClusterInfo
    /\ nav = RouteTarget(host, path, "offline")
    /\ config = [num |-> 1, model |-> NoModel]
    /\ loading = FALSE /\ can = FALSE /\ sidebar = TRUE /\ failTimer = FALSE
    /\ dialogs = {} /\ calls = << >>
    /\ backend \in [model : Model \cup {NoModel}, num : {1}, report : Report]
    /\ changes = 0 /\ moves = 0

Idles == UNCHANGED <<host, backend, changes>>
UserMoves == moves < MaxMoves /\ moves' = moves + 1

\* What the scheduler reports, as a snapshot without its nodes.
Snap == [model |-> backend.model, status |-> backend.report.status,
         num |-> backend.num, need |-> backend.report.need]

\* The feed delivers what the scheduler reports now, or resets.
Feed ==
    /\ \E new \in {InfoOf(Snap), InitialClusterInfo} :
         /\ new # info
         /\ Renders(path, new,
                    [config EXCEPT !.model = ModelNameAfter(new, host = "cluster", @)], can, calls)
    /\ Idles /\ UNCHANGED <<loading, moves>>

\* A timer of the router fires.
Navigate ==
    /\ \E p \in nav : Renders(p, info, config, can, calls)
    /\ loading' = FALSE
    /\ Idles /\ UNCHANGED moves

\* The user goes back, or enters a location by hand.
Browse ==
    /\ UserMoves /\ dialogs = {}
    /\ \E p \in Path \ {path} : Renders(p, info, config, can, calls)
    /\ loading' = FALSE
    /\ Idles

\* The number input's Math.max(1, parseInt(...) || 1)
Clamp(n) == IF n >= 1 THEN n ELSE 1

\* The number input: typed, minus or plus.
SetNumber ==
    /\ UserMoves /\ host = "cluster" /\ path = "/setup"
    /\ \E n \in (0..MaxNum) \cup {config.num - 1, config.num + 1} :
         /\ Clamp(n) # config.num /\ Clamp(n) <= MaxNum
         /\ config' = [config EXCEPT !.num = Clamp(n)]
    /\ UNCHANGED <<host, path, nav, info, loading, can, dialogs, sidebar, failTimer, calls, backend, changes>>

\* The model select: on the setup page it only sets the name, on the chat page
\* it commits. It is read-only for a node and fires for another value only.
SelectModel ==
    /\ UserMoves /\ host = "cluster" /\ dialogs = {}
    /\ path \in {"/setup", "/chat"} /\ Len(calls) < MaxCalls
    /\ \E name \in ToSet(ModelList) \ {config.model} :
         Renders(path, info, [config EXCEPT !.model = name], can \/ path = "/chat", calls)
    /\ Idles /\ UNCHANGED loading

\* onContinue of the setup page calls init for a cluster that is idle or
\* failed; init throws without a model.
Continue ==
    /\ UserMoves /\ host = "cluster" /\ path = "/setup" /\ ~loading
    /\ info.status \in {"idle", "failed"}
    /\ InitParams(config.num, config.model) /\ Len(calls) < MaxCalls
    /\ loading' = TRUE
    /\ Renders(path, info, config, can, Append(calls, Call("setup", config.num, config.model)))
    /\ Idles

\* onContinue otherwise: straight to the join page.
ContinueToJoin ==
    /\ UserMoves /\ host = "cluster" /\ path = "/setup" /\ ~loading
    /\ info.status \notin {"idle", "failed"}
    /\ Renders("/join", info, config, can, calls)
    /\ loading' = FALSE
    /\ Idles

ToggleSidebar ==
    /\ UserMoves /\ path = "/chat" /\ dialogs = {}
    /\ sidebar' = ~sidebar
    /\ UNCHANGED <<host, path, nav, info, config, loading, can, dialogs, failTimer, calls,
                   backend, changes>>

\* "Add Nodes", in the expanded sidebar, and the button that closes a dialog.
OpenJoin ==
    /\ UserMoves /\ path = "/chat" /\ sidebar /\ dialogs = {}
    /\ dialogs' = {"join"}
    /\ UNCHANGED <<host, path, nav, info, config, loading, can, sidebar, failTimer, calls, backend, changes>>

CloseDialog ==
    /\ \E d \in dialogs : dialogs' = dialogs \ {d}
    /\ UNCHANGED <<host, path, nav, info, config, loading, can, sidebar, failTimer, calls, backend, changes, moves>>

\* One second after idle: the router's 300 ms have passed before.
FailTimer ==
    /\ failTimer /\ nav = {}
    /\ failTimer' = FALSE
    /\ dialogs' = dialogs \cup {"failed"}
    /\ UNCHANGED <<host, path, nav, info, config, loading, can, sidebar, calls, backend, changes, moves>>

-----------------------------------------------------------------------------
(* The scheduler and the calls of init.                                    *)

\* scheduler_init: the scheduler restarts with the model and waits for nodes.
Serve ==
    /\ \E i \in DOMAIN calls : \E r \in Report :
         /\ ~calls[i].served /\ r.status = "waiting"
         /\ calls' = [calls EXCEPT ![i].served = TRUE]
         /\ backend' = [model |-> calls[i].model, num |-> calls[i].num, report |-> r]
    /\ UNCHANGED <<host, path, nav, info, config, loading, can, dialogs, sidebar, failTimer, changes, moves>>

\* The call is refused: the promise rejects, and finally ends the loading.
ReturnsError(i) ==
    /\ Renders(path, info, config, can, RemoveAt(calls, i))
    /\ loading' = (loading /\ calls[i].by # "setup")

\* The answer arrives: the setup page, mounted or not, goes to the join page.
ReturnsOK(i) ==
    /\ Renders(IF calls[i].by = "select" THEN path ELSE "/join", info, config, can,
               RemoveAt(calls, i))
    /\ loading' = (loading /\ calls[i].by = "select")

\* An answer with an error of the scheduler has the type of a success; it may
\* come without the call having been served.
Returns ==
    /\ \E i \in DOMAIN calls : ReturnsOK(i)
    /\ Idles /\ UNCHANGED moves

Fails ==
    /\ \E i \in DOMAIN calls : ReturnsError(i)
    /\ Idles /\ UNCHANGED moves

\* Nodes come and go, and the report changes; or the scheduler restarts.
Changes ==
    /\ changes < MaxChanges /\ changes' = changes + 1
    /\ \/ \E r \in Report \ {backend.report} : backend' = [backend EXCEPT !.report = r]
       \/ backend.model # NoModel /\ backend' = [backend EXCEPT !.model = NoModel]
    /\ UNCHANGED <<host, path, nav, info, config, loading, can, dialogs, sidebar, failTimer, calls, moves>>

Next ==
    \/ Feed \/ Navigate \/ Browse \/ SetNumber \/ SelectModel \/ Continue \/ ContinueToJoin
    \/ ToggleSidebar \/ OpenJoin \/ CloseDialog \/ FailTimer \/ Serve \/ Returns \/ Fails \/ Changes

\* Timers fire and calls are answered. The feed may do anything.
Fairness == WF_vars(Navigate) /\ WF_vars(FailTimer) /\ WF_vars(Returns)

Spec == Init /\ [][Next]_vars /\ Fairness

-----------------------------------------------------------------------------
(* Whatever the order of reports, clicks and answers, a timer that runs is *)
(* one that the location and the status of this moment call for: nobody is *)
(* moved to a page, or told that the scheduler is gone, for what was true  *)
(* when the timer started (the cleanups of the routers' effects and of the *)
(* dialog 'failed').                                                       *)
TimersCurrent ==
    /\ nav \subseteq RouteTarget(host, path, info.status)
    /\ failTimer => path = "/chat" /\ info.status = "idle"

(* The scheduler is restarted from the chat page only because the user has *)
(* chosen another model in that step: no report, reset, navigation or late *)
(* answer does, even when canAutoCommit was left set by an earlier choice  *)
(* (the effect of ModelSelect).                                            *)
CommitsOnlyChoices == [][
    Cardinality({i \in DOMAIN calls' : calls'[i].by = "select"})
            > Cardinality({i \in DOMAIN calls : calls[i].by = "select"})
    => /\ moves' # moves /\ UNCHANGED <<info, path>>
       /\ config'.model # config.model]_vars

(* The setup page shows loading exactly while a call that it made itself,  *)
(* since it was last entered, is in flight, and then only one.             *)
SetupWaits ==
    /\ loading <=> \E i \in DOMAIN calls : calls[i].by = "setup"
    /\ Cardinality({i \in DOMAIN calls : calls[i].by = "setup"}) <= 1
    /\ loading => path = "/setup"

(* "Once all nodes are connected, you will automatically be directed to    *)
(* the chat interface" (pages/join.tsx, 81-82): a client that sees the     *)
(* cluster available for good ends on the chat page, one that sees it idle *)
(* for good away from it, and a node's page always ends on the chat page.  *)
Directed ==
    /\ host = "cluster" /\ <>[](info.status = "available") => <>[](path = "/chat")
    /\ host = "cluster" /\ <>[](info.status = "idle") => <>[](path # "/chat")
    /\ host = "node" => <>[](path = "/chat")
=============================================================================

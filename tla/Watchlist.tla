------------------------------ MODULE Watchlist ------------------------------
(***************************************************************************)
(* Who may use a workspace and what it watches (api, auth.py and           *)
(* routers/workspace.py; data-models, Workspace and WatchlistItem).  A     *)
(* request is let in by its token, finds its workspace or makes it, and    *)
(* then watches a node or stops.  A PUT looks for a live row and then      *)
(* writes; a DELETE dates the live row; requests overlap.  A live row is   *)
(* one not removed; a partial unique index allows one of a workspace and a *)
(* node, and a unique constraint one workspace of an external id.          *)
(***************************************************************************)
EXTENDS ThesisFeed

CONSTANTS
    Principal,      \* who may ask: [user, organization], of which the last may be {}
    Call,           \* the requests that may be made
    AskedFor,       \* the nodes they name, some of which there are none of
    Notes,          \* the notes they bring, {} for none
    MaxItems        \* bound: the rows that may be written

VARIABLES
    issuer,     \* whether CLERK_ISSUER is set where the API runs
    workspaces, \* the external ids there is a workspace of
    members,    \* the rows [workspace, user, role]
    items,      \* the rows: [id, workspace, node, note, removed], removed NoEnd while live
    call        \* of each request where it is

watchVars == <<issuer, workspaces, members, items, call>>

NoCall == [step |-> "idle", who |-> {}, node |-> {}, note |-> {}, sees |-> {}, removedMeanwhile |-> FALSE]
WatchInit ==
    /\ issuer \in BOOLEAN
    /\ workspaces = {} /\ members = {} /\ items = {}
    /\ call = [k \in Call |-> NoCall]

Live(workspace, node) == {i \in items : i.workspace = workspace /\ i.node = node /\ i.removed = NoEnd}
Goes(k, record) == call' = [call EXCEPT ![k] = record]
AtIts(k, step) == call[k].step = step

-----------------------------------------------------------------------------
(* Identity. *)

\* An organization's session acts in the organization's workspace.
WorkspaceOf(principal) == IF principal.organization # {} THEN principal.organization ELSE {principal.user}
\* The workspaces of a request: one, once it is let in.
Scope(c) == {WorkspaceOf(p) : p \in c.who}

\* verify_presented_token and viewer: a forged token is refused on any route,
\* and one nobody can verify is as good as none.
Forged == {}
Rejected(token) == issuer /\ token = {Forged}
Viewer(token) == IF issuer THEN UNION token ELSE {}

\* member: no identity is a 401, no identity provider a 501.
Presents(k, token) ==
    /\ AtIts(k, "idle")
    /\ Goes(k, [NoCall EXCEPT !.who = Viewer(token),
                              !.step = CASE Viewer(token) # {} -> "find"
                                         [] ~issuer -> "not_implemented"
                                         [] OTHER -> "unauthorized"])
    /\ UNCHANGED <<issuer, workspaces, members, items>>

\* An open route asks for no identity, but refuses a forged one.
ReadsOpenly(k, token) ==
    /\ AtIts(k, "idle")
    /\ Goes(k, [NoCall EXCEPT !.step = IF Rejected(token) THEN "unauthorized" ELSE "read"])
    /\ UNCHANGED <<issuer, workspaces, members, items>>

\* current_workspace: found, or made on first use with its owner.
Finds(k) ==
    /\ AtIts(k, "find")
    /\ Goes(k, [call[k] EXCEPT !.step = IF Scope(call[k]) \subseteq workspaces THEN "inside" ELSE "create"])
    /\ UNCHANGED <<issuer, workspaces, members, items>>

\* Another first request may have made it: nothing catches the conflict.
Creates(k) ==
    /\ AtIts(k, "create")
    /\ Goes(k, [call[k] EXCEPT !.step = IF Scope(call[k]) \subseteq workspaces THEN "error" ELSE "inside"])
    /\ workspaces' = workspaces \cup Scope(call[k])
    /\ members' = members \cup {[workspace |-> WorkspaceOf(p), user |-> p.user, role |-> "owner"] :
                                    p \in {q \in call[k].who : WorkspaceOf(q) \notin workspaces}}
    /\ UNCHANGED <<issuer, items>>

-----------------------------------------------------------------------------
(* The watchlist. *)

\* watch: a node there is none of is a 404.
LooksUp(k, node, note) ==
    /\ AtIts(k, "inside")
    /\ Goes(k, [call[k] EXCEPT !.step = IF node \in Node THEN "write" ELSE "not_found",
                               !.node = {node}, !.note = note,
                               !.sees = {i.id : i \in UNION {Live(w, node) : w \in Scope(call[k])}}])
    /\ UNCHANGED <<issuer, workspaces, members, items>>

Item(c) ==
    [id |-> Cardinality(items) + 1, workspace |-> CHOOSE w \in Scope(c) : TRUE,
     node |-> CHOOSE n \in c.node : TRUE, note |-> c.note, removed |-> NoEnd]
Taken(c) == Live(Item(c).workspace, Item(c).node) # {}

\* Mutant: a PUT that saw a row takes it for written.
InsertsNothing(k) ==
    /\ AtIts(k, "write") /\ call[k].sees = {} /\ Cardinality(items) < MaxItems
    /\ Goes(k, [call[k] EXCEPT !.step = "ok"]) /\ UNCHANGED <<issuer, workspaces, members, items>>

\* uq_watchlist_active refuses a second live row; nothing catches it.
Inserts(k) ==
    /\ AtIts(k, "write") /\ call[k].sees = {} /\ Cardinality(items) < MaxItems
    /\ Goes(k, [call[k] EXCEPT !.step = IF Taken(call[k]) THEN "error" ELSE "ok"])
    /\ items' = IF Taken(call[k]) THEN items ELSE items \cup {Item(call[k])}
    /\ UNCHANGED <<issuer, workspaces, members>>

\* The row it saw, live or not by now, gets the note, if there is one.
UpdatesNote(k) ==
    /\ AtIts(k, "write") /\ call[k].sees # {}
    /\ Goes(k, [call[k] EXCEPT !.step = "ok"])
    /\ items' = {IF call[k].note # {} /\ i.id \in call[k].sees
                 THEN [i EXCEPT !.note = call[k].note] ELSE i : i \in items}
    /\ UNCHANGED <<issuer, workspaces, members>>

Unwatch(k, node) ==
    /\ AtIts(k, "inside")
    /\ items' = {IF i.node = node /\ i.workspace \in Scope(call[k]) /\ i.removed = NoEnd
                 THEN [i EXCEPT !.removed = clock] ELSE i : i \in items}
    /\ call' = [j \in Call |->
                  IF j = k THEN [call[k] EXCEPT !.step = "gone", !.node = {node}]
                  ELSE [call[j] EXCEPT !.removedMeanwhile =
                           @ \/ (AtIts(j, "write") /\ Scope(call[j]) = Scope(call[k]) /\ call[j].node = {node})]]
    /\ UNCHANGED <<issuer, workspaces, members>>

\* The client reads its answer and may ask again.
Returns(k) ==
    /\ call[k].step \in {"ok", "error", "gone", "read", "not_found", "unauthorized", "not_implemented"}
    /\ Goes(k, NoCall) /\ UNCHANGED <<issuer, workspaces, members, items>>

\* watched_alerts: the feed of what is watched today, whatever moment is asked about.
Watched(workspace) == {i.node : i \in {j \in items : j.workspace = workspace /\ j.removed = NoEnd
                                                        /\ TypeOf[j.node] = "process"}}
WatchedAlerts(workspace, asOf) ==
    IF Watched(workspace) = {} THEN {}
    ELSE Generate(Subjects(Watched(workspace), asOf), asOf, CutOf(asOf)).dated

WatchStep ==
    \E k \in Call :
        \/ \E token \in {{}, {Forged}} \cup {{{p}} : p \in Principal} : Presents(k, token) \/ ReadsOpenly(k, token)
        \/ Finds(k) \/ Creates(k)
        \/ \E n \in AskedFor : \E note \in Notes : LooksUp(k, n, note)
        \/ Inserts(k) \/ UpdatesNote(k) \/ Returns(k)
        \/ \E n \in AskedFor : Unwatch(k, n)

-----------------------------------------------------------------------------
(* The readers on one clock.  Walks, feeds and requests have nothing in common *)
(* but the rows they read.                                                     *)

readsVars == <<clock, graphVars, feedVars, watchVars>>

ReadsTick == clock < MaxClock /\ clock' = clock + 1 /\ UNCHANGED <<graphVars, feedVars, watchVars>>
ReadsInit == clock = 1 /\ GraphInit /\ FeedInit /\ WatchInit
ReadsNext ==
    \/ ReadsTick
    \/ GraphStep /\ UNCHANGED <<feedVars, watchVars>>
    \/ FeedStep /\ UNCHANGED <<clock, graphVars, watchVars>>
    \/ WatchStep /\ UNCHANGED <<clock, graphVars, feedVars>>
ReadsSpec == ReadsInit /\ [][ReadsNext]_readsVars

-----------------------------------------------------------------------------
(* Properties. *)

\* No two live rows of a node in a workspace, which a look-up would refuse.
OneLiveRow == \A i \in items : \A j \in Live(i.workspace, i.node) : i.removed = NoEnd => i = j

\* Who is told a node is watched finds it watched, unless it was removed while
\* the request was under way, or after.
AnsweredMeansWatched ==
    [][\A k \in Call : call[k].step = "write" /\ call'[k].step = "ok" =>
          \/ call[k].removedMeanwhile
          \/ \E i \in Live(Item(call[k]).workspace, Item(call[k]).node)' : i.note = call[k].note \/ call[k].note = {}]_watchVars

\* When someone stopped watching is kept (workspace.py:138-142), and a failure
\* costs an overlap: somebody else's PUT got there first.
RemovalsAreKept ==
    [][/\ \A i \in items : i.removed # NoEnd => \E j \in items' : j.id = i.id /\ j.removed = i.removed
       /\ \A k \in Call : AtIts(k, "write") /\ call'[k].step = "error" => Live(Item(call[k]).workspace, Item(call[k]).node) # {}
       /\ \A k \in Call : AtIts(k, "create") /\ call'[k].step = "error" =>
             \E m \in members : m.workspace \in Scope(call[k])
      ]_watchVars

\* A first request leaves a workspace whole, whoever else was first: an owner of
\* its own, one of them, and nothing is watched in it but by those who act in it.
WorkspacesAreOwned ==
    /\ \A w \in workspaces : Cardinality({m \in members : m.workspace = w /\ m.role = "owner"}) = 1
    /\ \A m \in members : \E p \in Principal : p.user = m.user /\ WorkspaceOf(p) = m.workspace
    /\ \A i \in items : \E m \in members : m.workspace = i.workspace

\* The feed of a workspace is of what it watches, though the engine takes no
\* Processes for all of them (alerts.py:104), and says what the public feed says.
OnlyWatchedIsTold ==
    \A w \in workspaces : \A asOf \in {Now} \cup 1..clock :
        /\ \A a \in WatchedAlerts(w, asOf) : a.id[2] \in Watched(w)
        /\ Watched(w) # {} => WatchedAlerts(w, asOf)
               = {a \in Generate(Subjects({}, asOf), asOf, CutOf(asOf)).dated : a.id[2] \in Watched(w)}

(* A watchlist does what its answers say: one live row of a node, who is told a
   node is watched finds it watched, a removal keeps its date, only an overlap
   makes a request fail, a workspace is made once and with its owner, and the feed
   is of what is watched. *)
WatchIsAnswered ==
    /\ [](OneLiveRow /\ OnlyWatchedIsTold /\ WorkspacesAreOwned)
    /\ AnsweredMeansWatched
    /\ RemovalsAreKept
=============================================================================

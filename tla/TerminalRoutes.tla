--------------------------- MODULE TerminalRoutes ---------------------------
(***************************************************************************)
(* How the console chooses the worker of a command, and how it remembers   *)
(* the worker of a terminal session (console/internal/grpcserver:          *)
(* terminal_session_routes.go, pickSessionForDispatch and what it calls in *)
(* service_dispatch.go, swapSession and removeSession).                    *)
(*                                                                         *)
(* Three tables are read and written under three different locks, one      *)
(* after the other: sessions by worker, in-flight slots by session, routes *)
(* by terminal session.  One step is one hold of a lock.  What happens     *)
(* inside one session once a slot is taken is the subject of WorkerSession *)
(* and is reduced here to: sent or not, answered, timed out, or failed by  *)
(* the closing of the session.                                             *)
(***************************************************************************)
EXTENDS Integers, FiniteSets

CONSTANTS
  Calls,        \* calls of dispatchCommand
  Terminals,    \* terminal session ids
  Nodes,        \* workers
  Conns,        \* connections of workers: values of activeSession
  Connected,    \* those that are served when the behaviour begins
  Deletable,    \* workers that an administrator may delete
  None,         \* no terminal session, no worker, no connection
  TerminalOf,   \* the terminal session of a call, None for other commands
  NodeOf,       \* the worker of a connection
  MaxInflight   \* max_inflight of the capability, as each connection declared it

ASSUME CallsAssumption == IsFiniteSet(Calls)
ASSUME NoneAssumption == None \notin Terminals \cup Nodes \cup Conns
ASSUME TerminalOfAssumption == TerminalOf \in [Calls -> Terminals \cup {None}]
ASSUME NodeOfAssumption == NodeOf \in [Conns -> Nodes]
ASSUME ConnectedAssumption ==
  /\ Connected \subseteq Conns
  /\ \A j, k \in Connected : NodeOf[j] = NodeOf[k] => j = k
ASSUME DeletableAssumption == Deletable \subseteq Nodes
ASSUME MaxInflightAssumption == MaxInflight \in [Conns -> Nat \ {0}]

VARIABLES
  sessions,   \* RegistryService.sessions: worker -> connection
  link,       \* progress of the Connect handler of each connection
  capable,    \* connections whose hello declared the capability
  replaced,   \* what swapSession returned to it
  doomed,     \* connections disconnectWorker took and has not closed yet
  closed,     \* connections whose close() has run
  inflight,   \* capabilities[...].inflight of each connection
  route,      \* terminalSessionToNode
  index,      \* terminalNodeToSessionIDIndex
  idle,       \* terminal sessions whose LastUsedUnixMs is past the TTL
  pc,         \* progress of each call
  round,      \* how often the call has gone through all workers
  pick,       \* what pickSessionForCapability has gathered
  target,     \* the worker a route sends the call to
  slot,       \* the connection on which the call holds a slot
  session,    \* the connection the call is looking at, or has picked
  created,    \* terminalRouteCreated
  outcome,    \* what came out of the result channel
  visited,    \* history: workers that were sent a command of the terminal
  disturbed   \* history: terminals whose route may be dropped, see Sticky

connVars == <<sessions, link, capable, replaced, doomed, closed>>
routeVars == <<route, index, idle>>
callVars == <<pc, round, pick, target, slot, session, created, outcome>>
vars == <<connVars, inflight, routeVars, callVars, visited, disturbed>>

CallSteps == {"start", "touch", "list", "look", "snapshot", "reserve", "giveback", "node",
              "acquire", "stale", "send", "unroute", "await", "answered",
              "leave", "done", "no_worker", "no_capacity"}
LinkSteps == {"new", "swapped", "replacing", "serving", "removed", "closing", "ended"}

(* load is the in-flight count of each candidate when it was looked at;    *)
(* looked and full are history: the connections the call considered in its *)
(* last search, and those among them that it found without room, when it   *)
(* looked or when it tried.                                                *)
Picks == [todo : SUBSET Nodes, preferred : SUBSET Conns, fallback : SUBSET Conns,
          load : [Conns -> Nat], looked : SUBSET Conns, full : SUBSET Conns]
NewPick(nodes) ==
  [todo |-> nodes, preferred |-> {}, fallback |-> {}, load |-> [k \in Conns |-> 0],
   looked |-> {}, full |-> {}]

TypeOK ==
  /\ sessions \in [Nodes -> Conns \cup {None}]
  /\ link \in [Conns -> LinkSteps]
  /\ capable \in SUBSET Conns
  /\ replaced \in [Conns -> Conns \cup {None}]
  /\ doomed \in SUBSET Conns
  /\ closed \in SUBSET Conns
  /\ inflight \in [Conns -> Nat] /\ \A k \in Conns : inflight[k] <= MaxInflight[k]
  /\ route \in [Terminals -> Nodes \cup {None}]
  /\ index \in [Nodes -> SUBSET Terminals]
  /\ idle \in SUBSET Terminals
  /\ pc \in [Calls -> CallSteps]
  /\ round \in [Calls -> 0..2]
  /\ pick \in [Calls -> Picks]
  /\ target \in [Calls -> Nodes \cup {None}]
  /\ slot \in [Calls -> Conns \cup {None}]
  /\ session \in [Calls -> Conns \cup {None}]
  /\ created \in [Calls -> BOOLEAN]
  /\ outcome \in [Calls -> {"none", "ok", "not_found", "error", "closed"}]
  /\ visited \in [Terminals -> SUBSET Nodes]
  /\ disturbed \in SUBSET Terminals

Init ==
  /\ sessions = [n \in Nodes |->
       IF \E k \in Connected : NodeOf[k] = n
       THEN CHOOSE k \in Connected : NodeOf[k] = n ELSE None]
  /\ link = [k \in Conns |-> IF k \in Connected THEN "serving" ELSE "new"]
  /\ capable = Connected
  /\ replaced = [k \in Conns |-> None]
  /\ doomed = {} /\ closed = {}
  /\ inflight = [k \in Conns |-> 0]
  /\ route = [s \in Terminals |-> None]
  /\ index = [n \in Nodes |-> {}]
  /\ idle = {}
  /\ pc = [c \in Calls |-> "start"]
  /\ round = [c \in Calls |-> 0]
  /\ pick = [c \in Calls |-> NewPick({})]
  /\ target = [c \in Calls |-> None]
  /\ slot = [c \in Calls |-> None]
  /\ session = [c \in Calls |-> None]
  /\ created = [c \in Calls |-> FALSE]
  /\ outcome = [c \in Calls |-> "none"]
  /\ visited = [s \in Terminals |-> {}]
  /\ disturbed = {}

-----------------------------------------------------------------------------
(* The route table: one operator per function that holds terminalRoutesMu. *)

Goto(c, step) == pc' = [pc EXCEPT ![c] = step]
Forget(c) ==
  /\ round' = [round EXCEPT ![c] = 0]
  /\ session' = [session EXCEPT ![c] = None]
  /\ created' = [created EXCEPT ![c] = FALSE]
  /\ outcome' = [outcome EXCEPT ![c] = "none"]
Terminal(c) == TerminalOf[c]

(* Mutant: the terminal stays in the index of its previous worker. *)
BindKeepingIndex(s, n) ==
  /\ route' = [route EXCEPT ![s] = n]
  /\ index' = [index EXCEPT ![n] = @ \cup {s}]
  /\ idle' = idle \ {s}

(* bindTerminalSessionRoute *)
Bind(s, n) ==
  /\ route' = [route EXCEPT ![s] = n]
  /\ index' = [m \in Nodes |->
       IF m = n THEN index[m] \cup {s}
       ELSE IF m = route[s] THEN index[m] \ {s} ELSE index[m]]
  /\ idle' = idle \ {s}

(* clearTerminalSessionRoute, with the worker the caller expects there. *)
Clear(s, n) ==
  IF route[s] = n
  THEN /\ route' = [route EXCEPT ![s] = None]
       /\ index' = [index EXCEPT ![n] = @ \ {s}]
       /\ idle' = idle \ {s}
  ELSE UNCHANGED routeVars

(* clearTerminalSessionRoutesByNode *)
ClearByNode(n) ==
  LET gone == {s \in index[n] : route[s] = n} IN
  /\ route' = [s \in Terminals |-> IF s \in gone THEN None ELSE route[s]]
  /\ index' = [index EXCEPT ![n] = {}]
  /\ idle' = idle \ gone

(* pruneExpiredTerminalSessionRoutes *)
PruneIdle ==
  /\ route' = [s \in Terminals |-> IF s \in idle THEN None ELSE route[s]]
  /\ index' = [n \in Nodes |-> index[n] \ {s \in idle : route[s] = n}]
  /\ idle' = {}

-----------------------------------------------------------------------------
(* Slots: tryAcquireCapability and releaseCapability.                      *)

HasRoom(k) == inflight[k] < MaxInflight[k]
Take(c, k) ==
  /\ inflight' = [inflight EXCEPT ![k] = @ + 1]
  /\ slot' = [slot EXCEPT ![c] = k]
  /\ session' = [session EXCEPT ![c] = k]
Release(c) ==
  /\ inflight' = [inflight EXCEPT ![slot[c]] = IF @ > 0 THEN @ - 1 ELSE 0]
  /\ slot' = [slot EXCEPT ![c] = None]

-----------------------------------------------------------------------------
(* The dispatcher of call c: pickSessionForDispatch.                       *)

(* maybePruneTerminalSessionRoutes: at most once a minute, by whoever wins *)
(* the compare-and-swap; otherwise nothing is pruned.                      *)
Begin(c) ==
  /\ pc[c] = "start"
  /\ IF Terminal(c) = None
     THEN Goto(c, "list") /\ UNCHANGED routeVars
     ELSE Goto(c, "touch") /\ (PruneIdle \/ UNCHANGED routeVars)
  /\ UNCHANGED <<connVars, inflight, round, pick, target, slot, session, created,
                 outcome, visited, disturbed>>

(* touchTerminalSessionRoute *)
Touch(c) ==
  /\ pc[c] = "touch"
  /\ IF route[Terminal(c)] = None
     THEN Goto(c, "list") /\ UNCHANGED <<target, idle>>
     ELSE /\ Goto(c, "node")
          /\ target' = [target EXCEPT ![c] = route[Terminal(c)]]
          /\ idle' = idle \ {Terminal(c)}
  /\ UNCHANGED <<connVars, inflight, route, index, round, pick, slot, session,
                 created, outcome, visited, disturbed>>

(* listOnlineNodeIDsForCapability: the store's view of who is online is    *)
(* neither the table of sessions nor in step with it.                      *)
List(c) ==
  /\ pc[c] = "list"
  /\ \E nodes \in SUBSET Nodes : pick' = [pick EXCEPT ![c] = NewPick(nodes)]
  /\ round' = [round EXCEPT ![c] = IF @ < 2 THEN @ + 1 ELSE 2]
  /\ Goto(c, "look")
  /\ UNCHANGED <<connVars, inflight, routeVars, target, slot, session, created,
                 outcome, visited, disturbed>>

(* getSession and hasCapability. *)
Serving(n) ==
  IF sessions[n] \in capable THEN sessions[n] ELSE None

(* The round-robin start is any. *)
Look(c) ==
  /\ pc[c] = "look"
  /\ \E n \in pick[c].todo :
       /\ pick' = [pick EXCEPT ![c].todo = @ \ {n}]
       /\ IF Serving(n) = None
          THEN UNCHANGED <<pc, session>>
          ELSE /\ Goto(c, "snapshot")
               /\ session' = [session EXCEPT ![c] = Serving(n)]
  /\ UNCHANGED <<connVars, inflight, routeVars, round, target, slot, created,
                 outcome, visited, disturbed>>

(* Mutant: a worker as idle as the best so far replaces the best so far. *)
ConsiderReplacing(p, k) ==
  LET q == [p EXCEPT !.looked = @ \cup {k}, !.load[k] = inflight[k]] IN
  IF ~HasRoom(k) THEN [q EXCEPT !.full = @ \cup {k}]
  ELSE IF \A b \in p.preferred : inflight[k] <= p.load[b]
       THEN [q EXCEPT !.preferred = {k}]
       ELSE [q EXCEPT !.fallback = @ \cup {k}]

(* One turn of the loop over the candidates.  A candidate that is better   *)
(* than the preferred ones takes their place; they are not kept.           *)
Consider(p, k) ==
  LET q == [p EXCEPT !.looked = @ \cup {k}, !.load[k] = inflight[k]] IN
  IF ~HasRoom(k) THEN [q EXCEPT !.full = @ \cup {k}]
  ELSE IF \A b \in p.preferred : inflight[k] < p.load[b]
       THEN [q EXCEPT !.preferred = {k}]
  ELSE IF \A b \in p.preferred : inflight[k] = p.load[b]
       THEN [q EXCEPT !.preferred = @ \cup {k}]
       ELSE [q EXCEPT !.fallback = @ \cup {k}]

(* inflightSnapshot of the candidate, under the lock of its session: it    *)
(* may have been replaced or closed since getSession.                      *)
Snapshot(c) ==
  /\ pc[c] = "snapshot"
  /\ pick' = [pick EXCEPT ![c] = Consider(@, session[c])]
  /\ session' = [session EXCEPT ![c] = None]
  /\ Goto(c, "look")
  /\ UNCHANGED <<connVars, inflight, routeVars, round, target, slot, created,
                 outcome, visited, disturbed>>

(* The candidates in the order of preference that are still to be tried. *)
Untried(p) == IF p.preferred # {} THEN p.preferred ELSE p.fallback
Tried(p, k) ==
  [p EXCEPT !.preferred = @ \ {k}, !.fallback = @ \ {k}, !.full = @ \cup {k}]

(* The two loops over preferred and fallback. *)
Acquire(c) ==
  /\ pc[c] = "look" /\ pick[c].todo = {}
  /\ \E k \in Untried(pick[c]) :
       IF HasRoom(k)
       THEN /\ Take(c, k)
            /\ Goto(c, IF Terminal(c) = None THEN "send" ELSE "reserve")
            /\ pick' = [pick EXCEPT ![c] = NewPick({})]
       ELSE /\ pick' = [pick EXCEPT ![c] = Tried(@, k)]
            /\ UNCHANGED <<inflight, slot, session, pc>>
  /\ UNCHANGED <<connVars, routeVars, round, target, created, outcome, visited,
                 disturbed>>

(* No candidate is left: ErrNoWorkerCapacity, or ErrNoCapabilityWorker when *)
(* none of the listed workers had a session.                               *)
Refuse(c) ==
  /\ pc[c] = "look" /\ pick[c].todo = {} /\ Untried(pick[c]) = {}
  /\ Goto(c, IF pick[c].looked = {} THEN "no_worker" ELSE "no_capacity")
  /\ UNCHANGED <<connVars, inflight, routeVars, round, pick, target, slot, session,
                 created, outcome, visited, disturbed>>

(* reserveTerminalSessionRoute: the first of two concurrent calls decides. *)
Reserve(c) ==
  LET s == Terminal(c)
      n == NodeOf[slot[c]] IN
  /\ pc[c] = "reserve"
  /\ IF route[s] = None
     THEN /\ Bind(s, n)
          /\ created' = [created EXCEPT ![c] = TRUE]
          /\ Goto(c, "send")
          /\ UNCHANGED target
     ELSE /\ idle' = idle \ {s}
          /\ UNCHANGED <<route, index>>
          /\ created' = [created EXCEPT ![c] = FALSE]
          /\ Goto(c, IF route[s] = n THEN "send" ELSE "giveback")
          /\ target' = [target EXCEPT ![c] = IF route[s] = n THEN None ELSE route[s]]
  /\ UNCHANGED <<connVars, inflight, round, pick, slot, session, outcome, visited,
                 disturbed>>

(* Mutant: the slot on the worker that lost is forgotten. *)
GiveBackForgetting(c) ==
  /\ pc[c] = "giveback"
  /\ slot' = [slot EXCEPT ![c] = None]
  /\ Goto(c, "node")
  /\ UNCHANGED <<connVars, inflight, routeVars, round, pick, target, session,
                 created, outcome, visited, disturbed>>

(* Another request reserved first: its worker is used, this slot is not. *)
GiveBack(c) ==
  /\ pc[c] = "giveback"
  /\ Release(c)
  /\ Goto(c, "node")
  /\ UNCHANGED <<connVars, routeVars, round, pick, target, session, created,
                 outcome, visited, disturbed>>

(* pickSessionForNodeAndCapability, first half: getSession and             *)
(* hasCapability.  The second time that a reserved worker is gone, or came *)
(* back without the capability, the call gives up.                         *)
FindNode(c) ==
  /\ pc[c] = "node"
  /\ session' = [session EXCEPT ![c] = Serving(target[c])]
  /\ IF Serving(target[c]) # None
     THEN /\ Goto(c, "acquire")
          /\ pick' = [pick EXCEPT ![c] =
               [NewPick({}) EXCEPT !.looked = {Serving(target[c])}]]
          /\ UNCHANGED disturbed
     ELSE /\ Goto(c, IF round[c] < 2 THEN "stale" ELSE "no_worker")
          /\ disturbed' = disturbed \cup {Terminal(c)}
          /\ UNCHANGED pick
  /\ UNCHANGED <<connVars, inflight, routeVars, round, target, slot, created,
                 outcome, visited>>

(* pickSessionForNodeAndCapability, second half: tryAcquireCapability. *)
AcquireNode(c) ==
  LET k == session[c] IN
  /\ pc[c] = "acquire"
  /\ IF HasRoom(k)
     THEN /\ Take(c, k)
          /\ pick' = [pick EXCEPT ![c] = NewPick({})]
          /\ Goto(c, "send")
     ELSE /\ pick' = [pick EXCEPT ![c].full = {k}]
          /\ Goto(c, "no_capacity")
          /\ UNCHANGED <<inflight, slot, session>>
  /\ target' = [target EXCEPT ![c] = None]
  /\ UNCHANGED <<connVars, routeVars, round, created, outcome, visited, disturbed>>

(* The route leads nowhere: clear it and search all workers (again). *)
ClearStale(c) ==
  /\ pc[c] = "stale"
  /\ Clear(Terminal(c), target[c])
  /\ target' = [target EXCEPT ![c] = None]
  /\ Goto(c, "list")
  /\ UNCHANGED <<connVars, inflight, round, pick, slot, session, created,
                 outcome, visited, disturbed>>

-----------------------------------------------------------------------------
(* The rest of dispatchCommand.                                            *)

(* The command is registered and queued. *)
Send(c) ==
  /\ pc[c] = "send" /\ session[c] \notin closed
  /\ Goto(c, "await")
  /\ visited' = [s \in Terminals |->
       IF s = Terminal(c) THEN visited[s] \cup {NodeOf[session[c]]} ELSE visited[s]]
  /\ UNCHANGED <<connVars, inflight, routeVars, round, pick, target, slot, session,
                 created, outcome, disturbed>>

(* No command id, no registration (the slot is given back, then the route),*)
(* or no room in the queue before the deadline (the other way round).      *)
SendFails(c) ==
  /\ pc[c] = "send"
  /\ Goto(c, "unroute")
  /\ Release(c) \/ UNCHANGED <<inflight, slot>>
  /\ disturbed' = IF created[c] THEN disturbed \cup {Terminal(c)} ELSE disturbed
  /\ UNCHANGED <<connVars, routeVars, round, pick, target, session, created,
                 outcome, visited>>

(* Mutant: the call that made the route keeps it although it cannot send. *)
UnrouteKeeping(c) ==
  /\ pc[c] = "unroute"
  /\ Goto(c, "leave")
  /\ UNCHANGED <<connVars, inflight, routeVars, round, pick, target, slot, session,
                 created, outcome, visited, disturbed>>

(* Only the call that created the route takes it back. *)
Unroute(c) ==
  /\ pc[c] = "unroute"
  /\ IF created[c] THEN Clear(Terminal(c), NodeOf[session[c]])
                   ELSE UNCHANGED routeVars
  /\ Goto(c, "leave")
  /\ UNCHANGED <<connVars, inflight, round, pick, target, slot, session, created,
                 outcome, visited, disturbed>>

(* resolvePending: the receive loop gives the slot back and delivers.      *)
Resolve(c) ==
  /\ pc[c] = "await"
  /\ \E o \in {"ok", "not_found", "error"} :
       /\ outcome' = [outcome EXCEPT ![c] = o]
       /\ disturbed' = IF o = "not_found" /\ Terminal(c) # None
                       THEN disturbed \cup {Terminal(c)} ELSE disturbed
  /\ Release(c)
  /\ Goto(c, "answered")
  /\ UNCHANGED <<connVars, routeVars, round, pick, target, session, created, visited>>

(* close() fails what is pending on the session. *)
FailPending(c) ==
  /\ pc[c] = "await" /\ session[c] \in closed
  /\ outcome' = [outcome EXCEPT ![c] = "closed"]
  /\ Release(c)
  /\ Goto(c, "answered")
  /\ UNCHANGED <<connVars, routeVars, round, pick, target, session, created, visited,
                 disturbed>>

(* Mutant: any failure of the command drops the route. *)
ApplyDroppingOnError(c) ==
  /\ pc[c] = "answered"
  /\ IF Terminal(c) = None THEN UNCHANGED routeVars
     ELSE IF outcome[c] = "ok" THEN Bind(Terminal(c), NodeOf[session[c]])
     ELSE Clear(Terminal(c), NodeOf[session[c]])
  /\ Goto(c, "leave")
  /\ UNCHANGED <<connVars, inflight, round, pick, target, slot, session, created,
                 outcome, visited, disturbed>>

(* The dispatcher reads its result: success (re)binds the terminal to the  *)
(* worker that answered, session_not_found forgets it.  A channel closed   *)
(* without an outcome is not seen here: only the call itself closes it so. *)
Apply(c) ==
  /\ pc[c] = "answered"
  /\ IF Terminal(c) # None /\ outcome[c] = "ok"
     THEN Bind(Terminal(c), NodeOf[session[c]])
     ELSE IF Terminal(c) # None /\ outcome[c] = "not_found"
     THEN Clear(Terminal(c), NodeOf[session[c]])
     ELSE UNCHANGED routeVars
  /\ Goto(c, "leave")
  /\ UNCHANGED <<connVars, inflight, round, pick, target, slot, session, created,
                 outcome, visited, disturbed>>

(* The context ends; it may win the select even though a result is there.  *)
(* A route the call created stays.                                         *)
Expire(c) ==
  /\ pc[c] \in {"await", "answered"}
  /\ Goto(c, "leave")
  /\ UNCHANGED <<connVars, inflight, routeVars, round, pick, target, slot, session,
                 created, outcome, visited, disturbed>>

(* The deferred unregisterPending: nothing to release if somebody else did. *)
Leave(c) ==
  /\ pc[c] = "leave"
  /\ IF slot[c] = None THEN UNCHANGED <<inflight, slot>> ELSE Release(c)
  /\ Goto(c, "done")
  /\ Forget(c)
  /\ UNCHANGED <<connVars, routeVars, pick, target, visited, disturbed>>

-----------------------------------------------------------------------------
(* Connections and deletions.                                              *)

(* swapSession, under sessionsMu.  What the hello declares is the worker's *)
(* choice.                                                                 *)
Swap(k) ==
  /\ link[k] = "new"
  /\ capable' \in {capable, capable \cup {k}}
  /\ replaced' = [replaced EXCEPT ![k] = sessions[NodeOf[k]]]
  /\ sessions' = [sessions EXCEPT ![NodeOf[k]] = k]
  /\ link' = [link EXCEPT ![k] = "swapped"]
  /\ UNCHANGED <<doomed, closed, inflight, routeVars, callVars, visited, disturbed>>

(* swapSession and removeSession clear the worker's routes after they have *)
(* let go of sessionsMu.                                                   *)
ClearRoutes(k) ==
  /\ link[k] \in {"swapped", "removed"}
  /\ ClearByNode(NodeOf[k])
  /\ disturbed' = disturbed \cup {s \in Terminals : route[s] = NodeOf[k]}
  /\ link' = [link EXCEPT ![k] = IF @ = "swapped" THEN "replacing" ELSE "closing"]
  /\ UNCHANGED <<sessions, capable, replaced, doomed, closed, inflight, callVars, visited>>

(* replaced.close(...) *)
CloseReplaced(k) ==
  /\ link[k] = "replacing"
  /\ closed' = IF replaced[k] = None THEN closed ELSE closed \cup {replaced[k]}
  /\ replaced' = [replaced EXCEPT ![k] = None]
  /\ link' = [link EXCEPT ![k] = "serving"]
  /\ UNCHANGED <<sessions, capable, doomed, inflight, routeVars, callVars, visited,
                 disturbed>>

(* removeSession, under sessionsMu: only the session that is still there   *)
(* goes on to clear the routes.                                            *)
Remove(k) ==
  LET n == NodeOf[k] IN
  /\ link[k] = "serving"
  /\ IF sessions[n] = k
     THEN /\ sessions' = [sessions EXCEPT ![n] = None]
          /\ link' = [link EXCEPT ![k] = "removed"]
     ELSE /\ link' = [link EXCEPT ![k] = "closing"]
          /\ UNCHANGED sessions
  /\ UNCHANGED <<capable, replaced, doomed, closed, inflight, routeVars, callVars, visited,
                 disturbed>>

CloseOwn(k) ==
  /\ link[k] = "closing"
  /\ closed' = closed \cup {k}
  /\ link' = [link EXCEPT ![k] = "ended"]
  /\ UNCHANGED <<sessions, capable, replaced, doomed, inflight, routeVars, callVars, visited,
                 disturbed>>

(* disconnectWorker, when a worker is deleted: the routes are left alone.  *)
Disconnect(n) ==
  /\ sessions[n] # None
  /\ doomed' = doomed \cup {sessions[n]}
  /\ sessions' = [sessions EXCEPT ![n] = None]
  /\ UNCHANGED <<link, capable, replaced, closed, inflight, routeVars, callVars, visited,
                 disturbed>>

CloseDoomed(k) ==
  /\ k \in doomed
  /\ doomed' = doomed \ {k}
  /\ closed' = closed \cup {k}
  /\ UNCHANGED <<sessions, link, capable, replaced, inflight, routeVars, callVars, visited,
                 disturbed>>

(* terminalRouteTTL (30 minutes) passes since the last use.  A call in     *)
(* flight has used the route, and lasts at most maxTaskTimeout (10).       *)
InFlight(s) ==
  \E c \in Calls : Terminal(c) = s
                   /\ pc[c] \notin {"start", "touch", "done", "no_worker", "no_capacity"}
Age(s) ==
  /\ route[s] # None /\ s \notin idle /\ ~InFlight(s)
  /\ idle' = idle \cup {s}
  /\ disturbed' = disturbed \cup {s}
  /\ UNCHANGED <<connVars, inflight, route, index, callVars, visited>>

-----------------------------------------------------------------------------
Picking(c) ==
  \/ Begin(c) \/ Touch(c) \/ List(c) \/ Look(c) \/ Snapshot(c) \/ Acquire(c)
  \/ Refuse(c) \/ Reserve(c) \/ GiveBack(c) \/ FindNode(c) \/ AcquireNode(c) \/ ClearStale(c)
Dispatching(c) ==
  \/ Send(c) \/ SendFails(c) \/ Unroute(c) \/ Resolve(c) \/ FailPending(c)
  \/ Apply(c) \/ Expire(c) \/ Leave(c)
Connection(k) ==
  \/ Swap(k) \/ ClearRoutes(k) \/ CloseReplaced(k) \/ Remove(k) \/ CloseOwn(k)
  \/ CloseDoomed(k)

Next ==
  \/ \E c \in Calls : Picking(c) \/ Dispatching(c)
  \/ \E k \in Conns : Connection(k)
  \/ \E n \in Deletable : Disconnect(n)
  \/ \E s \in Terminals : Age(s)

Spec == Init /\ [][Next]_vars

-----------------------------------------------------------------------------
(* Properties.                                                             *)

(* The route table and its index by worker say the same, whichever of      *)
(* bind, reserve, clear, clear by worker and prune comes last.  A terminal *)
(* missing from the index would survive the loss of its worker.            *)
IndexAgrees == \A n \in Nodes : index[n] = {s \in Terminals : route[s] = n}

(* Each session's counter is the number of calls that hold a slot on it,   *)
(* and a call that is through holds none: one that lost the reservation,   *)
(* found its worker gone, failed to send, timed out or was answered has    *)
(* given its slot back, once.                                              *)
Holders(k) == {c \in Calls : slot[c] = k}
SlotsHeld ==
  /\ \A k \in Conns : inflight[k] = Cardinality(Holders(k))
  /\ \A c \in Calls : pc[c] \in {"done", "no_worker", "no_capacity"} => slot[c] = None

(* Commands of one terminal session are sent to one worker, however its    *)
(* calls overlap, fail or time out, as long as nothing has happened that   *)
(* may drop its route: the call that made the route could not send, a      *)
(* worker answered session_not_found, the worker connected anew or was     *)
(* found gone, or the route was not used for its TTL.                      *)
Sticky ==
  \A s \in Terminals \ disturbed : \A m, n \in visited[s] : m = n

(* A route leads to a worker that has been sent a command of the terminal, *)
(* or a call that made it is still about to send one there or to take it   *)
(* back: a call that could not send leaves no route behind that would hold *)
(* the terminal to a worker that never heard of it, whoever cleared,       *)
(* reserved or bound the route in between.                                 *)
RouteTraced ==
  \A s \in Terminals : route[s] # None =>
    \/ route[s] \in visited[s]
    \/ \E c \in Calls : /\ created[c] /\ Terminal(c) = s
                       /\ pc[c] \in {"send", "unroute"}
                       /\ NodeOf[session[c]] = route[s]

(* A call that is refused for lack of capacity found each worker it        *)
(* considered full, when it looked or when it tried to take a slot, or has *)
(* passed it over for a less loaded one whose room was gone at the attempt.*)
PassedOver(p, k) ==
  \E b \in p.full : p.load[b] < MaxInflight[b] /\ p.load[b] < p.load[k]
RefusalExplained ==
  \A c \in Calls : pc[c] = "no_capacity" =>
    \A k \in pick[c].looked : k \in pick[c].full \/ PassedOver(pick[c], k)

(* What ErrNoWorkerCapacity says: each worker the call considered was      *)
(* full, at its look or at its attempt.  A worker that was passed over for *)
(* a less loaded one is not tried, so that this fails.                     *)
RefusedOnlyIfFull ==
  \A c \in Calls : pc[c] = "no_capacity" => pick[c].looked \subseteq pick[c].full
=============================================================================

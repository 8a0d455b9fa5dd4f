------------------------ MODULE TerminalRoutesProofs ------------------------
(***************************************************************************)
(* Machine-checked proofs about TerminalRoutes, for every finite set of    *)
(* calls and any terminals, workers, connections and max_inflight.         *)
(***************************************************************************)
EXTENDS TerminalRoutes, FiniteSetTheorems, TLAPS

(* Where a call is determines which of its variables are set.              *)
Placed ==
  \A c \in Calls :
    /\ pc[c] \in {"touch", "reserve", "giveback", "node", "acquire", "stale"}
         => Terminal(c) \in Terminals
    /\ created[c] => Terminal(c) \in Terminals
    /\ pc[c] \in {"giveback", "node", "stale"} => target[c] \in Nodes
    /\ pc[c] \in {"snapshot", "acquire", "reserve", "giveback", "send", "unroute",
                  "await", "answered"}
         => session[c] \in Conns
    /\ pc[c] \in {"reserve", "giveback", "send", "await"} => slot[c] = session[c]
    /\ pc[c] \in {"start", "touch", "list", "look", "snapshot", "node", "acquire", "stale",
                  "answered", "done", "no_worker", "no_capacity"} => slot[c] = None

(* The table of sessions keeps a worker's own connection under its id.     *)
SessionsMatch == \A n \in Nodes : sessions[n] # None => NodeOf[sessions[n]] = n

(* A terminal that nothing has disturbed is followed by all its calls.     *)
Followed(s) ==
  /\ s \notin idle
  /\ visited[s] \subseteq {route[s]}
  /\ \A c \in Calls : Terminal(c) = s =>
       /\ pc[c] \in {"send", "acquire", "await", "answered"} => route[s] = NodeOf[session[c]]
       /\ pc[c] \in {"giveback", "node"} => route[s] = target[c]
       /\ pc[c] = "unroute" => ~created[c]
       /\ pc[c] # "stale"
       /\ pc[c] = "answered" => outcome[c] # "not_found"
Follow == \A s \in Terminals \ disturbed : Followed(s)

(* A call that waits for its result, or has it, has sent its command to    *)
(* the worker it holds on to.                                              *)
Sent ==
  \A c \in Calls : pc[c] \in {"await", "answered"} /\ Terminal(c) # None
    => NodeOf[session[c]] \in visited[Terminal(c)]

(* What a search has looked at is found full, still a candidate, or passed *)
(* over for a candidate with less load.                                    *)
Accounted(p) ==
  /\ p.full \cup p.preferred \cup p.fallback \subseteq p.looked
  /\ \A k \in p.looked : NodeOf[k] \notin p.todo
  /\ \A k \in p.preferred : p.load[k] < MaxInflight[k]
  /\ \A k \in p.looked :
       \/ k \in p.full \cup p.preferred \cup p.fallback
       \/ \E b \in p.full \cup p.preferred :
            p.load[b] < MaxInflight[b] /\ p.load[b] < p.load[k]
Kept ==
  \A c \in Calls :
    /\ pc[c] = "acquire" => pick[c].looked = {session[c]}
    /\ pc[c] \in {"look", "snapshot"} => Accounted(pick[c])
    /\ pc[c] = "snapshot" => NodeOf[session[c]] \notin pick[c].todo
                             /\ session[c] \notin pick[c].looked

IInv == TypeOK /\ Placed /\ SessionsMatch

-----------------------------------------------------------------------------
(* The changes of the route table keep its types.                          *)
LEMMA TableTypes ==
  ASSUME TypeOK, NEW s \in Terminals, NEW n \in Nodes,
         Bind(s, n) \/ Clear(s, n) \/ ClearByNode(n) \/ PruneIdle \/ UNCHANGED routeVars
  PROVE  /\ route' \in [Terminals -> Nodes \cup {None}]
         /\ index' \in [Nodes -> SUBSET Terminals]
         /\ idle' \in SUBSET Terminals
<1> USE DEF TypeOK, routeVars
<1>1. CASE Bind(s, n)
  BY <1>1 DEF Bind
<1>2. CASE Clear(s, n)
  BY <1>2 DEF Clear
<1>3. CASE ClearByNode(n)
  BY <1>3 DEF ClearByNode
<1>4. CASE PruneIdle
  BY <1>4 DEF PruneIdle
<1> QED
  BY <1>1, <1>2, <1>3, <1>4

(* Taking a slot with room and giving one back keep the counters in range. *)
LEMMA SlotTypes ==
  ASSUME TypeOK, NEW c \in Calls, NEW k \in Conns,
         (HasRoom(k) /\ Take(c, k)) \/ (Release(c) /\ UNCHANGED session)
  PROVE  /\ inflight' \in [Conns -> Nat] /\ \A j \in Conns : inflight'[j] <= MaxInflight[j]
         /\ slot' \in [Calls -> Conns \cup {None}]
         /\ session' \in [Calls -> Conns \cup {None}]
<1> USE MaxInflightAssumption DEF TypeOK
<1>1. CASE HasRoom(k) /\ Take(c, k)
  <2>1. inflight[k] + 1 \in Nat /\ inflight[k] + 1 <= MaxInflight[k]
    BY <1>1 DEF HasRoom
  <2> QED
    BY <1>1, <2>1 DEF Take
<1>2. CASE Release(c) /\ UNCHANGED session
  <2> DEFINE left == IF inflight[slot[c]] > 0 THEN inflight[slot[c]] - 1 ELSE 0
  <2>1. slot[c] \in Conns => left \in Nat /\ left <= MaxInflight[slot[c]]
    OBVIOUS
  <2>2. inflight' = [inflight EXCEPT ![slot[c]] = left] /\ slot' = [slot EXCEPT ![c] = None]
    BY <1>2 DEF Release
  <2> HIDE DEF left
  <2> QED
    BY <1>2, <2>1, <2>2
<1> QED
  BY <1>1, <1>2

(* The records of pickSessionForCapability.                                *)
LEMMA PickTypes ==
  ASSUME TypeOK, NEW p \in Picks, NEW k \in Conns, NEW nodes \in SUBSET Nodes
  PROVE  /\ NewPick(nodes) \in Picks
         /\ [p EXCEPT !.todo = nodes] \in Picks
         /\ Consider(p, k) \in Picks
         /\ Tried(p, k) \in Picks
         /\ Untried(p) \subseteq Conns
         /\ [NewPick({}) EXCEPT !.looked = {k}] \in Picks
         /\ [p EXCEPT !.full = {k}] \in Picks
<1> USE MaxInflightAssumption DEF Picks
<1>1. NewPick(nodes) \in Picks /\ NewPick({}) \in Picks
  BY DEF NewPick
<1>2. inflight[k] \in Nat
  BY DEF TypeOK
<1>3. [p EXCEPT !.looked = @ \cup {k}, !.load[k] = inflight[k]] \in Picks
  BY <1>2
<1>4. Consider(p, k) \in Picks
  BY <1>2, <1>3 DEF Consider
<1>5. Tried(p, k) \in Picks
  BY DEF Tried
<1> QED
  BY <1>1, <1>4, <1>5 DEF Untried, NewPick

(* A session that getSession finds is a connection of that worker.         *)
LEMMA ServingFound ==
  ASSUME TypeOK, NEW n \in Nodes
  PROVE  /\ Serving(n) \in Conns \cup {None}
         /\ SessionsMatch /\ Serving(n) # None => NodeOf[Serving(n)] = n
BY DEF Serving, TypeOK, SessionsMatch

(* Types: every step keeps every variable in its range.                    *)
LEMMA TypeStep == IInv /\ [Next]_vars => TypeOK'
<1> SUFFICES ASSUME IInv, [Next]_vars PROVE TypeOK'
  OBVIOUS
<1> USE NoneAssumption, TerminalOfAssumption, NodeOfAssumption, MaxInflightAssumption
    DEF IInv, connVars, routeVars, callVars, CallSteps, Terminal
<1>1. ASSUME NEW c \in Calls, Picking(c) PROVE TypeOK'
  <2> DEFINE calls == /\ pc' \in [Calls -> CallSteps] /\ target' \in [Calls -> Nodes \cup {None}]
                      /\ round' \in [Calls -> 0..2] /\ created' \in [Calls -> BOOLEAN]
  <2>1. CASE Begin(c)
    <3>1. PruneIdle \/ UNCHANGED routeVars
      BY <2>1 DEF Begin
    <3>2. /\ route' \in [Terminals -> Nodes \cup {None}]
          /\ index' \in [Nodes -> SUBSET Terminals]
          /\ idle' \in SUBSET Terminals
      BY <3>1 DEF PruneIdle, TypeOK
    <3> QED
      BY <2>1, <3>2 DEF Begin, Goto, TypeOK
  <2>2. CASE Touch(c)
    <3>1. Terminal(c) \in Terminals
      BY <2>2 DEF Touch, Placed
    <3>2. /\ pc' \in [Calls -> CallSteps]
          /\ target' \in [Calls -> Nodes \cup {None}]
          /\ idle' \in SUBSET Terminals
      BY <2>2, <3>1 DEF Touch, Goto, TypeOK
    <3> QED
      BY <2>2, <3>2 DEF Touch, TypeOK
  <2>3. CASE List(c)
    <3>1. PICK nodes \in SUBSET Nodes : pick' = [pick EXCEPT ![c] = NewPick(nodes)]
      BY <2>3 DEF List
    <3>2. NewPick(nodes) \in Picks
      BY DEF NewPick, Picks
    <3>3. pick' \in [Calls -> Picks]
      BY <3>1, <3>2 DEF TypeOK
    <3> QED
      BY <2>3, <3>3 DEF List, Goto, TypeOK
  <2>4. CASE Look(c)
    <3>1. PICK n \in pick[c].todo :
            /\ pick' = [pick EXCEPT ![c].todo = @ \ {n}]
            /\ IF Serving(n) = None
               THEN UNCHANGED <<pc, session>>
               ELSE /\ Goto(c, "snapshot")
                    /\ session' = [session EXCEPT ![c] = Serving(n)]
      BY <2>4 DEF Look
    <3>2. pick[c] \in Picks /\ pick[c].todo \ {n} \in SUBSET Nodes /\ n \in Nodes
      BY DEF TypeOK, Picks
    <3>3. pick' \in [Calls -> Picks]
      BY <3>1, <3>2 DEF TypeOK, Picks
    <3>4. Serving(n) \in Conns \cup {None}
      BY <3>2, ServingFound
    <3>5. pc' \in [Calls -> CallSteps] /\ session' \in [Calls -> Conns \cup {None}]
      BY <3>1, <3>4 DEF TypeOK, Goto
    <3> QED
      BY <2>4, <3>3, <3>5 DEF Look, TypeOK
  <2>12. CASE Snapshot(c)
    <3>1. session[c] \in Conns /\ pick[c] \in Picks
      BY <2>12 DEF Snapshot, Placed, TypeOK
    <3>2. Consider(pick[c], session[c]) \in Picks
      BY <3>1, PickTypes
    <3>3. pick' \in [Calls -> Picks]
      BY <2>12, <3>2 DEF Snapshot, TypeOK
    <3> QED
      BY <2>12, <3>3 DEF Snapshot, Goto, TypeOK
  <2>5. CASE Acquire(c)
    <3>1. PICK k \in Untried(pick[c]) :
            IF HasRoom(k)
            THEN /\ Take(c, k)
                 /\ Goto(c, IF Terminal(c) = None THEN "send" ELSE "reserve")
                 /\ pick' = [pick EXCEPT ![c] = NewPick({})]
            ELSE /\ pick' = [pick EXCEPT ![c] = Tried(@, k)]
                 /\ UNCHANGED <<inflight, slot, session, pc>>
      BY <2>5 DEF Acquire
    <3>2. pick[c] \in Picks
      BY DEF TypeOK
    <3>3. k \in Conns /\ Tried(pick[c], k) \in Picks /\ NewPick({}) \in Picks
      <4>1. k \in Conns
        BY <3>2 DEF Untried, Picks
      <4> QED
        BY <3>2, <4>1, PickTypes
    <3>4. pick' \in [Calls -> Picks]
      BY <3>1, <3>3 DEF TypeOK
    <3>5. /\ inflight' \in [Conns -> Nat] /\ \A j \in Conns : inflight'[j] <= MaxInflight[j]
          /\ slot' \in [Calls -> Conns \cup {None}]
          /\ session' \in [Calls -> Conns \cup {None}]
      <4>1. CASE HasRoom(k)
        BY <3>1, <3>3, <4>1, SlotTypes
      <4>2. CASE ~HasRoom(k)
        BY <3>1, <4>2 DEF TypeOK
      <4> QED
        BY <4>1, <4>2
    <3>6. pc' \in [Calls -> CallSteps]
      BY <3>1 DEF TypeOK, Goto
    <3> QED
      BY <2>5, <3>4, <3>5, <3>6 DEF Acquire, TypeOK
  <2>6. CASE Refuse(c)
    BY <2>6 DEF Refuse, Goto, TypeOK
  <2>7. CASE Reserve(c)
    <3>1. slot[c] \in Conns /\ Terminal(c) \in Terminals
      BY <2>7 DEF Reserve, Placed
    <3>2. Bind(Terminal(c), NodeOf[slot[c]]) \/ (idle' = idle \ {Terminal(c)} /\ UNCHANGED <<route, index>>)
      BY <2>7 DEF Reserve
    <3>3. /\ route' \in [Terminals -> Nodes \cup {None}]
          /\ index' \in [Nodes -> SUBSET Terminals]
          /\ idle' \in SUBSET Terminals
      BY <3>1, <3>2 DEF Bind, TypeOK
    <3>4. /\ pc' \in [Calls -> CallSteps]
          /\ target' \in [Calls -> Nodes \cup {None}]
      <4>1. CASE route[Terminal(c)] = None
        BY <2>7, <4>1 DEF Reserve, Goto, TypeOK
      <4>2. CASE route[Terminal(c)] # None
        <5>1. route[Terminal(c)] \in Nodes
          BY <3>1, <4>2 DEF TypeOK
        <5> QED
          BY <2>7, <4>2, <5>1 DEF Reserve, Goto, TypeOK
      <4> QED
        BY <4>1, <4>2
    <3>5. round' \in [Calls -> 0..2] /\ created' \in [Calls -> BOOLEAN]
      BY <2>7 DEF Reserve, TypeOK
    <3> QED
      BY <2>7, <3>3, <3>4, <3>5 DEF Reserve, TypeOK
  <2>8. CASE GiveBack(c)
    <3>1. slot[c] \in Conns
      BY <2>8 DEF GiveBack, Placed
    <3>2. /\ inflight' \in [Conns -> Nat] /\ \A j \in Conns : inflight'[j] <= MaxInflight[j]
          /\ slot' \in [Calls -> Conns \cup {None}]
      BY <2>8, <3>1, SlotTypes DEF GiveBack
    <3> QED
      BY <2>8, <3>2 DEF GiveBack, Goto, TypeOK
  <2>9. CASE FindNode(c)
    <3>1. target[c] \in Nodes /\ Terminal(c) \in Terminals
      BY <2>9 DEF FindNode, Placed
    <3>2. Serving(target[c]) \in Conns \cup {None}
      BY <3>1, ServingFound
    <3>3. pick' \in [Calls -> Picks]
      <4>1. CASE Serving(target[c]) = None
        BY <2>9, <4>1 DEF FindNode, TypeOK
      <4>2. CASE Serving(target[c]) # None
        <5>1. [NewPick({}) EXCEPT !.looked = {Serving(target[c])}] \in Picks
          BY <3>2, <4>2 DEF NewPick, Picks
        <5> QED
          BY <2>9, <4>2, <5>1 DEF FindNode, TypeOK
      <4> QED
        BY <4>1, <4>2
    <3> QED
      <4>1. pc' \in [Calls -> CallSteps] /\ session' \in [Calls -> Conns \cup {None}]
        BY <2>9, <3>2 DEF FindNode, Goto, TypeOK
      <4>2. disturbed' \in SUBSET Terminals
        BY <2>9, <3>1 DEF FindNode, TypeOK
      <4> QED
        BY <2>9, <3>3, <4>1, <4>2 DEF FindNode, TypeOK
  <2>10. CASE AcquireNode(c)
    <3>1. session[c] \in Conns
      BY <2>10 DEF AcquireNode, Placed
    <3>2. NewPick({}) \in Picks /\ [pick[c] EXCEPT !.full = {session[c]}] \in Picks
      <4>1. pick[c] \in Picks
        BY DEF TypeOK
      <4> QED
        BY <3>1, <4>1, PickTypes
    <3>3. pick' \in [Calls -> Picks]
      BY <2>10, <3>2 DEF AcquireNode, TypeOK
    <3>4. /\ inflight' \in [Conns -> Nat] /\ \A j \in Conns : inflight'[j] <= MaxInflight[j]
          /\ slot' \in [Calls -> Conns \cup {None}]
          /\ session' \in [Calls -> Conns \cup {None}]
      <4>1. CASE HasRoom(session[c])
        BY <2>10, <3>1, <4>1, SlotTypes DEF AcquireNode
      <4>2. CASE ~HasRoom(session[c])
        BY <2>10, <4>2 DEF AcquireNode, TypeOK
      <4> QED
        BY <4>1, <4>2
    <3> QED
      BY <2>10, <3>3, <3>4 DEF AcquireNode, Goto, TypeOK
  <2>11. CASE ClearStale(c)
    <3>1. target[c] \in Nodes /\ Terminal(c) \in Terminals
      BY <2>11 DEF ClearStale, Placed
    <3>2. /\ route' \in [Terminals -> Nodes \cup {None}]
          /\ index' \in [Nodes -> SUBSET Terminals]
          /\ idle' \in SUBSET Terminals
      BY <2>11, <3>1, TableTypes DEF ClearStale
    <3> QED
      BY <2>11, <3>2 DEF ClearStale, Goto, TypeOK
  <2> QED
    BY <1>1, <2>1, <2>2, <2>3, <2>4, <2>5, <2>6, <2>7, <2>8, <2>9, <2>10, <2>11, <2>12
    DEF Picking
<1>2. ASSUME NEW c \in Calls, Dispatching(c) PROVE TypeOK'
  <2>1. CASE Send(c)
    <3>1. session[c] \in Conns
      BY <2>1 DEF Send, Placed
    <3>2. visited' \in [Terminals -> SUBSET Nodes]
      BY <2>1, <3>1 DEF Send, TypeOK
    <3> QED
      BY <2>1, <3>2 DEF Send, Goto, TypeOK
  <2>2. CASE SendFails(c)
    <3>1. session[c] \in Conns /\ slot[c] \in Conns
      BY <2>2 DEF SendFails, Placed
    <3>2. /\ inflight' \in [Conns -> Nat] /\ \A j \in Conns : inflight'[j] <= MaxInflight[j]
          /\ slot' \in [Calls -> Conns \cup {None}]
      <4>1. CASE Release(c)
        BY <2>2, <3>1, <4>1, SlotTypes DEF SendFails
      <4>2. CASE UNCHANGED <<inflight, slot>>
        BY <4>2 DEF TypeOK
      <4> QED
        BY <2>2, <4>1, <4>2 DEF SendFails
    <3>3. disturbed' \in SUBSET Terminals
      BY <2>2 DEF SendFails, Placed, TypeOK
    <3> QED
      BY <2>2, <3>2, <3>3 DEF SendFails, Goto, TypeOK
  <2>3. CASE Unroute(c)
    <3>1. session[c] \in Conns /\ (created[c] => Terminal(c) \in Terminals)
      BY <2>3 DEF Unroute, Placed
    <3>2. /\ route' \in [Terminals -> Nodes \cup {None}]
          /\ index' \in [Nodes -> SUBSET Terminals]
          /\ idle' \in SUBSET Terminals
      <4>1. CASE created[c]
        BY <2>3, <3>1, <4>1, TableTypes DEF Unroute
      <4>2. CASE ~created[c]
        BY <2>3, <4>2 DEF Unroute, TypeOK
      <4> QED
        BY <4>1, <4>2
    <3> QED
      BY <2>3, <3>2 DEF Unroute, Goto, TypeOK
  <2>4. CASE Resolve(c)
    <3>1. slot[c] \in Conns
      BY <2>4 DEF Resolve, Placed
    <3>2. /\ inflight' \in [Conns -> Nat] /\ \A j \in Conns : inflight'[j] <= MaxInflight[j]
          /\ slot' \in [Calls -> Conns \cup {None}]
      BY <2>4, <3>1, SlotTypes DEF Resolve
    <3>3. outcome' \in [Calls -> {"none", "ok", "not_found", "error", "closed"}]
          /\ disturbed' \in SUBSET Terminals
      BY <2>4 DEF Resolve, TypeOK
    <3> QED
      BY <2>4, <3>2, <3>3 DEF Resolve, Goto, TypeOK
  <2>5. CASE FailPending(c)
    <3>1. slot[c] \in Conns
      BY <2>5 DEF FailPending, Placed
    <3>2. /\ inflight' \in [Conns -> Nat] /\ \A j \in Conns : inflight'[j] <= MaxInflight[j]
          /\ slot' \in [Calls -> Conns \cup {None}]
      BY <2>5, <3>1, SlotTypes DEF FailPending
    <3> QED
      BY <2>5, <3>2 DEF FailPending, Goto, TypeOK
  <2>6. CASE Apply(c)
    <3>1. session[c] \in Conns /\ (Terminal(c) # None => Terminal(c) \in Terminals)
      BY <2>6 DEF Apply, Placed
    <3>2. /\ route' \in [Terminals -> Nodes \cup {None}]
          /\ index' \in [Nodes -> SUBSET Terminals]
          /\ idle' \in SUBSET Terminals
      <4>1. CASE Terminal(c) = None
        BY <2>6, <4>1 DEF Apply, TypeOK
      <4>2. CASE Terminal(c) # None
        BY <2>6, <3>1, <4>2, TableTypes DEF Apply
      <4> QED
        BY <4>1, <4>2
    <3> QED
      BY <2>6, <3>2 DEF Apply, Goto, TypeOK
  <2>7. CASE Expire(c)
    BY <2>7 DEF Expire, Goto, TypeOK
  <2>8. CASE Leave(c)
    <3>1. /\ inflight' \in [Conns -> Nat] /\ \A j \in Conns : inflight'[j] <= MaxInflight[j]
          /\ slot' \in [Calls -> Conns \cup {None}]
      <4>1. CASE slot[c] = None
        BY <2>8, <4>1 DEF Leave, TypeOK
      <4>2. CASE slot[c] # None
        <5>1. slot[c] \in Conns
          BY <4>2 DEF TypeOK
        <5>2. Release(c)
          BY <2>8, <4>2 DEF Leave
        <5> DEFINE left == IF inflight[slot[c]] > 0 THEN inflight[slot[c]] - 1 ELSE 0
        <5>3. left \in Nat /\ left <= MaxInflight[slot[c]]
          BY <5>1 DEF TypeOK
        <5>4. inflight' = [inflight EXCEPT ![slot[c]] = left] /\ slot' = [slot EXCEPT ![c] = None]
          BY <5>2 DEF Release
        <5> HIDE DEF left
        <5> QED
          BY <5>3, <5>4 DEF TypeOK
      <4> QED
        BY <4>1, <4>2
    <3> QED
      <4>1. /\ pc' \in [Calls -> CallSteps] /\ round' \in [Calls -> 0..2]
            /\ created' \in [Calls -> BOOLEAN]
        BY <2>8 DEF Leave, Forget, Goto, TypeOK
      <4>2. /\ session' \in [Calls -> Conns \cup {None}]
            /\ outcome' \in [Calls -> {"none", "ok", "not_found", "error", "closed"}]
        BY <2>8 DEF Leave, Forget, TypeOK
      <4> QED
        BY <2>8, <3>1, <4>1, <4>2 DEF Leave, TypeOK
  <2> QED
    BY <1>2, <2>1, <2>2, <2>3, <2>4, <2>5, <2>6, <2>7, <2>8 DEF Dispatching
<1>3. ASSUME NEW k \in Conns, Connection(k) PROVE TypeOK'
  <2>1. CASE Swap(k)
    BY <2>1 DEF Swap, TypeOK, LinkSteps
  <2>2. CASE ClearRoutes(k)
    <3>1. /\ route' \in [Terminals -> Nodes \cup {None}]
          /\ index' \in [Nodes -> SUBSET Terminals]
          /\ idle' \in SUBSET Terminals
      BY <2>2 DEF ClearRoutes, ClearByNode, TypeOK
    <3> QED
      BY <2>2, <3>1 DEF ClearRoutes, TypeOK, LinkSteps
  <2>3. CASE CloseReplaced(k)
    BY <2>3 DEF CloseReplaced, TypeOK, LinkSteps
  <2>4. CASE Remove(k)
    BY <2>4 DEF Remove, TypeOK, LinkSteps
  <2>5. CASE CloseOwn(k)
    BY <2>5 DEF CloseOwn, TypeOK, LinkSteps
  <2>6. CASE CloseDoomed(k)
    BY <2>6 DEF CloseDoomed, TypeOK
  <2> QED
    BY <1>3, <2>1, <2>2, <2>3, <2>4, <2>5, <2>6 DEF Connection
<1>4. ASSUME NEW n \in Deletable, Disconnect(n) PROVE TypeOK'
  <2>1. n \in Nodes
    BY DeletableAssumption
  <2> QED
    BY <1>4, <2>1 DEF Disconnect, TypeOK
<1>5. ASSUME NEW s \in Terminals, Age(s) PROVE TypeOK'
  BY <1>5 DEF Age, TypeOK
<1>6. CASE UNCHANGED vars
  BY <1>6 DEF vars, TypeOK
<1> QED
  BY <1>1, <1>2, <1>3, <1>4, <1>5, <1>6 DEF Next

(* The connections: no step disturbs where a session is found.             *)
LEMMA SessionsStep == IInv /\ [Next]_vars => SessionsMatch'
<1> SUFFICES ASSUME IInv, [Next]_vars PROVE SessionsMatch'
  OBVIOUS
<1> USE NoneAssumption, NodeOfAssumption DEF IInv, connVars
<1>1. ASSUME NEW k \in Conns, Connection(k) PROVE SessionsMatch'
  <2>1. CASE Swap(k)
    BY <2>1 DEF Swap, TypeOK, SessionsMatch
  <2>2. CASE Remove(k)
    BY <2>2 DEF Remove, TypeOK, SessionsMatch
  <2> QED
    BY <1>1, <2>1, <2>2
    DEF Connection, ClearRoutes, CloseReplaced, CloseOwn, CloseDoomed, SessionsMatch
<1>2. ASSUME NEW n \in Deletable, Disconnect(n) PROVE SessionsMatch'
  BY <1>2 DEF Disconnect, TypeOK, SessionsMatch
<1>3. CASE UNCHANGED sessions
  BY <1>3 DEF SessionsMatch
<1>4. ASSUME NEW c \in Calls, Picking(c) \/ Dispatching(c) PROVE UNCHANGED sessions
  BY <1>4 DEF Picking, Dispatching, Begin, Touch, List, Look, Snapshot, Acquire, Refuse, Reserve,
    GiveBack, FindNode, AcquireNode, ClearStale, Send, SendFails, Unroute, Resolve,
    FailPending, Apply, Expire, Leave
<1>5. ASSUME NEW s \in Terminals, Age(s) PROVE UNCHANGED sessions
  BY <1>5 DEF Age
<1> QED
  BY <1>1, <1>2, <1>3, <1>4, <1>5 DEF Next, vars

(* The variables of a call follow its progress.                            *)
LEMMA PlacedStep == IInv /\ [Next]_vars => Placed'
<1> SUFFICES ASSUME IInv, [Next]_vars PROVE Placed'
  OBVIOUS
<1> USE NoneAssumption, TerminalOfAssumption
    DEF IInv, callVars, Terminal, Placed
<1>1. ASSUME NEW c \in Calls, Picking(c) PROVE Placed'
  <2>1. CASE Begin(c)
    BY <2>1 DEF Begin, Goto, TypeOK
  <2>2. CASE Touch(c)
    BY <2>2 DEF Touch, Goto, TypeOK
  <2>3. CASE List(c)
    BY <2>3 DEF List, Goto, TypeOK
  <2>4. CASE Look(c)
    <3>1. PICK n \in pick[c].todo :
            IF Serving(n) = None THEN UNCHANGED <<pc, session>>
            ELSE Goto(c, "snapshot") /\ session' = [session EXCEPT ![c] = Serving(n)]
      BY <2>4 DEF Look
    <3>2. Serving(n) \in Conns \cup {None}
      <4>1. n \in Nodes
        BY DEF TypeOK, Picks
      <4> QED
        BY <4>1, ServingFound
    <3>3. UNCHANGED <<created, target, slot>> /\ pc[c] = "look"
      BY <2>4 DEF Look
    <3> QED
      BY <3>1, <3>2, <3>3 DEF Goto, TypeOK
  <2>12. CASE Snapshot(c)
    BY <2>12 DEF Snapshot, Goto, TypeOK
  <2>5. CASE Acquire(c)
    <3>1. PICK k \in Untried(pick[c]) :
            IF HasRoom(k)
            THEN /\ Take(c, k)
                 /\ Goto(c, IF Terminal(c) = None THEN "send" ELSE "reserve")
            ELSE UNCHANGED <<inflight, slot, session, pc>>
      BY <2>5 DEF Acquire
    <3>2. k \in Conns
      BY DEF Untried, Picks, TypeOK
    <3>3. UNCHANGED <<created, target>> /\ pc[c] = "look"
      BY <2>5 DEF Acquire
    <3>4. CASE HasRoom(k)
      BY <3>1, <3>2, <3>3, <3>4 DEF Take, Goto, TypeOK
    <3>5. CASE ~HasRoom(k)
      BY <3>1, <3>3, <3>5
    <3> QED
      BY <3>4, <3>5
  <2>6. CASE Refuse(c)
    BY <2>6 DEF Refuse, Goto, TypeOK
  <2>7. CASE Reserve(c)
    BY <2>7 DEF Reserve, Goto, TypeOK
  <2>8. CASE GiveBack(c)
    BY <2>8 DEF GiveBack, Goto, Release, TypeOK
  <2>9. CASE FindNode(c)
    <3>1. Serving(target[c]) \in Conns \cup {None}
      <4>1. target[c] \in Nodes
        BY <2>9 DEF FindNode
      <4> QED
        BY <4>1, ServingFound
    <3> QED
      BY <2>9, <3>1 DEF FindNode, Goto, TypeOK
  <2>10. CASE AcquireNode(c)
    BY <2>10 DEF AcquireNode, Goto, Take, TypeOK
  <2>11. CASE ClearStale(c)
    BY <2>11 DEF ClearStale, Goto, TypeOK
  <2> QED
    BY <1>1, <2>1, <2>2, <2>3, <2>4, <2>5, <2>6, <2>7, <2>8, <2>9, <2>10, <2>11, <2>12
    DEF Picking
<1>2. ASSUME NEW c \in Calls, Dispatching(c) PROVE Placed'
  <2>1. CASE Send(c)
    BY <2>1 DEF Send, Goto, TypeOK
  <2>2. CASE SendFails(c)
    BY <2>2 DEF SendFails, Goto, Release, TypeOK
  <2>3. CASE Unroute(c)
    BY <2>3 DEF Unroute, Goto, TypeOK
  <2>4. CASE Resolve(c)
    BY <2>4 DEF Resolve, Goto, Release, TypeOK
  <2>5. CASE FailPending(c)
    BY <2>5 DEF FailPending, Goto, Release, TypeOK
  <2>6. CASE Apply(c)
    BY <2>6 DEF Apply, Goto, TypeOK
  <2>7. CASE Expire(c)
    BY <2>7 DEF Expire, Goto, TypeOK
  <2>8. CASE Leave(c)
    BY <2>8 DEF Leave, Goto, Release, Forget, TypeOK
  <2> QED
    BY <1>2, <2>1, <2>2, <2>3, <2>4, <2>5, <2>6, <2>7, <2>8 DEF Dispatching
<1>3. CASE UNCHANGED callVars
  BY <1>3
<1>4. ASSUME NEW k \in Conns, Connection(k) PROVE UNCHANGED callVars
  BY <1>4 DEF Connection, Swap, ClearRoutes, CloseReplaced, Remove, CloseOwn, CloseDoomed
<1>5. ASSUME NEW n \in Deletable, Disconnect(n) PROVE UNCHANGED callVars
  BY <1>5 DEF Disconnect
<1>6. ASSUME NEW s \in Terminals, Age(s) PROVE UNCHANGED callVars
  BY <1>6 DEF Age
<1>7. CASE UNCHANGED vars
  BY <1>7 DEF vars
<1> QED
  BY <1>1, <1>2, <1>3, <1>4, <1>5, <1>6, <1>7 DEF Next

-----------------------------------------------------------------------------
(* Every step leaves the slots alone, takes one for a call that had none,  *)
(* or gives one back.                                                      *)
SlotStep ==
  \/ UNCHANGED <<inflight, slot>>
  \/ \E c \in Calls, k \in Conns : slot[c] = None /\ Take(c, k)
  \/ \E c \in Calls : slot[c] \in Conns /\ Release(c)

LEMMA SlotKinds == IInv /\ [Next]_vars => SlotStep
<1> SUFFICES ASSUME IInv, [Next]_vars PROVE SlotStep
  OBVIOUS
<1> USE NoneAssumption DEF IInv, SlotStep
<1>1. ASSUME NEW c \in Calls, Picking(c) PROVE SlotStep
  <2>1. CASE Acquire(c)
    <3>1. PICK k \in Untried(pick[c]) :
            IF HasRoom(k) THEN Take(c, k) ELSE UNCHANGED <<inflight, slot>>
      BY <2>1 DEF Acquire
    <3>2. k \in Conns
      BY DEF Untried, Picks, TypeOK
    <3>3. slot[c] = None
      BY <2>1 DEF Acquire, Placed
    <3> QED
      BY <3>1, <3>2, <3>3
  <2>2. CASE GiveBack(c)
    BY <2>2 DEF GiveBack, Placed
  <2>3. CASE AcquireNode(c)
    BY <2>3 DEF AcquireNode, Placed
  <2> QED
    BY <1>1, <2>1, <2>2, <2>3
    DEF Picking, Begin, Touch, List, Look, Snapshot, Refuse, Reserve, FindNode, ClearStale
<1>2. ASSUME NEW c \in Calls, Dispatching(c) PROVE SlotStep
  <2>1. CASE SendFails(c)
    BY <2>1 DEF SendFails, Placed
  <2>2. CASE Resolve(c)
    BY <2>2 DEF Resolve, Placed
  <2>3. CASE FailPending(c)
    BY <2>3 DEF FailPending, Placed
  <2>4. CASE Leave(c)
    BY <2>4 DEF Leave, TypeOK
  <2> QED
    BY <1>2, <2>1, <2>2, <2>3, <2>4 DEF Dispatching, Send, Unroute, Apply, Expire
<1>3. ASSUME NEW k \in Conns, Connection(k) PROVE SlotStep
  BY <1>3 DEF Connection, Swap, ClearRoutes, CloseReplaced, Remove, CloseOwn,
    CloseDoomed, callVars
<1>4. ASSUME NEW n \in Deletable, Disconnect(n) PROVE SlotStep
  BY <1>4 DEF Disconnect, callVars
<1>5. ASSUME NEW s \in Terminals, Age(s) PROVE SlotStep
  BY <1>5 DEF Age, callVars
<1>6. CASE UNCHANGED vars
  BY <1>6 DEF vars, callVars
<1> QED
  BY <1>1, <1>2, <1>3, <1>4, <1>5, <1>6 DEF Next

(* The counters count the holders.                                         *)
Counted == \A k \in Conns : inflight[k] = Cardinality(Holders(k))

LEMMA HoldersFinite ==
  ASSUME NEW k PROVE IsFiniteSet(Holders(k)) /\ Cardinality(Holders(k)) \in Nat
BY CallsAssumption, FS_Subset, FS_CardinalityType DEF Holders

LEMMA CountedStep == IInv /\ Counted /\ SlotStep => Counted'
<1> SUFFICES ASSUME IInv, Counted, SlotStep, NEW k \in Conns
             PROVE  inflight'[k] = Cardinality(Holders(k)')
  BY DEF Counted
<1> USE NoneAssumption DEF IInv, TypeOK
<1>1. inflight[k] = Cardinality(Holders(k)) /\ inflight[k] \in Nat
  BY MaxInflightAssumption DEF Counted
<1>2. CASE UNCHANGED <<inflight, slot>>
  <2>1. Holders(k)' = Holders(k)
    BY <1>2 DEF Holders
  <2> QED
    BY <1>1, <1>2, <2>1
<1>3. ASSUME NEW c \in Calls, NEW j \in Conns, slot[c] = None, Take(c, j)
      PROVE  inflight'[k] = Cardinality(Holders(k)')
  <2>1. CASE j = k
    <3>1. Holders(k)' = Holders(k) \cup {c} /\ c \notin Holders(k)
      BY <1>3, <2>1 DEF Holders, Take
    <3>2. Cardinality(Holders(k)') = Cardinality(Holders(k)) + 1
      <4>1. IsFiniteSet(Holders(k))
        BY HoldersFinite
      <4>2. Cardinality(Holders(k) \cup {c}) = Cardinality(Holders(k)) + 1
        BY <3>1, <4>1, FS_AddElement
      <4> QED
        BY <3>1, <4>2
    <3> QED
      BY <1>1, <1>3, <2>1, <3>2 DEF Take
  <2>2. CASE j # k
    <3>1. Holders(k)' = Holders(k)
      BY <1>3, <2>2 DEF Holders, Take
    <3> QED
      BY <1>1, <1>3, <2>2, <3>1 DEF Take
  <2> QED
    BY <2>1, <2>2
<1>4. ASSUME NEW c \in Calls, slot[c] \in Conns, Release(c)
      PROVE  inflight'[k] = Cardinality(Holders(k)')
  <2>1. CASE slot[c] = k
    <3>1. Holders(k)' = Holders(k) \ {c} /\ c \in Holders(k)
      BY <1>4, <2>1 DEF Holders, Release
    <3>2. Cardinality(Holders(k)') = Cardinality(Holders(k)) - 1
      <4>1. IsFiniteSet(Holders(k))
        BY HoldersFinite
      <4> HIDE DEF IInv, TypeOK
      <4>2. Cardinality(Holders(k) \ {c}) = Cardinality(Holders(k)) - 1
        BY <3>1, <4>1, FS_RemoveElement
      <4> QED
        BY <3>1, <4>2
    <3>3. Cardinality(Holders(k)) # 0
      BY <3>1, HoldersFinite, FS_EmptySet
    <3> QED
      BY <1>1, <1>4, <2>1, <3>2, <3>3 DEF Release
  <2>2. CASE slot[c] # k
    <3>1. Holders(k)' = Holders(k)
      BY <1>4, <2>2 DEF Holders, Release
    <3> QED
      BY <1>1, <1>4, <2>2, <3>1 DEF Release
  <2> QED
    BY <2>1, <2>2
<1> QED
  BY <1>2, <1>3, <1>4 DEF SlotStep

-----------------------------------------------------------------------------
(* Every step changes the route table and its index by one of the          *)
(* functions that hold terminalRoutesMu, or not at all.                    *)
RouteStep ==
  \/ UNCHANGED <<route, index>>
  \/ \E s \in Terminals, n \in Nodes : Bind(s, n) \/ Clear(s, n)
  \/ \E n \in Nodes : ClearByNode(n)
  \/ PruneIdle

LEMMA RouteKinds == IInv /\ [Next]_vars => RouteStep
<1> SUFFICES ASSUME IInv, [Next]_vars PROVE RouteStep
  OBVIOUS
<1> USE NoneAssumption, NodeOfAssumption, TerminalOfAssumption
    DEF IInv, RouteStep, routeVars
<1>1. ASSUME NEW c \in Calls, Picking(c) PROVE RouteStep
  <2>1. CASE Begin(c)
    BY <2>1 DEF Begin
  <2>2. CASE Reserve(c)
    BY <2>2 DEF Reserve, Placed
  <2>3. CASE ClearStale(c)
    BY <2>3 DEF ClearStale, Placed
  <2> QED
    BY <1>1, <2>1, <2>2, <2>3
    DEF Picking, Touch, List, Look, Snapshot, Acquire, Refuse, GiveBack, FindNode, AcquireNode
<1>2. ASSUME NEW c \in Calls, Dispatching(c) PROVE RouteStep
  <2>1. CASE Unroute(c)
    BY <2>1 DEF Unroute, Placed
  <2>2. CASE Apply(c)
    BY <2>2 DEF Apply, Placed, Terminal
  <2> QED
    BY <1>2, <2>1, <2>2
    DEF Dispatching, Send, SendFails, Resolve, FailPending, Expire, Leave
<1>3. ASSUME NEW k \in Conns, Connection(k) PROVE RouteStep
  BY <1>3 DEF Connection, Swap, ClearRoutes, CloseReplaced, Remove, CloseOwn, CloseDoomed
<1>4. ASSUME NEW n \in Deletable, Disconnect(n) PROVE RouteStep
  BY <1>4 DEF Disconnect
<1>5. ASSUME NEW s \in Terminals, Age(s) PROVE RouteStep
  BY <1>5 DEF Age
<1>6. CASE UNCHANGED vars
  BY <1>6 DEF vars
<1> QED
  BY <1>1, <1>2, <1>3, <1>4, <1>5, <1>6 DEF Next

LEMMA IndexStep == TypeOK /\ IndexAgrees /\ RouteStep => IndexAgrees'
<1> SUFFICES ASSUME TypeOK, IndexAgrees, RouteStep PROVE IndexAgrees'
  OBVIOUS
<1> USE NoneAssumption DEF TypeOK, IndexAgrees
<1>1. CASE UNCHANGED <<route, index>>
  BY <1>1
<1>2. ASSUME NEW s \in Terminals, NEW n \in Nodes, Bind(s, n) PROVE IndexAgrees'
  BY <1>2 DEF Bind
<1>3. ASSUME NEW s \in Terminals, NEW n \in Nodes, Clear(s, n) PROVE IndexAgrees'
  BY <1>3 DEF Clear, routeVars
<1>4. ASSUME NEW n \in Nodes, ClearByNode(n) PROVE IndexAgrees'
  BY <1>4 DEF ClearByNode
<1>5. CASE PruneIdle
  BY <1>5 DEF PruneIdle
<1> QED
  BY <1>1, <1>2, <1>3, <1>4, <1>5 DEF RouteStep

-----------------------------------------------------------------------------
(* A terminal that the step leaves undisturbed is still followed.          *)
LEMMA FollowStep == IInv /\ Follow /\ [Next]_vars => Follow'
<1> SUFFICES ASSUME IInv, Follow, [Next]_vars, NEW s \in Terminals, s \notin disturbed'
             PROVE  Followed(s)'
  BY DEF Follow
<1> USE NoneAssumption, TerminalOfAssumption, NodeOfAssumption
    DEF IInv, Terminal
<1>0. s \notin disturbed => Followed(s)
  BY DEF Follow
<1>1. ASSUME NEW c \in Calls, Picking(c) PROVE Followed(s)'
  <2>1. CASE Begin(c)
    BY <1>0, <2>1 DEF Begin, Goto, PruneIdle, routeVars, TypeOK, Placed, SessionsMatch, Followed
  <2>2. CASE Touch(c)
    BY <1>0, <2>2 DEF Touch, Goto, routeVars, TypeOK, Placed, SessionsMatch, Followed
  <2>3. CASE List(c)
    BY <1>0, <2>3 DEF List, Goto, routeVars, TypeOK, Placed, SessionsMatch, Followed
  <2>4. CASE Look(c)
    BY <1>0, <2>4 DEF Look, Goto, routeVars, TypeOK, Followed
  <2>12. CASE Snapshot(c)
    BY <1>0, <2>12 DEF Snapshot, Goto, routeVars, TypeOK, Followed
  <2>5. CASE Acquire(c)
    <3>1. PICK k \in Untried(pick[c]) :
            IF HasRoom(k)
            THEN /\ Take(c, k)
                 /\ Goto(c, IF Terminal(c) = None THEN "send" ELSE "reserve")
            ELSE UNCHANGED <<inflight, slot, session, pc>>
      BY <2>5 DEF Acquire
    <3>2. UNCHANGED <<route, idle, target, created, outcome, visited, disturbed>> /\ pc[c] = "look"
      BY <2>5 DEF Acquire, routeVars
    <3>3. CASE HasRoom(k)
      BY <1>0, <3>1, <3>2, <3>3 DEF Take, Goto, TypeOK, Followed
    <3>4. CASE ~HasRoom(k)
      BY <1>0, <3>1, <3>2, <3>4 DEF Followed
    <3> QED
      BY <3>3, <3>4
  <2>6. CASE Refuse(c)
    BY <1>0, <2>6 DEF Refuse, Goto, routeVars, TypeOK, Placed, SessionsMatch, Followed
  <2>7. CASE Reserve(c)
    BY <1>0, <2>7 DEF Reserve, Goto, Bind, TypeOK, Placed, SessionsMatch, Followed
  <2>8. CASE GiveBack(c)
    BY <1>0, <2>8 DEF GiveBack, Goto, routeVars, TypeOK, Placed, SessionsMatch, Followed
  <2>9. CASE FindNode(c)
    <3>1. target[c] \in Nodes
      BY <2>9 DEF FindNode, Placed
    <3>2. Serving(target[c]) # None => NodeOf[Serving(target[c])] = target[c]
      BY <3>1, ServingFound
    <3> QED
      BY <1>0, <2>9, <3>2 DEF FindNode, Goto, routeVars, TypeOK, Placed, Followed
  <2>10. CASE AcquireNode(c)
    <3>1. /\ UNCHANGED <<route, idle, created, outcome, visited, disturbed>>
          /\ pc[c] = "acquire"
          /\ \A d \in Calls : d # c => target'[d] = target[d] /\ pc'[d] = pc[d]
      BY <2>10 DEF AcquireNode, Goto, routeVars, TypeOK
    <3>2. UNCHANGED session /\ pc'[c] \in {"send", "no_capacity"}
      BY <2>10 DEF AcquireNode, Goto, Take, TypeOK
    <3> QED
      BY <1>0, <3>1, <3>2 DEF TypeOK, Followed
  <2>11. CASE ClearStale(c)
    BY <1>0, <2>11 DEF ClearStale, Goto, Clear, routeVars, TypeOK, Placed, SessionsMatch, Followed
  <2> QED
    BY <1>1, <2>1, <2>2, <2>3, <2>4, <2>5, <2>6, <2>7, <2>8, <2>9, <2>10, <2>11, <2>12
    DEF Picking
<1>2. ASSUME NEW c \in Calls, Dispatching(c) PROVE Followed(s)'
  <2>1. CASE Send(c)
    BY <1>0, <2>1 DEF Send, Goto, routeVars, TypeOK, Placed, SessionsMatch, Followed
  <2>2. CASE SendFails(c)
    BY <1>0, <2>2 DEF SendFails, Goto, routeVars, TypeOK, Placed, SessionsMatch, Followed
  <2>3. CASE Unroute(c)
    BY <1>0, <2>3 DEF Unroute, Goto, Clear, routeVars, TypeOK, Placed, SessionsMatch, Followed
  <2>4. CASE Resolve(c)
    BY <1>0, <2>4 DEF Resolve, Goto, routeVars, TypeOK, Placed, SessionsMatch, Followed
  <2>5. CASE FailPending(c)
    BY <1>0, <2>5 DEF FailPending, Goto, routeVars, TypeOK, Placed, SessionsMatch, Followed
  <2>6. CASE Apply(c)
    BY <1>0, <2>6 DEF Apply, Goto, Bind, Clear, routeVars, TypeOK, Placed, SessionsMatch, Followed
  <2>7. CASE Expire(c)
    BY <1>0, <2>7 DEF Expire, Goto, routeVars, TypeOK, Placed, SessionsMatch, Followed
  <2>8. CASE Leave(c)
    BY <1>0, <2>8 DEF Leave, Goto, Forget, routeVars, TypeOK, Placed, SessionsMatch, Followed
  <2> QED
    BY <1>2, <2>1, <2>2, <2>3, <2>4, <2>5, <2>6, <2>7, <2>8 DEF Dispatching
<1>3. ASSUME NEW k \in Conns, Connection(k) PROVE Followed(s)'
  <2>1. CASE ClearRoutes(k)
    BY <1>0, <2>1 DEF ClearRoutes, ClearByNode, callVars, TypeOK, Followed
  <2>2. CASE UNCHANGED <<routeVars, callVars, visited, disturbed>>
    BY <1>0, <2>2 DEF routeVars, callVars, Followed
  <2> QED
    BY <1>3, <2>1, <2>2
    DEF Connection, Swap, CloseReplaced, Remove, CloseOwn, CloseDoomed
<1>4. ASSUME NEW n \in Deletable, Disconnect(n) PROVE Followed(s)'
  BY <1>0, <1>4 DEF Disconnect, routeVars, callVars, Followed
<1>5. ASSUME NEW t \in Terminals, Age(t) PROVE Followed(s)'
  BY <1>0, <1>5 DEF Age, callVars, Followed
<1>6. CASE UNCHANGED vars
  BY <1>0, <1>6 DEF vars, routeVars, callVars, Followed
<1> QED
  BY <1>1, <1>2, <1>3, <1>4, <1>5, <1>6 DEF Next

(* A route is traced to a command that was sent, or to the call that made  *)
(* it.                                                                     *)
LEMMA TracedStep ==
  IInv /\ Sent /\ RouteTraced /\ [Next]_vars => Sent' /\ RouteTraced'
<1> SUFFICES ASSUME IInv, Sent, RouteTraced, [Next]_vars PROVE Sent' /\ RouteTraced'
  OBVIOUS
<1> USE NoneAssumption, TerminalOfAssumption, NodeOfAssumption DEF IInv, Terminal
<1> DEFINE made(s) == \E c \in Calls : /\ created[c] /\ TerminalOf[c] = s
                                      /\ pc[c] \in {"send", "unroute"}
                                      /\ NodeOf[session[c]] = route[s]
           moved(c) == \A d \in Calls \ {c} : /\ pc'[d] = pc[d] /\ session'[d] = session[d]
                                             /\ created'[d] = created[d]
           fewer == \A s \in Terminals : route'[s] \in {route[s], None}
           more == \A s \in Terminals : visited[s] \subseteq visited'[s]
<1>1. \A s \in Terminals : route[s] # None => route[s] \in visited[s] \/ made(s)
  BY DEF RouteTraced
<1>2. ASSUME \A s \in Terminals : route'[s] # None => route'[s] \in visited'[s] \/ made(s)'
      PROVE  RouteTraced'
  BY <1>2 DEF RouteTraced
<1>3. ASSUME NEW c \in Calls, moved(c), more,
             pc'[c] \in {"await", "answered"} /\ Terminal(c) # None
               => NodeOf[session'[c]] \in visited'[Terminal(c)]
      PROVE  Sent'
  BY <1>3 DEF Sent
<1>4. ASSUME NEW c \in Calls, moved(c), more, fewer,
             \/ ~(created[c] /\ pc[c] \in {"send", "unroute"})
             \/ /\ created'[c] /\ pc'[c] \in {"send", "unroute"} /\ session'[c] = session[c]
             \/ /\ Terminal(c) \in Terminals
                /\ NodeOf[session[c]] \in visited'[Terminal(c)]
             \/ route'[Terminal(c)] = None
             \/ route'[Terminal(c)] # NodeOf[session[c]]
      PROVE  RouteTraced'
  <2> SUFFICES ASSUME NEW s \in Terminals, route'[s] # None
               PROVE  route'[s] \in visited'[s] \/ made(s)'
    BY <1>2
  <2>1. route'[s] = route[s]
    BY <1>4
  <2>2. CASE route[s] \in visited[s]
    BY <1>4, <2>1, <2>2
  <2>3. ASSUME NEW d \in Calls, created[d], TerminalOf[d] = s, pc[d] \in {"send", "unroute"},
               NodeOf[session[d]] = route[s]
        PROVE  route'[s] \in visited'[s] \/ made(s)'
    BY <1>4, <2>1, <2>3
  <2> QED
    BY <1>1, <2>1, <2>2, <2>3
<1> HIDE DEF made
<1>5. ASSUME NEW c \in Calls, Picking(c) PROVE Sent' /\ RouteTraced'
  <2>1. CASE Reserve(c)
    <3>1. /\ pc[c] = "reserve" /\ Terminal(c) \in Terminals /\ slot[c] = session[c]
          /\ session[c] \in Conns /\ UNCHANGED <<visited, session>> /\ moved(c)
          /\ pc'[c] \in {"send", "giveback"}
      BY <2>1 DEF Reserve, Goto, Placed, TypeOK
    <3>2. Sent'
      BY <1>3, <3>1
    <3>3. CASE route[Terminal(c)] = None
      <4>1. /\ created'[c] /\ pc'[c] = "send" /\ Bind(Terminal(c), NodeOf[session[c]])
        BY <2>1, <3>1, <3>3 DEF Reserve, Goto, TypeOK
      <4>2. ASSUME NEW s \in Terminals, route'[s] # None
            PROVE  route'[s] \in visited'[s] \/ made(s)'
        <5>1. CASE s = Terminal(c)
          <6>1. route'[s] = NodeOf[session'[c]]
            BY <3>1, <4>1, <5>1 DEF Bind, TypeOK
          <6> QED
            BY <4>1, <5>1, <6>1 DEF made
        <5>2. CASE s # Terminal(c)
          <6>1. route'[s] = route[s]
            BY <4>1, <5>2 DEF Bind, TypeOK
          <6>2. made(s) => made(s)'
            BY <3>1, <5>2, <6>1 DEF made
          <6> QED
            BY <1>1, <3>1, <4>2, <6>1, <6>2
        <5> QED
          BY <5>1, <5>2
      <4> QED
        BY <1>2, <3>2, <4>2
    <3>4. CASE route[Terminal(c)] # None
      <4>1. UNCHANGED route
        BY <2>1, <3>4 DEF Reserve
      <4> QED
        BY <1>4, <3>1, <3>2, <4>1
    <3> QED
      BY <3>3, <3>4
  <2>2. CASE ~Reserve(c)
    <3>1. /\ UNCHANGED <<visited, created>> /\ moved(c)
          /\ pc[c] \notin {"send", "unroute"} /\ pc'[c] \notin {"await", "answered"}
      <4>1. CASE Begin(c) \/ Touch(c) \/ List(c) \/ Refuse(c) \/ GiveBack(c) \/ ClearStale(c)
        BY <4>1 DEF Begin, Touch, List, Refuse, GiveBack, ClearStale, Goto, TypeOK
      <4>2. CASE Look(c) \/ Snapshot(c) \/ FindNode(c)
        BY <4>2 DEF Look, Snapshot, FindNode, Goto, TypeOK
      <4>3. CASE Acquire(c) \/ AcquireNode(c)
        BY <4>3 DEF Acquire, AcquireNode, Take, Goto, TypeOK
      <4> QED
        BY <1>5, <2>2, <4>1, <4>2, <4>3 DEF Picking
    <3>2. fewer
      <4>1. CASE Begin(c)
        BY <4>1 DEF Begin, PruneIdle, routeVars
      <4>2. CASE ClearStale(c)
        BY <4>2 DEF ClearStale, Clear, routeVars, TypeOK
      <4>3. CASE UNCHANGED route
        BY <4>3
      <4> QED
        BY <1>5, <2>2, <4>1, <4>2, <4>3 DEF Picking, Touch, List, Look, Snapshot, Acquire,
          Refuse, GiveBack, FindNode, AcquireNode, routeVars
    <3> QED
      BY <1>3, <1>4, <3>1, <3>2
  <2> QED
    BY <2>1, <2>2
<1>6. ASSUME NEW c \in Calls, Dispatching(c) PROVE Sent' /\ RouteTraced'
  <2>1. CASE Send(c)
    <3>1. /\ UNCHANGED <<route, created, session>> /\ moved(c) /\ session[c] \in Conns
          /\ pc'[c] = "await"
      BY <2>1 DEF Send, Goto, Placed, routeVars, TypeOK
    <3>2. more
      BY <2>1 DEF Send
    <3>3. Terminal(c) # None =>
            Terminal(c) \in Terminals /\ NodeOf[session[c]] \in visited'[Terminal(c)]
      BY <2>1 DEF Send
    <3>4. created[c] => Terminal(c) # None
      BY DEF Placed
    <3> QED
      BY <1>3, <1>4, <3>1, <3>2, <3>3, <3>4
  <2>2. CASE SendFails(c)
    <3>1. /\ UNCHANGED <<route, created, session, visited>> /\ moved(c) /\ pc'[c] = "unroute"
      BY <2>2 DEF SendFails, Goto, routeVars, TypeOK
    <3> QED
      BY <1>3, <1>4, <3>1
  <2>3. CASE Unroute(c)
    <3>1. /\ UNCHANGED <<created, session, visited>> /\ moved(c) /\ pc'[c] = "leave"
          /\ session[c] \in Conns /\ (created[c] => Terminal(c) \in Terminals)
      BY <2>3 DEF Unroute, Goto, Placed, TypeOK
    <3>2. fewer /\ (created[c] => \/ route'[Terminal(c)] = None
                                  \/ route'[Terminal(c)] # NodeOf[session[c]])
      BY <2>3, <3>1 DEF Unroute, Clear, routeVars, TypeOK
    <3> QED
      BY <1>3, <1>4, <3>1, <3>2
  <2>4. CASE Resolve(c) \/ FailPending(c)
    <3>1. /\ UNCHANGED <<route, created, session, visited>> /\ moved(c) /\ pc[c] = "await"
      BY <2>4 DEF Resolve, FailPending, Goto, routeVars, TypeOK
    <3>2. Terminal(c) # None => NodeOf[session[c]] \in visited[Terminal(c)]
      BY <3>1 DEF Sent
    <3> QED
      BY <1>3, <1>4, <3>1, <3>2
  <2>5. CASE Apply(c)
    <3>1. /\ UNCHANGED <<created, session, visited>> /\ moved(c) /\ pc[c] = "answered"
          /\ pc'[c] = "leave" /\ session[c] \in Conns
      BY <2>5 DEF Apply, Goto, Placed, TypeOK
    <3>2. Sent'
      BY <1>3, <3>1
    <3>3. CASE Terminal(c) # None /\ outcome[c] = "ok"
      <4>1. Bind(Terminal(c), NodeOf[session[c]]) /\ Terminal(c) \in Terminals
        BY <2>5, <3>3 DEF Apply
      <4>2. NodeOf[session[c]] \in visited[Terminal(c)]
        BY <3>1, <3>3 DEF Sent
      <4>3. ASSUME NEW s \in Terminals, route'[s] # None
            PROVE  route'[s] \in visited'[s] \/ made(s)'
        <5>1. CASE s = Terminal(c)
          BY <3>1, <4>1, <4>2, <5>1 DEF Bind, TypeOK
        <5>2. CASE s # Terminal(c)
          <6>1. route'[s] = route[s]
            BY <4>1, <5>2 DEF Bind, TypeOK
          <6>2. made(s) => made(s)'
            BY <3>1, <6>1 DEF made
          <6> QED
            BY <1>1, <3>1, <4>3, <6>1, <6>2
        <5> QED
          BY <5>1, <5>2
      <4> QED
        BY <1>2, <3>2, <4>3
    <3>4. CASE ~(Terminal(c) # None /\ outcome[c] = "ok")
      <4>1. fewer
        BY <2>5, <3>4 DEF Apply, Clear, routeVars, TypeOK
      <4> QED
        BY <1>4, <3>1, <3>2, <4>1
    <3> QED
      BY <3>3, <3>4
  <2>6. CASE Expire(c) \/ Leave(c)
    <3>1. /\ UNCHANGED <<route, visited>> /\ moved(c) /\ pc'[c] \in {"leave", "done"}
          /\ pc[c] \notin {"send", "unroute"}
      BY <2>6 DEF Expire, Leave, Forget, Goto, routeVars, TypeOK
    <3> QED
      BY <1>3, <1>4, <3>1
  <2> QED
    BY <1>6, <2>1, <2>2, <2>3, <2>4, <2>5, <2>6 DEF Dispatching
<1>7. ASSUME UNCHANGED <<callVars, visited>>, fewer PROVE Sent' /\ RouteTraced'
  <2>1. Sent'
    BY <1>7 DEF callVars, Sent
  <2>2. ASSUME NEW s \in Terminals, route'[s] # None
        PROVE  route'[s] \in visited'[s] \/ made(s)'
    BY <1>1, <1>7, <2>2 DEF callVars, made
  <2> QED
    BY <1>2, <2>1, <2>2
<1>8. ASSUME NEW k \in Conns, Connection(k) PROVE UNCHANGED <<callVars, visited>> /\ fewer
  BY <1>8 DEF Connection, Swap, ClearRoutes, ClearByNode, CloseReplaced, Remove,
    CloseOwn, CloseDoomed, routeVars
<1>9. ASSUME NEW n \in Deletable, Disconnect(n) PROVE UNCHANGED <<callVars, visited>> /\ fewer
  BY <1>9 DEF Disconnect, routeVars
<1>10. ASSUME NEW s \in Terminals, Age(s) PROVE UNCHANGED <<callVars, visited>> /\ fewer
  BY <1>10 DEF Age
<1>11. CASE UNCHANGED vars
  BY <1>7, <1>11 DEF vars, routeVars
<1> QED
  BY <1>5, <1>6, <1>7, <1>8, <1>9, <1>10, <1>11 DEF Next

(* A search accounts for every worker it has looked at until it takes a    *)
(* slot or gives up.                                                       *)
LEMMA ConsiderAccounts ==
  ASSUME TypeOK, NEW p \in Picks, NEW k \in Conns,
         Accounted(p), NodeOf[k] \notin p.todo, k \notin p.looked
  PROVE  Accounted(Consider(p, k)) /\ Consider(p, k).todo = p.todo
<1> DEFINE q == [p EXCEPT !.looked = @ \cup {k}, !.load[k] = inflight[k]]
<1>1. /\ q.looked = p.looked \cup {k} /\ q.todo = p.todo /\ q.full = p.full
      /\ q.preferred = p.preferred /\ q.fallback = p.fallback
      /\ q.load[k] = inflight[k] /\ \A j \in p.looked : q.load[j] = p.load[j]
      /\ q \in [todo : SUBSET Nodes, preferred : SUBSET Conns, fallback : SUBSET Conns,
                load : [Conns -> Nat], looked : SUBSET Conns, full : SUBSET Conns]
  BY DEF Picks, TypeOK
<1>2. /\ inflight[k] \in Nat /\ MaxInflight[k] \in Nat
      /\ \A j \in p.looked : j \in Conns /\ p.load[j] \in Nat /\ MaxInflight[j] \in Nat
  BY MaxInflightAssumption DEF TypeOK, Picks
<1>3. Consider(p, k) =
        IF ~HasRoom(k) THEN [q EXCEPT !.full = @ \cup {k}]
        ELSE IF \A b \in p.preferred : inflight[k] < p.load[b]
             THEN [q EXCEPT !.preferred = {k}]
        ELSE IF \A b \in p.preferred : inflight[k] = p.load[b]
             THEN [q EXCEPT !.preferred = @ \cup {k}]
             ELSE [q EXCEPT !.fallback = @ \cup {k}]
  BY DEF Consider
<1> HIDE DEF q
<1>4. CASE ~HasRoom(k)
  <2> DEFINE r == [q EXCEPT !.full = @ \cup {k}]
  <2>1. /\ r.looked = q.looked /\ r.todo = q.todo /\ r.full = q.full \cup {k}
        /\ r.preferred = q.preferred /\ r.fallback = q.fallback /\ r.load = q.load
    BY <1>1
  <2>2. Consider(p, k) = r
    BY <1>3, <1>4
  <2> HIDE DEF r
  <2> QED
    BY <1>1, <1>2, <2>1, <2>2 DEF Accounted
<1>5. CASE HasRoom(k) /\ \A b \in p.preferred : inflight[k] < p.load[b]
  <2> DEFINE r == [q EXCEPT !.preferred = {k}]
  <2>1. /\ r.looked = q.looked /\ r.todo = q.todo /\ r.full = q.full
        /\ r.preferred = {k} /\ r.fallback = q.fallback /\ r.load = q.load
    BY <1>1
  <2>2. Consider(p, k) = r
    BY <1>3, <1>5
  <2> HIDE DEF r
  <2>3. r.load[k] < MaxInflight[k]
    BY <1>1, <1>5, <2>1 DEF HasRoom
  <2>4. ASSUME NEW j \in p.looked
        PROVE  \/ j \in r.full \cup r.preferred \cup r.fallback
               \/ \E b \in r.full \cup r.preferred :
                    r.load[b] < MaxInflight[b] /\ r.load[b] < r.load[j]
    <3>1. CASE j \in p.full \cup p.fallback
      BY <1>1, <2>1, <3>1
    <3>2. CASE j \in p.preferred
      BY <1>1, <1>5, <2>1, <2>3, <3>2
    <3>3. ASSUME NEW b \in p.full \cup p.preferred,
                 p.load[b] < MaxInflight[b] /\ p.load[b] < p.load[j]
          PROVE  \E d \in r.full \cup r.preferred :
                    r.load[d] < MaxInflight[d] /\ r.load[d] < r.load[j]
      <4>1. b \in p.looked
        BY DEF Accounted
      <4>2. CASE b \in p.full
        BY <1>1, <2>1, <3>3, <4>1, <4>2
      <4>3. CASE b \in p.preferred
        <5>1. inflight[k] < p.load[j]
          BY <1>2, <1>5, <3>3, <4>1, <4>3
        <5> QED
          BY <1>1, <2>1, <2>3, <5>1
      <4> QED
        BY <4>2, <4>3
    <3> QED
      BY <3>1, <3>2, <3>3 DEF Accounted
  <2>5. r.full \subseteq r.looked /\ r.preferred \subseteq r.looked
    BY <1>1, <2>1 DEF Accounted
  <2>6. \A j \in r.looked : NodeOf[j] \notin r.todo
    BY <1>1, <2>1 DEF Accounted
  <2>7. \A j \in r.looked : j = k \/ j \in p.looked
    BY <1>1, <2>1
  <2> QED
    BY <1>1, <2>1, <2>2, <2>3, <2>4, <2>5, <2>6, <2>7 DEF Accounted
<1>6. CASE /\ HasRoom(k) /\ ~\A b \in p.preferred : inflight[k] < p.load[b]
           /\ \A b \in p.preferred : inflight[k] = p.load[b]
  <2> DEFINE r == [q EXCEPT !.preferred = @ \cup {k}]
  <2>1. /\ r.looked = q.looked /\ r.todo = q.todo /\ r.full = q.full
        /\ r.preferred = q.preferred \cup {k} /\ r.fallback = q.fallback /\ r.load = q.load
    BY <1>1
  <2>2. Consider(p, k) = r
    BY <1>3, <1>6
  <2> HIDE DEF r
  <2>3. r.load[k] < MaxInflight[k]
    BY <1>1, <1>6, <2>1 DEF HasRoom
  <2> QED
    BY <1>1, <1>2, <2>1, <2>2, <2>3 DEF Accounted
<1>7. CASE /\ HasRoom(k) /\ ~\A b \in p.preferred : inflight[k] < p.load[b]
           /\ ~\A b \in p.preferred : inflight[k] = p.load[b]
  <2> DEFINE r == [q EXCEPT !.fallback = @ \cup {k}]
  <2>1. /\ r.looked = q.looked /\ r.todo = q.todo /\ r.full = q.full
        /\ r.preferred = q.preferred /\ r.fallback = q.fallback \cup {k} /\ r.load = q.load
    BY <1>1
  <2>2. Consider(p, k) = r
    BY <1>3, <1>7
  <2> HIDE DEF r
  <2> QED
    BY <1>1, <1>2, <2>1, <2>2 DEF Accounted
<1> QED
  BY <1>4, <1>5, <1>6, <1>7

LEMMA KeptStep ==
  IInv /\ Kept /\ RefusalExplained /\ [Next]_vars => Kept' /\ RefusalExplained'
<1> SUFFICES ASSUME IInv, Kept, RefusalExplained, [Next]_vars
             PROVE  Kept' /\ RefusalExplained'
  OBVIOUS
<1> USE NoneAssumption DEF IInv
<1> DEFINE others(c) == \A d \in Calls \ {c} :
             pc'[d] = pc[d] /\ pick'[d] = pick[d] /\ session'[d] = session[d]
           explained(p) == \A k \in p.looked : k \in p.full \/ PassedOver(p, k)
           good(c) == /\ pc'[c] = "acquire" => pick'[c].looked = {session'[c]}
                      /\ pc'[c] \in {"look", "snapshot"} => Accounted(pick'[c])
                      /\ pc'[c] = "snapshot" => NodeOf[session'[c]] \notin pick'[c].todo
                                                /\ session'[c] \notin pick'[c].looked
                      /\ pc'[c] = "no_capacity" => explained(pick'[c])
<1>0. \A p : Accounted(p)' <=> Accounted(p)
  BY DEF Accounted
<1>1. ASSUME NEW c \in Calls, others(c), good(c)
      PROVE  Kept' /\ RefusalExplained'
  <2>1. ASSUME NEW d \in Calls
        PROVE /\ pc'[d] = "acquire" => pick'[d].looked = {session'[d]}
              /\ pc'[d] \in {"look", "snapshot"} => Accounted(pick'[d])
              /\ pc'[d] = "snapshot" => NodeOf[session'[d]] \notin pick'[d].todo
                                        /\ session'[d] \notin pick'[d].looked
              /\ pc'[d] = "no_capacity" => explained(pick'[d])
    <3>1. CASE d = c
      <4> HIDE DEF explained
      <4> QED
        BY <1>1, <3>1
    <3>2. CASE d # c
      <4>1. pc'[d] = pc[d] /\ pick'[d] = pick[d] /\ session'[d] = session[d]
        BY <1>1, <3>2
      <4>2. pc[d] = "no_capacity" => explained(pick[d])
        BY DEF RefusalExplained
      <4> HIDE DEF explained
      <4> QED
        BY <4>1, <4>2 DEF Kept
    <3> QED
      BY <3>1, <3>2
  <2>2. RefusalExplained'
    BY <2>1 DEF RefusalExplained, PassedOver
  <2>3. Kept'
    <3> HIDE DEF explained
    <3> QED
      BY <1>0, <2>1 DEF Kept
  <2> QED
    BY <2>2, <2>3
<1>2. ASSUME NEW c \in Calls, pc'[c] \notin {"look", "snapshot", "acquire", "no_capacity"}
      PROVE  good(c)
  BY <1>2
<1> HIDE DEF good
<1>3. ASSUME NEW c \in Calls, Picking(c) PROVE others(c) /\ good(c)
  <2>1. CASE List(c)
    <3>1. PICK nodes \in SUBSET Nodes : pick' = [pick EXCEPT ![c] = NewPick(nodes)]
      BY <2>1 DEF List
    <3>2. Accounted(NewPick(nodes))
      BY DEF NewPick, Accounted
    <3>3. pc' = [pc EXCEPT ![c] = "look"] /\ UNCHANGED session
      BY <2>1 DEF List, Goto
    <3> HIDE DEF NewPick
    <3>4. pc'[c] = "look" /\ pick'[c] = NewPick(nodes)
      BY <3>1, <3>3 DEF TypeOK
    <3> QED
      BY <3>1, <3>2, <3>3, <3>4 DEF good, TypeOK
  <2>2. CASE Look(c)
    <3> DEFINE p(n) == [pick[c] EXCEPT !.todo = @ \ {n}]
    <3>1. PICK n \in pick[c].todo :
            /\ pick' = [pick EXCEPT ![c] = p(n)]
            /\ IF Serving(n) = None
               THEN UNCHANGED <<pc, session>>
               ELSE /\ Goto(c, "snapshot")
                    /\ session' = [session EXCEPT ![c] = Serving(n)]
      BY <2>2 DEF Look
    <3>2. pc[c] = "look" /\ pick[c] \in Picks /\ n \in Nodes
      BY <2>2 DEF Look, TypeOK, Picks
    <3>3. /\ p(n).todo = pick[c].todo \ {n} /\ p(n).looked = pick[c].looked
          /\ p(n).full = pick[c].full /\ p(n).preferred = pick[c].preferred
          /\ p(n).fallback = pick[c].fallback /\ p(n).load = pick[c].load
      BY <3>2 DEF Picks
    <3> HIDE DEF p
    <3>4. others(c) /\ pick'[c] = p(n)
      BY <3>1 DEF Goto, TypeOK
    <3>5. Accounted(pick[c])
      BY <3>2 DEF Kept
    <3>6. Accounted(p(n))
      BY <3>3, <3>5 DEF Accounted
    <3>7. CASE Serving(n) = None
      BY <3>1, <3>2, <3>4, <3>6, <3>7 DEF good
    <3>8. CASE Serving(n) # None
      <4>1. pc'[c] = "snapshot" /\ session'[c] = Serving(n)
        BY <3>1, <3>8 DEF Goto, TypeOK
      <4>2. NodeOf[Serving(n)] = n
        BY <3>2, <3>8, ServingFound
      <4>3. n \notin p(n).todo /\ Serving(n) \notin p(n).looked
        BY <3>1, <3>3, <3>5, <4>2 DEF Accounted
      <4> QED
        BY <3>4, <3>6, <4>1, <4>2, <4>3 DEF good
    <3> QED
      BY <3>7, <3>8
  <2>3. CASE Snapshot(c)
    <3> DEFINE q == Consider(pick[c], session[c])
    <3>1. pc[c] = "snapshot" /\ session[c] \in Conns /\ pick[c] \in Picks
      BY <2>3 DEF Snapshot, Placed, TypeOK
    <3>2. Accounted(q)
      <4>1. /\ Accounted(pick[c])
            /\ NodeOf[session[c]] \notin pick[c].todo /\ session[c] \notin pick[c].looked
        BY <3>1 DEF Kept
      <4> QED
        BY <3>1, <4>1, ConsiderAccounts
    <3> HIDE DEF q
    <3>3. /\ pick' = [pick EXCEPT ![c] = q] /\ pc' = [pc EXCEPT ![c] = "look"]
          /\ session' = [session EXCEPT ![c] = None]
      BY <2>3 DEF Snapshot, Goto, q
    <3>4. others(c) /\ pick'[c] = q /\ pc'[c] = "look"
      BY <3>3 DEF TypeOK
    <3> QED
      BY <3>2, <3>4 DEF good
  <2>4. CASE Acquire(c)
    <3>1. PICK k \in Untried(pick[c]) :
            IF HasRoom(k)
            THEN /\ Take(c, k)
                 /\ Goto(c, IF Terminal(c) = None THEN "send" ELSE "reserve")
                 /\ pick' = [pick EXCEPT ![c] = NewPick({})]
            ELSE /\ pick' = [pick EXCEPT ![c] = Tried(@, k)]
                 /\ UNCHANGED <<inflight, slot, session, pc>>
      BY <2>4 DEF Acquire
    <3>2. pc[c] = "look" /\ pick[c] \in Picks /\ pick[c].todo = {}
      BY <2>4 DEF Acquire, TypeOK
    <3>3. CASE HasRoom(k)
      <4>1. others(c) /\ pc'[c] \in {"send", "reserve"}
        BY <3>1, <3>3 DEF Take, Goto, TypeOK
      <4> QED
        BY <1>2, <4>1
    <3>4. CASE ~HasRoom(k)
      <4> DEFINE t == Tried(pick[c], k)
      <4>1. /\ t.preferred = pick[c].preferred \ {k} /\ t.fallback = pick[c].fallback \ {k}
            /\ t.full = pick[c].full \cup {k} /\ t.looked = pick[c].looked
            /\ t.load = pick[c].load /\ t.todo = pick[c].todo
        BY <3>2 DEF Tried, Picks
      <4> HIDE DEF t
      <4>2. others(c) /\ pick'[c] = t /\ pc'[c] = "look"
        BY <3>1, <3>2, <3>4 DEF TypeOK, t
      <4>3. Accounted(pick[c])
        BY <3>2 DEF Kept
      <4>4. k \in pick[c].looked
        BY <3>1, <3>2, <4>3 DEF Untried, Accounted, Kept
      <4>5. Accounted(t)
        BY <4>1, <4>3, <4>4 DEF Accounted
      <4> QED
        BY <4>2, <4>5 DEF good
    <3> QED
      BY <3>3, <3>4
  <2>5. CASE Refuse(c)
    <3>1. /\ others(c) /\ pick'[c] = pick[c] /\ pc[c] = "look" /\ Untried(pick[c]) = {}
          /\ pc'[c] \in {"no_worker", "no_capacity"}
      BY <2>5 DEF Refuse, Goto, TypeOK
    <3>2. pick[c].preferred = {} /\ pick[c].fallback = {}
      BY <3>1 DEF Untried
    <3>3. explained(pick[c])
      BY <3>1, <3>2 DEF Kept, Accounted, PassedOver
    <3> HIDE DEF explained
    <3> QED
      BY <3>1, <3>3 DEF good
  <2>6. CASE FindNode(c)
    <3>1. CASE Serving(target[c]) = None
      <4>1. others(c) /\ pc'[c] \in {"stale", "no_worker"}
        BY <2>6, <3>1 DEF FindNode, Goto, TypeOK
      <4> QED
        BY <1>2, <4>1
    <3>2. CASE Serving(target[c]) # None
      <4> DEFINE q == [NewPick({}) EXCEPT !.looked = {Serving(target[c])}]
      <4>1. q.looked = {Serving(target[c])}
        BY DEF NewPick
      <4>2. /\ pick' = [pick EXCEPT ![c] = q] /\ pc' = [pc EXCEPT ![c] = "acquire"]
            /\ session' = [session EXCEPT ![c] = Serving(target[c])]
        BY <2>6, <3>2 DEF FindNode, Goto
      <4> HIDE DEF q
      <4>3. /\ others(c) /\ pick'[c] = q /\ pc'[c] = "acquire"
            /\ session'[c] = Serving(target[c])
        BY <4>2 DEF TypeOK
      <4> QED
        BY <4>1, <4>3 DEF good
    <3> QED
      BY <3>1, <3>2
  <2>7. CASE AcquireNode(c)
    <3>1. pick[c] \in Picks /\ pick[c].looked = {session[c]}
      BY <2>7 DEF AcquireNode, TypeOK, Kept
    <3>2. CASE HasRoom(session[c])
      <4>1. others(c) /\ pc'[c] = "send"
        BY <2>7, <3>2 DEF AcquireNode, Goto, Take, TypeOK
      <4> QED
        BY <1>2, <4>1
    <3>3. CASE ~HasRoom(session[c])
      <4> DEFINE q == [pick[c] EXCEPT !.full = {session[c]}]
      <4>1. q.looked = q.full
        BY <3>1 DEF Picks
      <4>2. others(c) /\ pick'[c] = q /\ pc'[c] = "no_capacity"
        BY <2>7, <3>1, <3>3 DEF AcquireNode, Goto, TypeOK
      <4> HIDE DEF q
      <4> QED
        BY <4>1, <4>2 DEF good
    <3> QED
      BY <3>2, <3>3
  <2>8. CASE Begin(c) \/ Touch(c) \/ Reserve(c) \/ GiveBack(c) \/ ClearStale(c)
    <3>1. others(c) /\ pc'[c] \in {"touch", "list", "node", "send", "giveback"}
      BY <2>8 DEF Begin, Touch, Reserve, GiveBack, ClearStale, Goto, TypeOK
    <3> QED
      BY <1>2, <3>1
  <2> QED
    BY <1>3, <2>1, <2>2, <2>3, <2>4, <2>5, <2>6, <2>7, <2>8 DEF Picking
<1>4. ASSUME NEW c \in Calls, Dispatching(c) PROVE others(c) /\ good(c)
  <2>1. others(c) /\ pc'[c] \notin {"look", "snapshot", "acquire", "no_capacity"}
    BY <1>4 DEF Dispatching, Send, SendFails, Unroute, Resolve, FailPending, Apply,
      Expire, Leave, Forget, Goto, TypeOK
  <2> QED
    BY <1>2, <2>1
<1>5. CASE UNCHANGED callVars
  BY <1>5 DEF callVars, Kept, Accounted, RefusalExplained, PassedOver
<1>6. ASSUME NEW k \in Conns, Connection(k) PROVE UNCHANGED callVars
  BY <1>6 DEF Connection, Swap, ClearRoutes, CloseReplaced, Remove, CloseOwn, CloseDoomed
<1>7. ASSUME NEW n \in Deletable, Disconnect(n) PROVE UNCHANGED callVars
  BY <1>7 DEF Disconnect
<1>8. ASSUME NEW s \in Terminals, Age(s) PROVE UNCHANGED callVars
  BY <1>8 DEF Age
<1> HIDE DEF others, good
<1> QED
  BY <1>1, <1>3, <1>4, <1>5, <1>6, <1>7, <1>8 DEF Next, vars

-----------------------------------------------------------------------------
(* The beginning: some connections are served, nothing else has happened.  *)
LEMMA InitInv ==
  Init => /\ IInv /\ Counted /\ IndexAgrees /\ Follow
          /\ Kept /\ RefusalExplained /\ Sent /\ RouteTraced
<1> SUFFICES ASSUME Init
             PROVE  /\ IInv /\ Counted /\ IndexAgrees /\ Follow
                    /\ Kept /\ RefusalExplained /\ Sent /\ RouteTraced
  OBVIOUS
<1> USE NoneAssumption, ConnectedAssumption, NodeOfAssumption, MaxInflightAssumption DEF Init
<1> DEFINE here(n) == CHOOSE k \in Connected : NodeOf[k] = n
<1>1. \A n \in Nodes : (\E k \in Connected : NodeOf[k] = n) =>
        here(n) \in Connected /\ NodeOf[here(n)] = n
  OBVIOUS
<1>2. sessions \in [Nodes -> Conns \cup {None}] /\ SessionsMatch
  <2>1. \A n \in Nodes : sessions[n] # None =>
          sessions[n] = here(n) /\ \E k \in Connected : NodeOf[k] = n
    OBVIOUS
  <2>2. \A n \in Nodes : sessions[n] \in Conns \cup {None}
    BY <1>1
  <2> QED
    BY <1>1, <2>1, <2>2 DEF SessionsMatch
<1>3. NewPick({}) \in Picks /\ NewPick({}).preferred = {}
  BY DEF NewPick, Picks
<1>4. TypeOK
  BY <1>2, <1>3 DEF TypeOK, CallSteps, LinkSteps
<1>5. Placed
  BY DEF Placed
<1>6. Counted
  <2>1. \A k \in Conns : Holders(k) = {}
    BY DEF Holders
  <2> QED
    BY <2>1, FS_EmptySet DEF Counted
<1>7. IndexAgrees
  BY DEF IndexAgrees
<1>8. Follow
  BY DEF Follow, Followed
<1>9. Kept /\ RefusalExplained /\ Sent /\ RouteTraced
  BY DEF Kept, RefusalExplained, Sent, RouteTraced
<1> QED
  BY <1>2, <1>4, <1>5, <1>6, <1>7, <1>8, <1>9 DEF IInv

LEMMA Invariance ==
  Spec => [](/\ IInv /\ Counted /\ IndexAgrees /\ Follow
             /\ Kept /\ RefusalExplained /\ Sent /\ RouteTraced)
<1> DEFINE I == /\ IInv /\ Counted /\ IndexAgrees /\ Follow
                /\ Kept /\ RefusalExplained /\ Sent /\ RouteTraced
<1>1. Init => I
  BY InitInv
<1>2. I /\ [Next]_vars => I'
  <2>1. IInv /\ [Next]_vars => IInv'
    BY TypeStep, PlacedStep, SessionsStep DEF IInv
  <2>2. IInv /\ Counted /\ [Next]_vars => Counted'
    BY SlotKinds, CountedStep
  <2>3. IInv /\ IndexAgrees /\ [Next]_vars => IndexAgrees'
    BY RouteKinds, IndexStep DEF IInv
  <2> QED
    BY <2>1, <2>2, <2>3, FollowStep, KeptStep, TracedStep
<1> QED
  BY <1>1, <1>2, PTL DEF Spec

(* The types hold in every reachable state: no counter of a session leaves *)
(* the range that tryAcquireCapability and releaseCapability keep it in.   *)
THEOREM TypeCorrect == Spec => []TypeOK
<1>1. IInv => TypeOK
  BY DEF IInv
<1> QED
  BY <1>1, Invariance, PTL

(* The route table and its index always agree, whatever the order in which *)
(* the functions of terminal_session_routes.go run.                        *)
THEOREM IndexAgreesHolds == Spec => []IndexAgrees
BY Invariance, PTL

(* Each counter is the number of calls that hold a slot, and calls that    *)
(* are through hold none: dispatchCommand loses no slot on any path.       *)
THEOREM SlotsHeldHolds == Spec => []SlotsHeld
<1>1. IInv /\ Counted => SlotsHeld
  BY DEF IInv, Placed, Counted, SlotsHeld
<1> QED
  BY <1>1, Invariance, PTL

(* A terminal that nothing has disturbed is served by one worker only, for *)
(* any number of workers, connections and overlapping calls.               *)
THEOREM StickyHolds == Spec => []Sticky
<1>1. IInv /\ Follow => Sticky
  <2> SUFFICES ASSUME IInv, Follow, NEW s \in Terminals \ disturbed,
                      NEW m \in visited[s], NEW n \in visited[s]
               PROVE  m = n
    BY DEF Sticky
  <2>1. visited[s] \subseteq {route[s]}
    BY DEF Follow, Followed
  <2> QED
    BY <2>1
<1> QED
  BY <1>1, Invariance, PTL

(* No route is left behind by a call that could not send, for any number   *)
(* of calls of one terminal that reserve, clear and bind it in between.    *)
THEOREM RouteTracedHolds == Spec => []RouteTraced
BY Invariance, PTL

(* A call that is refused for lack of capacity has accounted for each      *)
(* worker it looked at, whatever number of slots each of them declared:    *)
(* full, or passed over for a less loaded one that filled up meanwhile.    *)
THEOREM RefusalExplainedHolds == Spec => []RefusalExplained
BY Invariance, PTL
=============================================================================

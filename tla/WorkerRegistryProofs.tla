------------------------ MODULE WorkerRegistryProofs ------------------------
(***************************************************************************)
(* Proofs about WorkerRegistry: its invariants for any number of Connect   *)
(* and DeleteProvisionedWorker calls, faults and restarts, and the step    *)
(* simulation of SessionLife.                                              *)
(***************************************************************************)
EXTENDS WorkerRegistry, TLAPS

Early == {"idle", "lookup", "caching", "authorized"}

(* Its Connect call published the session; if the call is over, the session *)
(* was closed, or the process died.                                         *)
Published(c) ==
  /\ conn[c] \notin Early
  /\ conn[c] = "over" => c \in closed \/ ended[c] = "cut"

(* The session in the table belongs to a call that has not left it yet. *)
CurrentServes ==
  current # NoSession =>
    /\ Serves(current) \/ conn[current] = "leaving"
    /\ current \notin closed
    /\ ended[current] # "cut"

(* Sessions about to be closed by somebody else were published and are not *)
(* in the table any more.                                                  *)
ReplacedPublished ==
  \A c \in Conns :
    conn[c] = "swapped" /\ replaced[c] # NoSession =>
      Published(replaced[c]) /\ replaced[c] # current

VictimPublished ==
  \A d \in Deletes :
    delete[d] \in {"clearing", "closing"} /\ victim[d] # NoSession =>
      Published(victim[d]) /\ victim[d] # current

ClosedPublished == \A c \in closed : conn[c] \notin Early

CutIsOver == \A c \in Conns : ended[c] = "cut" => conn[c] = "over"

(* Upsert writes back the provisioned column it read. *)
FoundProvisioned ==
  (\A d \in Deletes : delete[d] = "idle") =>
    \A c \in Conns : conn[c] = "writing" => found[c]

IInv ==
  /\ TypeOK
  /\ CurrentServes
  /\ ReplacedPublished
  /\ VictimPublished
  /\ ClosedPublished
  /\ CutIsOver
  /\ UnmappedIsClosed
  /\ FoundProvisioned
  /\ ProvisionedKept

-----------------------------------------------------------------------------
(* Every action keeps the variables in their types. *)
LEMMA TypeStep ==
  ASSUME TypeOK, [Next]_vars
  PROVE  TypeOK'
<1>1. ASSUME NEW e \in Conns, Hello(e) PROVE TypeOK'
  BY <1>1, ConnsAssumption
    DEF Hello, deleteVars, dbVars, Goto, TypeOK, ConnSteps, DeleteSteps, Reasons
<1>2. ASSUME NEW e \in Conns, Lookup(e) PROVE TypeOK'
  BY <1>2, ConnsAssumption, BoundsAssumption
    DEF Lookup, deleteVars, dbVars, Goto, Return, Fault, TypeOK, ConnSteps, DeleteSteps,
        Reasons
<1>3. ASSUME NEW e \in Conns, Cache(e) PROVE TypeOK'
  BY <1>3, ConnsAssumption
    DEF Cache, deleteVars, dbVars, Goto, TypeOK, ConnSteps, DeleteSteps, Reasons
<1>4. ASSUME NEW e \in Conns, Refuse(e) PROVE TypeOK'
  BY <1>4, ConnsAssumption
    DEF Refuse, deleteVars, dbVars, Return, TypeOK, ConnSteps, DeleteSteps, Reasons
<1>5. ASSUME NEW e \in Conns, Swap(e) PROVE TypeOK'
  BY <1>5, ConnsAssumption
    DEF Swap, deleteVars, dbVars, Goto, TypeOK, ConnSteps, DeleteSteps, Reasons
<1>6. ASSUME NEW e \in Conns, CloseReplaced(e) PROVE TypeOK'
  BY <1>6, ConnsAssumption
    DEF CloseReplaced, deleteVars, dbVars, Goto, CloseSession, TypeOK, ConnSteps,
        DeleteSteps, Reasons
<1>7. ASSUME NEW e \in Conns, UpsertRead(e) PROVE TypeOK'
  <2>1. restarts' \in 0..MaxRestarts /\ faults' \in 0..MaxFaults
    BY <1>7, ConnsAssumption, BoundsAssumption
      DEF UpsertRead, deleteVars, dbVars, Goto, Return, Fault, TypeOK, ConnSteps,
          DeleteSteps, Reasons
  <2>2. cached' \in BOOLEAN /\ stored' \in BOOLEAN /\ fresh' \in BOOLEAN
    BY <1>7, ConnsAssumption, BoundsAssumption
      DEF UpsertRead, deleteVars, dbVars, Goto, Return, Fault, TypeOK, ConnSteps,
          DeleteSteps, Reasons
  <2>3. row' \in {"absent", "runtime", "provisioned"} /\ session' \in Conns \cup {NoSession}
    BY <1>7, ConnsAssumption, BoundsAssumption
      DEF UpsertRead, deleteVars, dbVars, Goto, Return, Fault, TypeOK, ConnSteps,
          DeleteSteps, Reasons
  <2>4. current' \in Conns \cup {NoSession} /\ closed' \in SUBSET Conns
    BY <1>7, ConnsAssumption, BoundsAssumption
      DEF UpsertRead, deleteVars, dbVars, Goto, Return, Fault, TypeOK, ConnSteps,
          DeleteSteps, Reasons
  <2>5. conn' \in [Conns -> ConnSteps] /\ ended' \in [Conns -> Reasons]
    BY <1>7, ConnsAssumption, BoundsAssumption
      DEF UpsertRead, deleteVars, dbVars, Goto, Return, Fault, TypeOK, ConnSteps,
          DeleteSteps, Reasons
  <2>6. replaced' \in [Conns -> Conns \cup {NoSession}] /\ found' \in [Conns -> BOOLEAN]
    BY <1>7, ConnsAssumption, BoundsAssumption
      DEF UpsertRead, deleteVars, dbVars, Goto, Return, Fault, TypeOK, ConnSteps,
          DeleteSteps, Reasons
  <2>7. delete' \in [Deletes -> DeleteSteps] /\ hit' \in [Deletes -> BOOLEAN]
    BY <1>7, ConnsAssumption, BoundsAssumption
      DEF UpsertRead, deleteVars, dbVars, Goto, Return, Fault, TypeOK, ConnSteps,
          DeleteSteps, Reasons
  <2>8. victim' \in [Deletes -> Conns \cup {NoSession}]
    BY <1>7, ConnsAssumption, BoundsAssumption
      DEF UpsertRead, deleteVars, dbVars, Goto, Return, Fault, TypeOK, ConnSteps,
          DeleteSteps, Reasons
  <2>9. QED BY <2>1, <2>2, <2>3, <2>4, <2>5, <2>6, <2>7, <2>8 DEF TypeOK
<1>8. ASSUME NEW e \in Conns, UpsertWrite(e) PROVE TypeOK'
  <2>1. restarts' \in 0..MaxRestarts /\ faults' \in 0..MaxFaults
    BY <1>8, ConnsAssumption, BoundsAssumption
      DEF UpsertWrite, deleteVars, Goto, Return, Fault, TypeOK, ConnSteps, DeleteSteps,
          Reasons
  <2>2. cached' \in BOOLEAN /\ stored' \in BOOLEAN /\ fresh' \in BOOLEAN
    BY <1>8, ConnsAssumption, BoundsAssumption
      DEF UpsertWrite, deleteVars, Goto, Return, Fault, TypeOK, ConnSteps, DeleteSteps,
          Reasons
  <2>3. row' \in {"absent", "runtime", "provisioned"} /\ session' \in Conns \cup {NoSession}
    BY <1>8, ConnsAssumption, BoundsAssumption
      DEF UpsertWrite, deleteVars, Goto, Return, Fault, TypeOK, ConnSteps, DeleteSteps,
          Reasons
  <2>4. current' \in Conns \cup {NoSession} /\ closed' \in SUBSET Conns
    BY <1>8, ConnsAssumption, BoundsAssumption
      DEF UpsertWrite, deleteVars, Goto, Return, Fault, TypeOK, ConnSteps, DeleteSteps,
          Reasons
  <2>5. conn' \in [Conns -> ConnSteps] /\ ended' \in [Conns -> Reasons]
    BY <1>8, ConnsAssumption, BoundsAssumption
      DEF UpsertWrite, deleteVars, Goto, Return, Fault, TypeOK, ConnSteps, DeleteSteps,
          Reasons
  <2>6. replaced' \in [Conns -> Conns \cup {NoSession}] /\ found' \in [Conns -> BOOLEAN]
    BY <1>8, ConnsAssumption, BoundsAssumption
      DEF UpsertWrite, deleteVars, Goto, Return, Fault, TypeOK, ConnSteps, DeleteSteps,
          Reasons
  <2>7. delete' \in [Deletes -> DeleteSteps] /\ hit' \in [Deletes -> BOOLEAN]
    BY <1>8, ConnsAssumption, BoundsAssumption
      DEF UpsertWrite, deleteVars, Goto, Return, Fault, TypeOK, ConnSteps, DeleteSteps,
          Reasons
  <2>8. victim' \in [Deletes -> Conns \cup {NoSession}]
    BY <1>8, ConnsAssumption, BoundsAssumption
      DEF UpsertWrite, deleteVars, Goto, Return, Fault, TypeOK, ConnSteps, DeleteSteps,
          Reasons
  <2>9. QED BY <2>1, <2>2, <2>3, <2>4, <2>5, <2>6, <2>7, <2>8 DEF TypeOK
<1>9. ASSUME NEW e \in Conns, Heartbeat(e) PROVE TypeOK'
  <2>1. restarts' \in 0..MaxRestarts /\ faults' \in 0..MaxFaults
    BY <1>9, ConnsAssumption, BoundsAssumption
      DEF Heartbeat, deleteVars, Goto, Return, Fault, TypeOK, ConnSteps, DeleteSteps,
          Reasons
  <2>2. cached' \in BOOLEAN /\ stored' \in BOOLEAN /\ fresh' \in BOOLEAN
    BY <1>9, ConnsAssumption, BoundsAssumption
      DEF Heartbeat, deleteVars, Goto, Return, Fault, TypeOK, ConnSteps, DeleteSteps,
          Reasons
  <2>3. row' \in {"absent", "runtime", "provisioned"} /\ session' \in Conns \cup {NoSession}
    BY <1>9, ConnsAssumption, BoundsAssumption
      DEF Heartbeat, deleteVars, Goto, Return, Fault, TypeOK, ConnSteps, DeleteSteps,
          Reasons
  <2>4. current' \in Conns \cup {NoSession} /\ closed' \in SUBSET Conns
    BY <1>9, ConnsAssumption, BoundsAssumption
      DEF Heartbeat, deleteVars, Goto, Return, Fault, TypeOK, ConnSteps, DeleteSteps,
          Reasons
  <2>5. conn' \in [Conns -> ConnSteps] /\ ended' \in [Conns -> Reasons]
    BY <1>9, ConnsAssumption, BoundsAssumption
      DEF Heartbeat, deleteVars, Goto, Return, Fault, TypeOK, ConnSteps, DeleteSteps,
          Reasons
  <2>6. replaced' \in [Conns -> Conns \cup {NoSession}] /\ found' \in [Conns -> BOOLEAN]
    BY <1>9, ConnsAssumption, BoundsAssumption
      DEF Heartbeat, deleteVars, Goto, Return, Fault, TypeOK, ConnSteps, DeleteSteps,
          Reasons
  <2>7. delete' \in [Deletes -> DeleteSteps] /\ hit' \in [Deletes -> BOOLEAN]
    BY <1>9, ConnsAssumption, BoundsAssumption
      DEF Heartbeat, deleteVars, Goto, Return, Fault, TypeOK, ConnSteps, DeleteSteps,
          Reasons
  <2>8. victim' \in [Deletes -> Conns \cup {NoSession}]
    BY <1>9, ConnsAssumption, BoundsAssumption
      DEF Heartbeat, deleteVars, Goto, Return, Fault, TypeOK, ConnSteps, DeleteSteps,
          Reasons
  <2>9. QED BY <2>1, <2>2, <2>3, <2>4, <2>5, <2>6, <2>7, <2>8 DEF TypeOK
<1>10. ASSUME NEW e \in Conns, Recheck(e) PROVE TypeOK'
  BY <1>10, ConnsAssumption, BoundsAssumption
    DEF Recheck, deleteVars, dbVars, Goto, Return, Fault, TypeOK, ConnSteps, DeleteSteps,
        Reasons
<1>11. ASSUME NEW e \in Conns, StreamEnds(e) PROVE TypeOK'
  BY <1>11, ConnsAssumption
    DEF StreamEnds, deleteVars, dbVars, Return, TypeOK, ConnSteps, DeleteSteps, Reasons
<1>12. ASSUME NEW e \in Conns, Remove(e) PROVE TypeOK'
  BY <1>12, ConnsAssumption
    DEF Remove, deleteVars, dbVars, Goto, TypeOK, ConnSteps, DeleteSteps, Reasons
<1>13. ASSUME NEW e \in Conns, ClearOwn(e) PROVE TypeOK'
  BY <1>13, ConnsAssumption, BoundsAssumption
    DEF ClearOwn, deleteVars, Goto, Fault, TypeOK, ConnSteps, DeleteSteps, Reasons
<1>14. ASSUME NEW e \in Conns, CloseOwn(e) PROVE TypeOK'
  BY <1>14, ConnsAssumption
    DEF CloseOwn, deleteVars, dbVars, Goto, CloseSession, TypeOK, ConnSteps, DeleteSteps,
        Reasons
<1>15. ASSUME NEW f \in Deletes, DropCached(f) PROVE TypeOK'
  BY <1>15, ConnsAssumption
    DEF DropCached, connVars, dbVars, Proceed, TypeOK, ConnSteps, DeleteSteps, Reasons
<1>16. ASSUME NEW f \in Deletes, DropStored(f) PROVE TypeOK'
  <2>1. restarts' \in 0..MaxRestarts /\ faults' \in 0..MaxFaults
    BY <1>16, ConnsAssumption, BoundsAssumption
      DEF DropStored, connVars, Proceed, Fault, TypeOK, ConnSteps, DeleteSteps, Reasons
  <2>2. cached' \in BOOLEAN /\ stored' \in BOOLEAN /\ fresh' \in BOOLEAN
    BY <1>16, ConnsAssumption, BoundsAssumption
      DEF DropStored, connVars, Proceed, Fault, TypeOK, ConnSteps, DeleteSteps, Reasons
  <2>3. row' \in {"absent", "runtime", "provisioned"} /\ session' \in Conns \cup {NoSession}
    BY <1>16, ConnsAssumption, BoundsAssumption
      DEF DropStored, connVars, Proceed, Fault, TypeOK, ConnSteps, DeleteSteps, Reasons
  <2>4. current' \in Conns \cup {NoSession} /\ closed' \in SUBSET Conns
    BY <1>16, ConnsAssumption, BoundsAssumption
      DEF DropStored, connVars, Proceed, Fault, TypeOK, ConnSteps, DeleteSteps, Reasons
  <2>5. conn' \in [Conns -> ConnSteps] /\ ended' \in [Conns -> Reasons]
    BY <1>16, ConnsAssumption, BoundsAssumption
      DEF DropStored, connVars, Proceed, Fault, TypeOK, ConnSteps, DeleteSteps, Reasons
  <2>6. replaced' \in [Conns -> Conns \cup {NoSession}] /\ found' \in [Conns -> BOOLEAN]
    BY <1>16, ConnsAssumption, BoundsAssumption
      DEF DropStored, connVars, Proceed, Fault, TypeOK, ConnSteps, DeleteSteps, Reasons
  <2>7. delete' \in [Deletes -> DeleteSteps] /\ hit' \in [Deletes -> BOOLEAN]
    BY <1>16, ConnsAssumption, BoundsAssumption
      DEF DropStored, connVars, Proceed, Fault, TypeOK, ConnSteps, DeleteSteps, Reasons
  <2>8. victim' \in [Deletes -> Conns \cup {NoSession}]
    BY <1>16, ConnsAssumption, BoundsAssumption
      DEF DropStored, connVars, Proceed, Fault, TypeOK, ConnSteps, DeleteSteps, Reasons
  <2>9. QED BY <2>1, <2>2, <2>3, <2>4, <2>5, <2>6, <2>7, <2>8 DEF TypeOK
<1>17. ASSUME NEW f \in Deletes, DropRow(f) PROVE TypeOK'
  <2>1. restarts' \in 0..MaxRestarts /\ faults' \in 0..MaxFaults
    BY <1>17, ConnsAssumption, BoundsAssumption
      DEF DropRow, connVars, dbVars, Proceed, Fault, DropNode, TypeOK, ConnSteps,
          DeleteSteps, Reasons
  <2>2. cached' \in BOOLEAN /\ stored' \in BOOLEAN /\ fresh' \in BOOLEAN
    BY <1>17, ConnsAssumption, BoundsAssumption
      DEF DropRow, connVars, dbVars, Proceed, Fault, DropNode, TypeOK, ConnSteps,
          DeleteSteps, Reasons
  <2>3. row' \in {"absent", "runtime", "provisioned"} /\ session' \in Conns \cup {NoSession}
    BY <1>17, ConnsAssumption, BoundsAssumption
      DEF DropRow, connVars, dbVars, Proceed, Fault, DropNode, TypeOK, ConnSteps,
          DeleteSteps, Reasons
  <2>4. current' \in Conns \cup {NoSession} /\ closed' \in SUBSET Conns
    BY <1>17, ConnsAssumption, BoundsAssumption
      DEF DropRow, connVars, dbVars, Proceed, Fault, DropNode, TypeOK, ConnSteps,
          DeleteSteps, Reasons
  <2>5. conn' \in [Conns -> ConnSteps] /\ ended' \in [Conns -> Reasons]
    BY <1>17, ConnsAssumption, BoundsAssumption
      DEF DropRow, connVars, dbVars, Proceed, Fault, DropNode, TypeOK, ConnSteps,
          DeleteSteps, Reasons
  <2>6. replaced' \in [Conns -> Conns \cup {NoSession}] /\ found' \in [Conns -> BOOLEAN]
    BY <1>17, ConnsAssumption, BoundsAssumption
      DEF DropRow, connVars, dbVars, Proceed, Fault, DropNode, TypeOK, ConnSteps,
          DeleteSteps, Reasons
  <2>7. delete' \in [Deletes -> DeleteSteps] /\ hit' \in [Deletes -> BOOLEAN]
    BY <1>17, ConnsAssumption, BoundsAssumption
      DEF DropRow, connVars, dbVars, Proceed, Fault, DropNode, TypeOK, ConnSteps,
          DeleteSteps, Reasons
  <2>8. victim' \in [Deletes -> Conns \cup {NoSession}]
    BY <1>17, ConnsAssumption, BoundsAssumption
      DEF DropRow, connVars, dbVars, Proceed, Fault, DropNode, TypeOK, ConnSteps,
          DeleteSteps, Reasons
  <2>9. QED BY <2>1, <2>2, <2>3, <2>4, <2>5, <2>6, <2>7, <2>8 DEF TypeOK
<1>18. ASSUME NEW f \in Deletes, Unmap(f) PROVE TypeOK'
  BY <1>18, ConnsAssumption
    DEF Unmap, connVars, dbVars, Proceed, TypeOK, ConnSteps, DeleteSteps, Reasons
<1>19. ASSUME NEW f \in Deletes, ClearNode(f) PROVE TypeOK'
  BY <1>19, ConnsAssumption, BoundsAssumption
    DEF ClearNode, connVars, Proceed, Fault, TypeOK, ConnSteps, DeleteSteps, Reasons
<1>20. ASSUME NEW f \in Deletes, CloseVictim(f) PROVE TypeOK'
  BY <1>20, ConnsAssumption
    DEF CloseVictim, connVars, dbVars, Proceed, CloseSession, TypeOK, ConnSteps,
        DeleteSteps, Reasons
<1>21. CASE Age
  BY <1>21, ConnsAssumption
    DEF Age, connVars, deleteVars, TypeOK, ConnSteps, DeleteSteps, Reasons
<1>22. CASE Prune
  BY <1>22, ConnsAssumption
    DEF Prune, connVars, deleteVars, DropNode, TypeOK, ConnSteps, DeleteSteps, Reasons
<1>23. CASE Restart
  <2>1. restarts' \in 0..MaxRestarts /\ faults' \in 0..MaxFaults
    BY <1>23, ConnsAssumption, BoundsAssumption
      DEF Restart, Fault, TypeOK, ConnSteps, DeleteSteps, Reasons
  <2>2. cached' \in BOOLEAN /\ stored' \in BOOLEAN /\ fresh' \in BOOLEAN
    BY <1>23, ConnsAssumption, BoundsAssumption
      DEF Restart, Fault, TypeOK, ConnSteps, DeleteSteps, Reasons
  <2>3. row' \in {"absent", "runtime", "provisioned"} /\ session' \in Conns \cup {NoSession}
    BY <1>23, ConnsAssumption, BoundsAssumption
      DEF Restart, Fault, TypeOK, ConnSteps, DeleteSteps, Reasons
  <2>4. current' \in Conns \cup {NoSession} /\ closed' \in SUBSET Conns
    BY <1>23, ConnsAssumption, BoundsAssumption
      DEF Restart, Fault, TypeOK, ConnSteps, DeleteSteps, Reasons
  <2>5. conn' \in [Conns -> ConnSteps] /\ ended' \in [Conns -> Reasons]
    BY <1>23, ConnsAssumption, BoundsAssumption
      DEF Restart, Fault, TypeOK, ConnSteps, DeleteSteps, Reasons
  <2>6. replaced' \in [Conns -> Conns \cup {NoSession}] /\ found' \in [Conns -> BOOLEAN]
    BY <1>23, ConnsAssumption, BoundsAssumption
      DEF Restart, Fault, TypeOK, ConnSteps, DeleteSteps, Reasons
  <2>7. delete' \in [Deletes -> DeleteSteps] /\ hit' \in [Deletes -> BOOLEAN]
    BY <1>23, ConnsAssumption, BoundsAssumption
      DEF Restart, Fault, TypeOK, ConnSteps, DeleteSteps, Reasons
  <2>8. victim' \in [Deletes -> Conns \cup {NoSession}]
    BY <1>23, ConnsAssumption, BoundsAssumption
      DEF Restart, Fault, TypeOK, ConnSteps, DeleteSteps, Reasons
  <2>9. QED BY <2>1, <2>2, <2>3, <2>4, <2>5, <2>6, <2>7, <2>8 DEF TypeOK
<1>24. CASE UNCHANGED vars
  BY <1>24 DEF vars, connVars, deleteVars, dbVars, TypeOK, ConnSteps, DeleteSteps, Reasons
<1>25. QED BY <1>1, <1>2, <1>3, <1>4, <1>5, <1>6, <1>7, <1>8, <1>9, <1>10,
    <1>11, <1>12, <1>13, <1>14, <1>15, <1>16, <1>17, <1>18, <1>19, <1>20,
    <1>21, <1>22, <1>23, <1>24 DEF Next, Connect, Delete

(* swapSession publishes an open session; only a call that is leaving takes it out itself. *)
LEMMA CurrentServesStep ==
  ASSUME IInv, [Next]_vars
  PROVE  CurrentServes'
<1>1. ASSUME NEW e \in Conns, Hello(e) PROVE CurrentServes'
  BY <1>1, ConnsAssumption
    DEF Hello, deleteVars, dbVars, Goto, IInv, TypeOK, ConnSteps, DeleteSteps, Reasons,
        Serves, Published, CurrentServes, ClosedPublished, CutIsOver, ReplacedPublished,
        VictimPublished, Early
<1>2. ASSUME NEW e \in Conns, Lookup(e) PROVE CurrentServes'
  BY <1>2, ConnsAssumption
    DEF Lookup, deleteVars, dbVars, Goto, Return, Fault, IInv, TypeOK, ConnSteps,
        DeleteSteps, Reasons, Serves, Published, CurrentServes, ClosedPublished, CutIsOver,
        ReplacedPublished, VictimPublished, Early
<1>3. ASSUME NEW e \in Conns, Cache(e) PROVE CurrentServes'
  BY <1>3, ConnsAssumption
    DEF Cache, deleteVars, dbVars, Goto, IInv, TypeOK, ConnSteps, DeleteSteps, Reasons,
        Serves, Published, CurrentServes, ClosedPublished, CutIsOver, ReplacedPublished,
        VictimPublished, Early
<1>4. ASSUME NEW e \in Conns, Refuse(e) PROVE CurrentServes'
  BY <1>4, ConnsAssumption
    DEF Refuse, deleteVars, dbVars, Return, IInv, TypeOK, ConnSteps, DeleteSteps, Reasons,
        Serves, Published, CurrentServes, ClosedPublished, CutIsOver, ReplacedPublished,
        VictimPublished, Early
<1>5. ASSUME NEW e \in Conns, Swap(e) PROVE CurrentServes'
  BY <1>5, ConnsAssumption
    DEF Swap, deleteVars, dbVars, Goto, IInv, TypeOK, ConnSteps, DeleteSteps, Reasons,
        Serves, Published, CurrentServes, ClosedPublished, CutIsOver, ReplacedPublished,
        VictimPublished, Early
<1>6. ASSUME NEW e \in Conns, CloseReplaced(e) PROVE CurrentServes'
  BY <1>6, ConnsAssumption
    DEF CloseReplaced, deleteVars, dbVars, Goto, CloseSession, IInv, TypeOK, ConnSteps,
        DeleteSteps, Reasons, Serves, Published, CurrentServes, ClosedPublished, CutIsOver,
        ReplacedPublished, VictimPublished, Early
<1>7. ASSUME NEW e \in Conns, UpsertRead(e) PROVE CurrentServes'
  BY <1>7, ConnsAssumption
    DEF UpsertRead, deleteVars, dbVars, Goto, Return, Fault, IInv, TypeOK, ConnSteps,
        DeleteSteps, Reasons, Serves, Published, CurrentServes, ClosedPublished, CutIsOver,
        ReplacedPublished, VictimPublished, Early
<1>8. ASSUME NEW e \in Conns, UpsertWrite(e) PROVE CurrentServes'
  BY <1>8, ConnsAssumption
    DEF UpsertWrite, deleteVars, Goto, Return, Fault, IInv, TypeOK, ConnSteps, DeleteSteps,
        Reasons, Serves, Published, CurrentServes, ClosedPublished, CutIsOver,
        ReplacedPublished, VictimPublished, Early
<1>9. ASSUME NEW e \in Conns, Heartbeat(e) PROVE CurrentServes'
  BY <1>9, ConnsAssumption
    DEF Heartbeat, deleteVars, Goto, Return, Fault, IInv, TypeOK, ConnSteps, DeleteSteps,
        Reasons, Serves, Published, CurrentServes, ClosedPublished, CutIsOver,
        ReplacedPublished, VictimPublished, Early
<1>10. ASSUME NEW e \in Conns, Recheck(e) PROVE CurrentServes'
  BY <1>10, ConnsAssumption
    DEF Recheck, deleteVars, dbVars, Goto, Return, Fault, IInv, TypeOK, ConnSteps,
        DeleteSteps, Reasons, Serves, Published, CurrentServes, ClosedPublished, CutIsOver,
        ReplacedPublished, VictimPublished, Early
<1>11. ASSUME NEW e \in Conns, StreamEnds(e) PROVE CurrentServes'
  BY <1>11, ConnsAssumption
    DEF StreamEnds, deleteVars, dbVars, Return, IInv, TypeOK, ConnSteps, DeleteSteps,
        Reasons, Serves, Published, CurrentServes, ClosedPublished, CutIsOver,
        ReplacedPublished, VictimPublished, Early
<1>12. ASSUME NEW e \in Conns, Remove(e) PROVE CurrentServes'
  BY <1>12, ConnsAssumption
    DEF Remove, deleteVars, dbVars, Goto, IInv, TypeOK, ConnSteps, DeleteSteps, Reasons,
        Serves, Published, CurrentServes, ClosedPublished, CutIsOver, ReplacedPublished,
        VictimPublished, Early
<1>13. ASSUME NEW e \in Conns, ClearOwn(e) PROVE CurrentServes'
  BY <1>13, ConnsAssumption
    DEF ClearOwn, deleteVars, Goto, Fault, IInv, TypeOK, ConnSteps, DeleteSteps, Reasons,
        Serves, Published, CurrentServes, ClosedPublished, CutIsOver, ReplacedPublished,
        VictimPublished, Early
<1>14. ASSUME NEW e \in Conns, CloseOwn(e) PROVE CurrentServes'
  BY <1>14, ConnsAssumption
    DEF CloseOwn, deleteVars, dbVars, Goto, CloseSession, IInv, TypeOK, ConnSteps,
        DeleteSteps, Reasons, Serves, Published, CurrentServes, ClosedPublished, CutIsOver,
        ReplacedPublished, VictimPublished, Early
<1>15. ASSUME NEW f \in Deletes, DropCached(f) PROVE CurrentServes'
  BY <1>15, ConnsAssumption
    DEF DropCached, connVars, dbVars, Proceed, IInv, TypeOK, ConnSteps, DeleteSteps,
        Reasons, Serves, Published, CurrentServes, ClosedPublished, CutIsOver,
        ReplacedPublished, VictimPublished, Early
<1>16. ASSUME NEW f \in Deletes, DropStored(f) PROVE CurrentServes'
  BY <1>16, ConnsAssumption
    DEF DropStored, connVars, Proceed, Fault, IInv, TypeOK, ConnSteps, DeleteSteps,
        Reasons, Serves, Published, CurrentServes, ClosedPublished, CutIsOver,
        ReplacedPublished, VictimPublished, Early
<1>17. ASSUME NEW f \in Deletes, DropRow(f) PROVE CurrentServes'
  BY <1>17, ConnsAssumption
    DEF DropRow, connVars, dbVars, Proceed, Fault, DropNode, IInv, TypeOK, ConnSteps,
        DeleteSteps, Reasons, Serves, Published, CurrentServes, ClosedPublished, CutIsOver,
        ReplacedPublished, VictimPublished, Early
<1>18. ASSUME NEW f \in Deletes, Unmap(f) PROVE CurrentServes'
  BY <1>18, ConnsAssumption
    DEF Unmap, connVars, dbVars, Proceed, IInv, TypeOK, ConnSteps, DeleteSteps, Reasons,
        Serves, Published, CurrentServes, ClosedPublished, CutIsOver, ReplacedPublished,
        VictimPublished, Early
<1>19. ASSUME NEW f \in Deletes, ClearNode(f) PROVE CurrentServes'
  BY <1>19, ConnsAssumption
    DEF ClearNode, connVars, Proceed, Fault, IInv, TypeOK, ConnSteps, DeleteSteps, Reasons,
        Serves, Published, CurrentServes, ClosedPublished, CutIsOver, ReplacedPublished,
        VictimPublished, Early
<1>20. ASSUME NEW f \in Deletes, CloseVictim(f) PROVE CurrentServes'
  BY <1>20, ConnsAssumption
    DEF CloseVictim, connVars, dbVars, Proceed, CloseSession, IInv, TypeOK, ConnSteps,
        DeleteSteps, Reasons, Serves, Published, CurrentServes, ClosedPublished, CutIsOver,
        ReplacedPublished, VictimPublished, Early
<1>21. CASE Age
  BY <1>21, ConnsAssumption
    DEF Age, connVars, deleteVars, IInv, TypeOK, ConnSteps, DeleteSteps, Reasons, Serves,
        Published, CurrentServes, ClosedPublished, CutIsOver, ReplacedPublished,
        VictimPublished, Early
<1>22. CASE Prune
  BY <1>22, ConnsAssumption
    DEF Prune, connVars, deleteVars, DropNode, IInv, TypeOK, ConnSteps, DeleteSteps,
        Reasons, Serves, Published, CurrentServes, ClosedPublished, CutIsOver,
        ReplacedPublished, VictimPublished, Early
<1>23. CASE Restart
  BY <1>23, ConnsAssumption
    DEF Restart, Fault, IInv, TypeOK, ConnSteps, DeleteSteps, Reasons, Serves, Published,
        CurrentServes, ClosedPublished, CutIsOver, ReplacedPublished, VictimPublished,
        Early
<1>24. CASE UNCHANGED vars
  BY <1>24
    DEF vars, connVars, deleteVars, dbVars, IInv, TypeOK, ConnSteps, DeleteSteps, Reasons,
        Serves, Published, CurrentServes, ClosedPublished, CutIsOver, ReplacedPublished,
        VictimPublished, Early
<1>25. QED BY <1>1, <1>2, <1>3, <1>4, <1>5, <1>6, <1>7, <1>8, <1>9, <1>10,
    <1>11, <1>12, <1>13, <1>14, <1>15, <1>16, <1>17, <1>18, <1>19, <1>20,
    <1>21, <1>22, <1>23, <1>24 DEF Next, Connect, Delete

(* A session that was swapped out never comes back. *)
LEMMA ReplacedStep ==
  ASSUME IInv, [Next]_vars
  PROVE  ReplacedPublished'
<1>1. ASSUME NEW e \in Conns, Hello(e) PROVE ReplacedPublished'
  BY <1>1, ConnsAssumption
    DEF Hello, deleteVars, dbVars, Goto, IInv, TypeOK, ConnSteps, DeleteSteps, Reasons,
        Serves, Published, CurrentServes, ReplacedPublished, CutIsOver, Early
<1>2. ASSUME NEW e \in Conns, Lookup(e) PROVE ReplacedPublished'
  BY <1>2, ConnsAssumption
    DEF Lookup, deleteVars, dbVars, Goto, Return, Fault, IInv, TypeOK, ConnSteps,
        DeleteSteps, Reasons, Serves, Published, CurrentServes, ReplacedPublished,
        CutIsOver, Early
<1>3. ASSUME NEW e \in Conns, Cache(e) PROVE ReplacedPublished'
  BY <1>3, ConnsAssumption
    DEF Cache, deleteVars, dbVars, Goto, IInv, TypeOK, ConnSteps, DeleteSteps, Reasons,
        Serves, Published, CurrentServes, ReplacedPublished, CutIsOver, Early
<1>4. ASSUME NEW e \in Conns, Refuse(e) PROVE ReplacedPublished'
  BY <1>4, ConnsAssumption
    DEF Refuse, deleteVars, dbVars, Return, IInv, TypeOK, ConnSteps, DeleteSteps, Reasons,
        Serves, Published, CurrentServes, ReplacedPublished, CutIsOver, Early
<1>5. ASSUME NEW e \in Conns, Swap(e) PROVE ReplacedPublished'
  BY <1>5, ConnsAssumption
    DEF Swap, deleteVars, dbVars, Goto, IInv, TypeOK, ConnSteps, DeleteSteps, Reasons,
        Serves, Published, CurrentServes, ReplacedPublished, CutIsOver, Early
<1>6. ASSUME NEW e \in Conns, CloseReplaced(e) PROVE ReplacedPublished'
  BY <1>6, ConnsAssumption
    DEF CloseReplaced, deleteVars, dbVars, Goto, CloseSession, IInv, TypeOK, ConnSteps,
        DeleteSteps, Reasons, Serves, Published, CurrentServes, ReplacedPublished,
        CutIsOver, Early
<1>7. ASSUME NEW e \in Conns, UpsertRead(e) PROVE ReplacedPublished'
  BY <1>7, ConnsAssumption
    DEF UpsertRead, deleteVars, dbVars, Goto, Return, Fault, IInv, TypeOK, ConnSteps,
        DeleteSteps, Reasons, Serves, Published, CurrentServes, ReplacedPublished,
        CutIsOver, Early
<1>8. ASSUME NEW e \in Conns, UpsertWrite(e) PROVE ReplacedPublished'
  BY <1>8, ConnsAssumption
    DEF UpsertWrite, deleteVars, Goto, Return, Fault, IInv, TypeOK, ConnSteps, DeleteSteps,
        Reasons, Serves, Published, CurrentServes, ReplacedPublished, CutIsOver, Early
<1>9. ASSUME NEW e \in Conns, Heartbeat(e) PROVE ReplacedPublished'
  BY <1>9, ConnsAssumption
    DEF Heartbeat, deleteVars, Goto, Return, Fault, IInv, TypeOK, ConnSteps, DeleteSteps,
        Reasons, Serves, Published, CurrentServes, ReplacedPublished, CutIsOver, Early
<1>10. ASSUME NEW e \in Conns, Recheck(e) PROVE ReplacedPublished'
  BY <1>10, ConnsAssumption
    DEF Recheck, deleteVars, dbVars, Goto, Return, Fault, IInv, TypeOK, ConnSteps,
        DeleteSteps, Reasons, Serves, Published, CurrentServes, ReplacedPublished,
        CutIsOver, Early
<1>11. ASSUME NEW e \in Conns, StreamEnds(e) PROVE ReplacedPublished'
  BY <1>11, ConnsAssumption
    DEF StreamEnds, deleteVars, dbVars, Return, IInv, TypeOK, ConnSteps, DeleteSteps,
        Reasons, Serves, Published, CurrentServes, ReplacedPublished, CutIsOver, Early
<1>12. ASSUME NEW e \in Conns, Remove(e) PROVE ReplacedPublished'
  BY <1>12, ConnsAssumption
    DEF Remove, deleteVars, dbVars, Goto, IInv, TypeOK, ConnSteps, DeleteSteps, Reasons,
        Serves, Published, CurrentServes, ReplacedPublished, CutIsOver, Early
<1>13. ASSUME NEW e \in Conns, ClearOwn(e) PROVE ReplacedPublished'
  BY <1>13, ConnsAssumption
    DEF ClearOwn, deleteVars, Goto, Fault, IInv, TypeOK, ConnSteps, DeleteSteps, Reasons,
        Serves, Published, CurrentServes, ReplacedPublished, CutIsOver, Early
<1>14. ASSUME NEW e \in Conns, CloseOwn(e) PROVE ReplacedPublished'
  BY <1>14, ConnsAssumption
    DEF CloseOwn, deleteVars, dbVars, Goto, CloseSession, IInv, TypeOK, ConnSteps,
        DeleteSteps, Reasons, Serves, Published, CurrentServes, ReplacedPublished,
        CutIsOver, Early
<1>15. ASSUME NEW f \in Deletes, DropCached(f) PROVE ReplacedPublished'
  BY <1>15, ConnsAssumption
    DEF DropCached, connVars, dbVars, Proceed, IInv, TypeOK, ConnSteps, DeleteSteps,
        Reasons, Serves, Published, CurrentServes, ReplacedPublished, CutIsOver, Early
<1>16. ASSUME NEW f \in Deletes, DropStored(f) PROVE ReplacedPublished'
  BY <1>16, ConnsAssumption
    DEF DropStored, connVars, Proceed, Fault, IInv, TypeOK, ConnSteps, DeleteSteps,
        Reasons, Serves, Published, CurrentServes, ReplacedPublished, CutIsOver, Early
<1>17. ASSUME NEW f \in Deletes, DropRow(f) PROVE ReplacedPublished'
  BY <1>17, ConnsAssumption
    DEF DropRow, connVars, dbVars, Proceed, Fault, DropNode, IInv, TypeOK, ConnSteps,
        DeleteSteps, Reasons, Serves, Published, CurrentServes, ReplacedPublished,
        CutIsOver, Early
<1>18. ASSUME NEW f \in Deletes, Unmap(f) PROVE ReplacedPublished'
  BY <1>18, ConnsAssumption
    DEF Unmap, connVars, dbVars, Proceed, IInv, TypeOK, ConnSteps, DeleteSteps, Reasons,
        Serves, Published, CurrentServes, ReplacedPublished, CutIsOver, Early
<1>19. ASSUME NEW f \in Deletes, ClearNode(f) PROVE ReplacedPublished'
  BY <1>19, ConnsAssumption
    DEF ClearNode, connVars, Proceed, Fault, IInv, TypeOK, ConnSteps, DeleteSteps, Reasons,
        Serves, Published, CurrentServes, ReplacedPublished, CutIsOver, Early
<1>20. ASSUME NEW f \in Deletes, CloseVictim(f) PROVE ReplacedPublished'
  BY <1>20, ConnsAssumption
    DEF CloseVictim, connVars, dbVars, Proceed, CloseSession, IInv, TypeOK, ConnSteps,
        DeleteSteps, Reasons, Serves, Published, CurrentServes, ReplacedPublished,
        CutIsOver, Early
<1>21. CASE Age
  BY <1>21, ConnsAssumption
    DEF Age, connVars, deleteVars, IInv, TypeOK, ConnSteps, DeleteSteps, Reasons, Serves,
        Published, CurrentServes, ReplacedPublished, CutIsOver, Early
<1>22. CASE Prune
  BY <1>22, ConnsAssumption
    DEF Prune, connVars, deleteVars, DropNode, IInv, TypeOK, ConnSteps, DeleteSteps,
        Reasons, Serves, Published, CurrentServes, ReplacedPublished, CutIsOver, Early
<1>23. CASE Restart
  BY <1>23, ConnsAssumption
    DEF Restart, Fault, IInv, TypeOK, ConnSteps, DeleteSteps, Reasons, Serves, Published,
        CurrentServes, ReplacedPublished, CutIsOver, Early
<1>24. CASE UNCHANGED vars
  BY <1>24
    DEF vars, connVars, deleteVars, dbVars, IInv, TypeOK, ConnSteps, DeleteSteps, Reasons,
        Serves, Published, CurrentServes, ReplacedPublished, CutIsOver, Early
<1>25. QED BY <1>1, <1>2, <1>3, <1>4, <1>5, <1>6, <1>7, <1>8, <1>9, <1>10,
    <1>11, <1>12, <1>13, <1>14, <1>15, <1>16, <1>17, <1>18, <1>19, <1>20,
    <1>21, <1>22, <1>23, <1>24 DEF Next, Connect, Delete

(* Nor does one that disconnectWorker took out. *)
LEMMA VictimStep ==
  ASSUME IInv, [Next]_vars
  PROVE  VictimPublished'
<1>1. ASSUME NEW e \in Conns, Hello(e) PROVE VictimPublished'
  BY <1>1, ConnsAssumption
    DEF Hello, deleteVars, dbVars, Goto, IInv, TypeOK, ConnSteps, DeleteSteps, Reasons,
        Serves, Published, CurrentServes, VictimPublished, CutIsOver, Early
<1>2. ASSUME NEW e \in Conns, Lookup(e) PROVE VictimPublished'
  BY <1>2, ConnsAssumption
    DEF Lookup, deleteVars, dbVars, Goto, Return, Fault, IInv, TypeOK, ConnSteps,
        DeleteSteps, Reasons, Serves, Published, CurrentServes, VictimPublished, CutIsOver,
        Early
<1>3. ASSUME NEW e \in Conns, Cache(e) PROVE VictimPublished'
  BY <1>3, ConnsAssumption
    DEF Cache, deleteVars, dbVars, Goto, IInv, TypeOK, ConnSteps, DeleteSteps, Reasons,
        Serves, Published, CurrentServes, VictimPublished, CutIsOver, Early
<1>4. ASSUME NEW e \in Conns, Refuse(e) PROVE VictimPublished'
  BY <1>4, ConnsAssumption
    DEF Refuse, deleteVars, dbVars, Return, IInv, TypeOK, ConnSteps, DeleteSteps, Reasons,
        Serves, Published, CurrentServes, VictimPublished, CutIsOver, Early
<1>5. ASSUME NEW e \in Conns, Swap(e) PROVE VictimPublished'
  BY <1>5, ConnsAssumption
    DEF Swap, deleteVars, dbVars, Goto, IInv, TypeOK, ConnSteps, DeleteSteps, Reasons,
        Serves, Published, CurrentServes, VictimPublished, CutIsOver, Early
<1>6. ASSUME NEW e \in Conns, CloseReplaced(e) PROVE VictimPublished'
  BY <1>6, ConnsAssumption
    DEF CloseReplaced, deleteVars, dbVars, Goto, CloseSession, IInv, TypeOK, ConnSteps,
        DeleteSteps, Reasons, Serves, Published, CurrentServes, VictimPublished, CutIsOver,
        Early
<1>7. ASSUME NEW e \in Conns, UpsertRead(e) PROVE VictimPublished'
  BY <1>7, ConnsAssumption
    DEF UpsertRead, deleteVars, dbVars, Goto, Return, Fault, IInv, TypeOK, ConnSteps,
        DeleteSteps, Reasons, Serves, Published, CurrentServes, VictimPublished, CutIsOver,
        Early
<1>8. ASSUME NEW e \in Conns, UpsertWrite(e) PROVE VictimPublished'
  BY <1>8, ConnsAssumption
    DEF UpsertWrite, deleteVars, Goto, Return, Fault, IInv, TypeOK, ConnSteps, DeleteSteps,
        Reasons, Serves, Published, CurrentServes, VictimPublished, CutIsOver, Early
<1>9. ASSUME NEW e \in Conns, Heartbeat(e) PROVE VictimPublished'
  BY <1>9, ConnsAssumption
    DEF Heartbeat, deleteVars, Goto, Return, Fault, IInv, TypeOK, ConnSteps, DeleteSteps,
        Reasons, Serves, Published, CurrentServes, VictimPublished, CutIsOver, Early
<1>10. ASSUME NEW e \in Conns, Recheck(e) PROVE VictimPublished'
  BY <1>10, ConnsAssumption
    DEF Recheck, deleteVars, dbVars, Goto, Return, Fault, IInv, TypeOK, ConnSteps,
        DeleteSteps, Reasons, Serves, Published, CurrentServes, VictimPublished, CutIsOver,
        Early
<1>11. ASSUME NEW e \in Conns, StreamEnds(e) PROVE VictimPublished'
  BY <1>11, ConnsAssumption
    DEF StreamEnds, deleteVars, dbVars, Return, IInv, TypeOK, ConnSteps, DeleteSteps,
        Reasons, Serves, Published, CurrentServes, VictimPublished, CutIsOver, Early
<1>12. ASSUME NEW e \in Conns, Remove(e) PROVE VictimPublished'
  BY <1>12, ConnsAssumption
    DEF Remove, deleteVars, dbVars, Goto, IInv, TypeOK, ConnSteps, DeleteSteps, Reasons,
        Serves, Published, CurrentServes, VictimPublished, CutIsOver, Early
<1>13. ASSUME NEW e \in Conns, ClearOwn(e) PROVE VictimPublished'
  BY <1>13, ConnsAssumption
    DEF ClearOwn, deleteVars, Goto, Fault, IInv, TypeOK, ConnSteps, DeleteSteps, Reasons,
        Serves, Published, CurrentServes, VictimPublished, CutIsOver, Early
<1>14. ASSUME NEW e \in Conns, CloseOwn(e) PROVE VictimPublished'
  BY <1>14, ConnsAssumption
    DEF CloseOwn, deleteVars, dbVars, Goto, CloseSession, IInv, TypeOK, ConnSteps,
        DeleteSteps, Reasons, Serves, Published, CurrentServes, VictimPublished, CutIsOver,
        Early
<1>15. ASSUME NEW f \in Deletes, DropCached(f) PROVE VictimPublished'
  BY <1>15, ConnsAssumption
    DEF DropCached, connVars, dbVars, Proceed, IInv, TypeOK, ConnSteps, DeleteSteps,
        Reasons, Serves, Published, CurrentServes, VictimPublished, CutIsOver, Early
<1>16. ASSUME NEW f \in Deletes, DropStored(f) PROVE VictimPublished'
  BY <1>16, ConnsAssumption
    DEF DropStored, connVars, Proceed, Fault, IInv, TypeOK, ConnSteps, DeleteSteps,
        Reasons, Serves, Published, CurrentServes, VictimPublished, CutIsOver, Early
<1>17. ASSUME NEW f \in Deletes, DropRow(f) PROVE VictimPublished'
  BY <1>17, ConnsAssumption
    DEF DropRow, connVars, dbVars, Proceed, Fault, DropNode, IInv, TypeOK, ConnSteps,
        DeleteSteps, Reasons, Serves, Published, CurrentServes, VictimPublished, CutIsOver,
        Early
<1>18. ASSUME NEW f \in Deletes, Unmap(f) PROVE VictimPublished'
  BY <1>18, ConnsAssumption
    DEF Unmap, connVars, dbVars, Proceed, IInv, TypeOK, ConnSteps, DeleteSteps, Reasons,
        Serves, Published, CurrentServes, VictimPublished, CutIsOver, Early
<1>19. ASSUME NEW f \in Deletes, ClearNode(f) PROVE VictimPublished'
  BY <1>19, ConnsAssumption
    DEF ClearNode, connVars, Proceed, Fault, IInv, TypeOK, ConnSteps, DeleteSteps, Reasons,
        Serves, Published, CurrentServes, VictimPublished, CutIsOver, Early
<1>20. ASSUME NEW f \in Deletes, CloseVictim(f) PROVE VictimPublished'
  BY <1>20, ConnsAssumption
    DEF CloseVictim, connVars, dbVars, Proceed, CloseSession, IInv, TypeOK, ConnSteps,
        DeleteSteps, Reasons, Serves, Published, CurrentServes, VictimPublished, CutIsOver,
        Early
<1>21. CASE Age
  BY <1>21, ConnsAssumption
    DEF Age, connVars, deleteVars, IInv, TypeOK, ConnSteps, DeleteSteps, Reasons, Serves,
        Published, CurrentServes, VictimPublished, CutIsOver, Early
<1>22. CASE Prune
  BY <1>22, ConnsAssumption
    DEF Prune, connVars, deleteVars, DropNode, IInv, TypeOK, ConnSteps, DeleteSteps,
        Reasons, Serves, Published, CurrentServes, VictimPublished, CutIsOver, Early
<1>23. CASE Restart
  BY <1>23, ConnsAssumption
    DEF Restart, Fault, IInv, TypeOK, ConnSteps, DeleteSteps, Reasons, Serves, Published,
        CurrentServes, VictimPublished, CutIsOver, Early
<1>24. CASE UNCHANGED vars
  BY <1>24
    DEF vars, connVars, deleteVars, dbVars, IInv, TypeOK, ConnSteps, DeleteSteps, Reasons,
        Serves, Published, CurrentServes, VictimPublished, CutIsOver, Early
<1>25. QED BY <1>1, <1>2, <1>3, <1>4, <1>5, <1>6, <1>7, <1>8, <1>9, <1>10,
    <1>11, <1>12, <1>13, <1>14, <1>15, <1>16, <1>17, <1>18, <1>19, <1>20,
    <1>21, <1>22, <1>23, <1>24 DEF Next, Connect, Delete

(* close() only ever runs on a published session. *)
LEMMA ClosedStep ==
  ASSUME IInv, [Next]_vars
  PROVE  ClosedPublished'
<1>1. ASSUME NEW e \in Conns, Hello(e) PROVE ClosedPublished'
  BY <1>1, ConnsAssumption
    DEF Hello, deleteVars, dbVars, Goto, IInv, TypeOK, ConnSteps, DeleteSteps, Reasons,
        Serves, Published, CurrentServes, ReplacedPublished, VictimPublished,
        ClosedPublished, Early
<1>2. ASSUME NEW e \in Conns, Lookup(e) PROVE ClosedPublished'
  BY <1>2, ConnsAssumption
    DEF Lookup, deleteVars, dbVars, Goto, Return, Fault, IInv, TypeOK, ConnSteps,
        DeleteSteps, Reasons, Serves, Published, CurrentServes, ReplacedPublished,
        VictimPublished, ClosedPublished, Early
<1>3. ASSUME NEW e \in Conns, Cache(e) PROVE ClosedPublished'
  BY <1>3, ConnsAssumption
    DEF Cache, deleteVars, dbVars, Goto, IInv, TypeOK, ConnSteps, DeleteSteps, Reasons,
        Serves, Published, CurrentServes, ReplacedPublished, VictimPublished,
        ClosedPublished, Early
<1>4. ASSUME NEW e \in Conns, Refuse(e) PROVE ClosedPublished'
  BY <1>4, ConnsAssumption
    DEF Refuse, deleteVars, dbVars, Return, IInv, TypeOK, ConnSteps, DeleteSteps, Reasons,
        Serves, Published, CurrentServes, ReplacedPublished, VictimPublished,
        ClosedPublished, Early
<1>5. ASSUME NEW e \in Conns, Swap(e) PROVE ClosedPublished'
  BY <1>5, ConnsAssumption
    DEF Swap, deleteVars, dbVars, Goto, IInv, TypeOK, ConnSteps, DeleteSteps, Reasons,
        Serves, Published, CurrentServes, ReplacedPublished, VictimPublished,
        ClosedPublished, Early
<1>6. ASSUME NEW e \in Conns, CloseReplaced(e) PROVE ClosedPublished'
  BY <1>6, ConnsAssumption
    DEF CloseReplaced, deleteVars, dbVars, Goto, CloseSession, IInv, TypeOK, ConnSteps,
        DeleteSteps, Reasons, Serves, Published, CurrentServes, ReplacedPublished,
        VictimPublished, ClosedPublished, Early
<1>7. ASSUME NEW e \in Conns, UpsertRead(e) PROVE ClosedPublished'
  BY <1>7, ConnsAssumption
    DEF UpsertRead, deleteVars, dbVars, Goto, Return, Fault, IInv, TypeOK, ConnSteps,
        DeleteSteps, Reasons, Serves, Published, CurrentServes, ReplacedPublished,
        VictimPublished, ClosedPublished, Early
<1>8. ASSUME NEW e \in Conns, UpsertWrite(e) PROVE ClosedPublished'
  BY <1>8, ConnsAssumption
    DEF UpsertWrite, deleteVars, Goto, Return, Fault, IInv, TypeOK, ConnSteps, DeleteSteps,
        Reasons, Serves, Published, CurrentServes, ReplacedPublished, VictimPublished,
        ClosedPublished, Early
<1>9. ASSUME NEW e \in Conns, Heartbeat(e) PROVE ClosedPublished'
  BY <1>9, ConnsAssumption
    DEF Heartbeat, deleteVars, Goto, Return, Fault, IInv, TypeOK, ConnSteps, DeleteSteps,
        Reasons, Serves, Published, CurrentServes, ReplacedPublished, VictimPublished,
        ClosedPublished, Early
<1>10. ASSUME NEW e \in Conns, Recheck(e) PROVE ClosedPublished'
  BY <1>10, ConnsAssumption
    DEF Recheck, deleteVars, dbVars, Goto, Return, Fault, IInv, TypeOK, ConnSteps,
        DeleteSteps, Reasons, Serves, Published, CurrentServes, ReplacedPublished,
        VictimPublished, ClosedPublished, Early
<1>11. ASSUME NEW e \in Conns, StreamEnds(e) PROVE ClosedPublished'
  BY <1>11, ConnsAssumption
    DEF StreamEnds, deleteVars, dbVars, Return, IInv, TypeOK, ConnSteps, DeleteSteps,
        Reasons, Serves, Published, CurrentServes, ReplacedPublished, VictimPublished,
        ClosedPublished, Early
<1>12. ASSUME NEW e \in Conns, Remove(e) PROVE ClosedPublished'
  BY <1>12, ConnsAssumption
    DEF Remove, deleteVars, dbVars, Goto, IInv, TypeOK, ConnSteps, DeleteSteps, Reasons,
        Serves, Published, CurrentServes, ReplacedPublished, VictimPublished,
        ClosedPublished, Early
<1>13. ASSUME NEW e \in Conns, ClearOwn(e) PROVE ClosedPublished'
  BY <1>13, ConnsAssumption
    DEF ClearOwn, deleteVars, Goto, Fault, IInv, TypeOK, ConnSteps, DeleteSteps, Reasons,
        Serves, Published, CurrentServes, ReplacedPublished, VictimPublished,
        ClosedPublished, Early
<1>14. ASSUME NEW e \in Conns, CloseOwn(e) PROVE ClosedPublished'
  BY <1>14, ConnsAssumption
    DEF CloseOwn, deleteVars, dbVars, Goto, CloseSession, IInv, TypeOK, ConnSteps,
        DeleteSteps, Reasons, Serves, Published, CurrentServes, ReplacedPublished,
        VictimPublished, ClosedPublished, Early
<1>15. ASSUME NEW f \in Deletes, DropCached(f) PROVE ClosedPublished'
  BY <1>15, ConnsAssumption
    DEF DropCached, connVars, dbVars, Proceed, IInv, TypeOK, ConnSteps, DeleteSteps,
        Reasons, Serves, Published, CurrentServes, ReplacedPublished, VictimPublished,
        ClosedPublished, Early
<1>16. ASSUME NEW f \in Deletes, DropStored(f) PROVE ClosedPublished'
  BY <1>16, ConnsAssumption
    DEF DropStored, connVars, Proceed, Fault, IInv, TypeOK, ConnSteps, DeleteSteps,
        Reasons, Serves, Published, CurrentServes, ReplacedPublished, VictimPublished,
        ClosedPublished, Early
<1>17. ASSUME NEW f \in Deletes, DropRow(f) PROVE ClosedPublished'
  BY <1>17, ConnsAssumption
    DEF DropRow, connVars, dbVars, Proceed, Fault, DropNode, IInv, TypeOK, ConnSteps,
        DeleteSteps, Reasons, Serves, Published, CurrentServes, ReplacedPublished,
        VictimPublished, ClosedPublished, Early
<1>18. ASSUME NEW f \in Deletes, Unmap(f) PROVE ClosedPublished'
  BY <1>18, ConnsAssumption
    DEF Unmap, connVars, dbVars, Proceed, IInv, TypeOK, ConnSteps, DeleteSteps, Reasons,
        Serves, Published, CurrentServes, ReplacedPublished, VictimPublished,
        ClosedPublished, Early
<1>19. ASSUME NEW f \in Deletes, ClearNode(f) PROVE ClosedPublished'
  BY <1>19, ConnsAssumption
    DEF ClearNode, connVars, Proceed, Fault, IInv, TypeOK, ConnSteps, DeleteSteps, Reasons,
        Serves, Published, CurrentServes, ReplacedPublished, VictimPublished,
        ClosedPublished, Early
<1>20. ASSUME NEW f \in Deletes, CloseVictim(f) PROVE ClosedPublished'
  BY <1>20, ConnsAssumption
    DEF CloseVictim, connVars, dbVars, Proceed, CloseSession, IInv, TypeOK, ConnSteps,
        DeleteSteps, Reasons, Serves, Published, CurrentServes, ReplacedPublished,
        VictimPublished, ClosedPublished, Early
<1>21. CASE Age
  BY <1>21, ConnsAssumption
    DEF Age, connVars, deleteVars, IInv, TypeOK, ConnSteps, DeleteSteps, Reasons, Serves,
        Published, CurrentServes, ReplacedPublished, VictimPublished, ClosedPublished,
        Early
<1>22. CASE Prune
  BY <1>22, ConnsAssumption
    DEF Prune, connVars, deleteVars, DropNode, IInv, TypeOK, ConnSteps, DeleteSteps,
        Reasons, Serves, Published, CurrentServes, ReplacedPublished, VictimPublished,
        ClosedPublished, Early
<1>23. CASE Restart
  BY <1>23, ConnsAssumption
    DEF Restart, Fault, IInv, TypeOK, ConnSteps, DeleteSteps, Reasons, Serves, Published,
        CurrentServes, ReplacedPublished, VictimPublished, ClosedPublished, Early
<1>24. CASE UNCHANGED vars
  BY <1>24
    DEF vars, connVars, deleteVars, dbVars, IInv, TypeOK, ConnSteps, DeleteSteps, Reasons,
        Serves, Published, CurrentServes, ReplacedPublished, VictimPublished,
        ClosedPublished, Early
<1>25. QED BY <1>1, <1>2, <1>3, <1>4, <1>5, <1>6, <1>7, <1>8, <1>9, <1>10,
    <1>11, <1>12, <1>13, <1>14, <1>15, <1>16, <1>17, <1>18, <1>19, <1>20,
    <1>21, <1>22, <1>23, <1>24 DEF Next, Connect, Delete

(* Only a restart cuts a call off. *)
LEMMA CutStep ==
  ASSUME IInv, [Next]_vars
  PROVE  CutIsOver'
<1>1. ASSUME NEW e \in Conns, Hello(e) PROVE CutIsOver'
  BY <1>1, ConnsAssumption
    DEF Hello, deleteVars, dbVars, Goto, IInv, TypeOK, ConnSteps, DeleteSteps, Reasons,
        CutIsOver
<1>2. ASSUME NEW e \in Conns, Lookup(e) PROVE CutIsOver'
  BY <1>2, ConnsAssumption
    DEF Lookup, deleteVars, dbVars, Goto, Return, Fault, IInv, TypeOK, ConnSteps,
        DeleteSteps, Reasons, CutIsOver
<1>3. ASSUME NEW e \in Conns, Cache(e) PROVE CutIsOver'
  BY <1>3, ConnsAssumption
    DEF Cache, deleteVars, dbVars, Goto, IInv, TypeOK, ConnSteps, DeleteSteps, Reasons,
        CutIsOver
<1>4. ASSUME NEW e \in Conns, Refuse(e) PROVE CutIsOver'
  BY <1>4, ConnsAssumption
    DEF Refuse, deleteVars, dbVars, Return, IInv, TypeOK, ConnSteps, DeleteSteps, Reasons,
        CutIsOver
<1>5. ASSUME NEW e \in Conns, Swap(e) PROVE CutIsOver'
  BY <1>5, ConnsAssumption
    DEF Swap, deleteVars, dbVars, Goto, IInv, TypeOK, ConnSteps, DeleteSteps, Reasons,
        CutIsOver
<1>6. ASSUME NEW e \in Conns, CloseReplaced(e) PROVE CutIsOver'
  BY <1>6, ConnsAssumption
    DEF CloseReplaced, deleteVars, dbVars, Goto, CloseSession, IInv, TypeOK, ConnSteps,
        DeleteSteps, Reasons, CutIsOver
<1>7. ASSUME NEW e \in Conns, UpsertRead(e) PROVE CutIsOver'
  BY <1>7, ConnsAssumption
    DEF UpsertRead, deleteVars, dbVars, Goto, Return, Fault, IInv, TypeOK, ConnSteps,
        DeleteSteps, Reasons, CutIsOver
<1>8. ASSUME NEW e \in Conns, UpsertWrite(e) PROVE CutIsOver'
  BY <1>8, ConnsAssumption
    DEF UpsertWrite, deleteVars, Goto, Return, Fault, IInv, TypeOK, ConnSteps, DeleteSteps,
        Reasons, CutIsOver
<1>9. ASSUME NEW e \in Conns, Heartbeat(e) PROVE CutIsOver'
  BY <1>9, ConnsAssumption
    DEF Heartbeat, deleteVars, Goto, Return, Fault, IInv, TypeOK, ConnSteps, DeleteSteps,
        Reasons, CutIsOver
<1>10. ASSUME NEW e \in Conns, Recheck(e) PROVE CutIsOver'
  BY <1>10, ConnsAssumption
    DEF Recheck, deleteVars, dbVars, Goto, Return, Fault, IInv, TypeOK, ConnSteps,
        DeleteSteps, Reasons, CutIsOver
<1>11. ASSUME NEW e \in Conns, StreamEnds(e) PROVE CutIsOver'
  BY <1>11, ConnsAssumption
    DEF StreamEnds, deleteVars, dbVars, Return, IInv, TypeOK, ConnSteps, DeleteSteps,
        Reasons, CutIsOver
<1>12. ASSUME NEW e \in Conns, Remove(e) PROVE CutIsOver'
  BY <1>12, ConnsAssumption
    DEF Remove, deleteVars, dbVars, Goto, IInv, TypeOK, ConnSteps, DeleteSteps, Reasons,
        CutIsOver
<1>13. ASSUME NEW e \in Conns, ClearOwn(e) PROVE CutIsOver'
  BY <1>13, ConnsAssumption
    DEF ClearOwn, deleteVars, Goto, Fault, IInv, TypeOK, ConnSteps, DeleteSteps, Reasons,
        CutIsOver
<1>14. ASSUME NEW e \in Conns, CloseOwn(e) PROVE CutIsOver'
  BY <1>14, ConnsAssumption
    DEF CloseOwn, deleteVars, dbVars, Goto, CloseSession, IInv, TypeOK, ConnSteps,
        DeleteSteps, Reasons, CutIsOver
<1>15. ASSUME NEW f \in Deletes, DropCached(f) PROVE CutIsOver'
  BY <1>15, ConnsAssumption
    DEF DropCached, connVars, dbVars, Proceed, IInv, TypeOK, ConnSteps, DeleteSteps,
        Reasons, CutIsOver
<1>16. ASSUME NEW f \in Deletes, DropStored(f) PROVE CutIsOver'
  BY <1>16, ConnsAssumption
    DEF DropStored, connVars, Proceed, Fault, IInv, TypeOK, ConnSteps, DeleteSteps,
        Reasons, CutIsOver
<1>17. ASSUME NEW f \in Deletes, DropRow(f) PROVE CutIsOver'
  BY <1>17, ConnsAssumption
    DEF DropRow, connVars, dbVars, Proceed, Fault, DropNode, IInv, TypeOK, ConnSteps,
        DeleteSteps, Reasons, CutIsOver
<1>18. ASSUME NEW f \in Deletes, Unmap(f) PROVE CutIsOver'
  BY <1>18, ConnsAssumption
    DEF Unmap, connVars, dbVars, Proceed, IInv, TypeOK, ConnSteps, DeleteSteps, Reasons,
        CutIsOver
<1>19. ASSUME NEW f \in Deletes, ClearNode(f) PROVE CutIsOver'
  BY <1>19, ConnsAssumption
    DEF ClearNode, connVars, Proceed, Fault, IInv, TypeOK, ConnSteps, DeleteSteps, Reasons,
        CutIsOver
<1>20. ASSUME NEW f \in Deletes, CloseVictim(f) PROVE CutIsOver'
  BY <1>20, ConnsAssumption
    DEF CloseVictim, connVars, dbVars, Proceed, CloseSession, IInv, TypeOK, ConnSteps,
        DeleteSteps, Reasons, CutIsOver
<1>21. CASE Age
  BY <1>21, ConnsAssumption
    DEF Age, connVars, deleteVars, IInv, TypeOK, ConnSteps, DeleteSteps, Reasons, CutIsOver
<1>22. CASE Prune
  BY <1>22, ConnsAssumption
    DEF Prune, connVars, deleteVars, DropNode, IInv, TypeOK, ConnSteps, DeleteSteps,
        Reasons, CutIsOver
<1>23. CASE Restart
  BY <1>23, ConnsAssumption
    DEF Restart, Fault, IInv, TypeOK, ConnSteps, DeleteSteps, Reasons, CutIsOver
<1>24. CASE UNCHANGED vars
  BY <1>24
    DEF vars, connVars, deleteVars, dbVars, IInv, TypeOK, ConnSteps, DeleteSteps, Reasons,
        CutIsOver
<1>25. QED BY <1>1, <1>2, <1>3, <1>4, <1>5, <1>6, <1>7, <1>8, <1>9, <1>10,
    <1>11, <1>12, <1>13, <1>14, <1>15, <1>16, <1>17, <1>18, <1>19, <1>20,
    <1>21, <1>22, <1>23, <1>24 DEF Next, Connect, Delete

(* Whoever takes a serving session out of the table is on the way to close it. *)
LEMMA UnmappedStep ==
  ASSUME IInv, [Next]_vars
  PROVE  UnmappedIsClosed'
<1>1. ASSUME NEW e \in Conns, Hello(e) PROVE UnmappedIsClosed'
  BY <1>1, ConnsAssumption
    DEF Hello, deleteVars, dbVars, Goto, IInv, TypeOK, ConnSteps, DeleteSteps, Reasons,
        Serves, CurrentServes, UnmappedIsClosed
<1>2. ASSUME NEW e \in Conns, Lookup(e) PROVE UnmappedIsClosed'
  BY <1>2, ConnsAssumption
    DEF Lookup, deleteVars, dbVars, Goto, Return, Fault, IInv, TypeOK, ConnSteps,
        DeleteSteps, Reasons, Serves, CurrentServes, UnmappedIsClosed
<1>3. ASSUME NEW e \in Conns, Cache(e) PROVE UnmappedIsClosed'
  BY <1>3, ConnsAssumption
    DEF Cache, deleteVars, dbVars, Goto, IInv, TypeOK, ConnSteps, DeleteSteps, Reasons,
        Serves, CurrentServes, UnmappedIsClosed
<1>4. ASSUME NEW e \in Conns, Refuse(e) PROVE UnmappedIsClosed'
  BY <1>4, ConnsAssumption
    DEF Refuse, deleteVars, dbVars, Return, IInv, TypeOK, ConnSteps, DeleteSteps, Reasons,
        Serves, CurrentServes, UnmappedIsClosed
<1>5. ASSUME NEW e \in Conns, Swap(e) PROVE UnmappedIsClosed'
  BY <1>5, ConnsAssumption
    DEF Swap, deleteVars, dbVars, Goto, IInv, TypeOK, ConnSteps, DeleteSteps, Reasons,
        Serves, CurrentServes, UnmappedIsClosed
<1>6. ASSUME NEW e \in Conns, CloseReplaced(e) PROVE UnmappedIsClosed'
  BY <1>6, ConnsAssumption
    DEF CloseReplaced, deleteVars, dbVars, Goto, CloseSession, IInv, TypeOK, ConnSteps,
        DeleteSteps, Reasons, Serves, CurrentServes, UnmappedIsClosed
<1>7. ASSUME NEW e \in Conns, UpsertRead(e) PROVE UnmappedIsClosed'
  BY <1>7, ConnsAssumption
    DEF UpsertRead, deleteVars, dbVars, Goto, Return, Fault, IInv, TypeOK, ConnSteps,
        DeleteSteps, Reasons, Serves, CurrentServes, UnmappedIsClosed
<1>8. ASSUME NEW e \in Conns, UpsertWrite(e) PROVE UnmappedIsClosed'
  BY <1>8, ConnsAssumption
    DEF UpsertWrite, deleteVars, Goto, Return, Fault, IInv, TypeOK, ConnSteps, DeleteSteps,
        Reasons, Serves, CurrentServes, UnmappedIsClosed
<1>9. ASSUME NEW e \in Conns, Heartbeat(e) PROVE UnmappedIsClosed'
  BY <1>9, ConnsAssumption
    DEF Heartbeat, deleteVars, Goto, Return, Fault, IInv, TypeOK, ConnSteps, DeleteSteps,
        Reasons, Serves, CurrentServes, UnmappedIsClosed
<1>10. ASSUME NEW e \in Conns, Recheck(e) PROVE UnmappedIsClosed'
  BY <1>10, ConnsAssumption
    DEF Recheck, deleteVars, dbVars, Goto, Return, Fault, IInv, TypeOK, ConnSteps,
        DeleteSteps, Reasons, Serves, CurrentServes, UnmappedIsClosed
<1>11. ASSUME NEW e \in Conns, StreamEnds(e) PROVE UnmappedIsClosed'
  BY <1>11, ConnsAssumption
    DEF StreamEnds, deleteVars, dbVars, Return, IInv, TypeOK, ConnSteps, DeleteSteps,
        Reasons, Serves, CurrentServes, UnmappedIsClosed
<1>12. ASSUME NEW e \in Conns, Remove(e) PROVE UnmappedIsClosed'
  BY <1>12, ConnsAssumption
    DEF Remove, deleteVars, dbVars, Goto, IInv, TypeOK, ConnSteps, DeleteSteps, Reasons,
        Serves, CurrentServes, UnmappedIsClosed
<1>13. ASSUME NEW e \in Conns, ClearOwn(e) PROVE UnmappedIsClosed'
  BY <1>13, ConnsAssumption
    DEF ClearOwn, deleteVars, Goto, Fault, IInv, TypeOK, ConnSteps, DeleteSteps, Reasons,
        Serves, CurrentServes, UnmappedIsClosed
<1>14. ASSUME NEW e \in Conns, CloseOwn(e) PROVE UnmappedIsClosed'
  BY <1>14, ConnsAssumption
    DEF CloseOwn, deleteVars, dbVars, Goto, CloseSession, IInv, TypeOK, ConnSteps,
        DeleteSteps, Reasons, Serves, CurrentServes, UnmappedIsClosed
<1>15. ASSUME NEW f \in Deletes, DropCached(f) PROVE UnmappedIsClosed'
  BY <1>15, ConnsAssumption
    DEF DropCached, connVars, dbVars, Proceed, IInv, TypeOK, ConnSteps, DeleteSteps,
        Reasons, Serves, CurrentServes, UnmappedIsClosed
<1>16. ASSUME NEW f \in Deletes, DropStored(f) PROVE UnmappedIsClosed'
  BY <1>16, ConnsAssumption
    DEF DropStored, connVars, Proceed, Fault, IInv, TypeOK, ConnSteps, DeleteSteps,
        Reasons, Serves, CurrentServes, UnmappedIsClosed
<1>17. ASSUME NEW f \in Deletes, DropRow(f) PROVE UnmappedIsClosed'
  BY <1>17, ConnsAssumption
    DEF DropRow, connVars, dbVars, Proceed, Fault, DropNode, IInv, TypeOK, ConnSteps,
        DeleteSteps, Reasons, Serves, CurrentServes, UnmappedIsClosed
<1>18. ASSUME NEW f \in Deletes, Unmap(f) PROVE UnmappedIsClosed'
  BY <1>18, ConnsAssumption
    DEF Unmap, connVars, dbVars, Proceed, IInv, TypeOK, ConnSteps, DeleteSteps, Reasons,
        Serves, CurrentServes, UnmappedIsClosed
<1>19. ASSUME NEW f \in Deletes, ClearNode(f) PROVE UnmappedIsClosed'
  BY <1>19, ConnsAssumption
    DEF ClearNode, connVars, Proceed, Fault, IInv, TypeOK, ConnSteps, DeleteSteps, Reasons,
        Serves, CurrentServes, UnmappedIsClosed
<1>20. ASSUME NEW f \in Deletes, CloseVictim(f) PROVE UnmappedIsClosed'
  BY <1>20, ConnsAssumption
    DEF CloseVictim, connVars, dbVars, Proceed, CloseSession, IInv, TypeOK, ConnSteps,
        DeleteSteps, Reasons, Serves, CurrentServes, UnmappedIsClosed
<1>21. CASE Age
  BY <1>21, ConnsAssumption
    DEF Age, connVars, deleteVars, IInv, TypeOK, ConnSteps, DeleteSteps, Reasons, Serves,
        CurrentServes, UnmappedIsClosed
<1>22. CASE Prune
  BY <1>22, ConnsAssumption
    DEF Prune, connVars, deleteVars, DropNode, IInv, TypeOK, ConnSteps, DeleteSteps,
        Reasons, Serves, CurrentServes, UnmappedIsClosed
<1>23. CASE Restart
  BY <1>23, ConnsAssumption
    DEF Restart, Fault, IInv, TypeOK, ConnSteps, DeleteSteps, Reasons, Serves,
        CurrentServes, UnmappedIsClosed
<1>24. CASE UNCHANGED vars
  BY <1>24
    DEF vars, connVars, deleteVars, dbVars, IInv, TypeOK, ConnSteps, DeleteSteps, Reasons,
        Serves, CurrentServes, UnmappedIsClosed
<1>25. QED BY <1>1, <1>2, <1>3, <1>4, <1>5, <1>6, <1>7, <1>8, <1>9, <1>10,
    <1>11, <1>12, <1>13, <1>14, <1>15, <1>16, <1>17, <1>18, <1>19, <1>20,
    <1>21, <1>22, <1>23, <1>24 DEF Next, Connect, Delete

(* Without a delete the row an Upsert reads is provisioned. *)
LEMMA FoundStep ==
  ASSUME IInv, [Next]_vars
  PROVE  FoundProvisioned'
<1>1. ASSUME NEW e \in Conns, Hello(e) PROVE FoundProvisioned'
  BY <1>1, ConnsAssumption
    DEF Hello, deleteVars, dbVars, Goto, IInv, TypeOK, ConnSteps, DeleteSteps, Reasons,
        FoundProvisioned, ProvisionedKept
<1>2. ASSUME NEW e \in Conns, Lookup(e) PROVE FoundProvisioned'
  BY <1>2, ConnsAssumption
    DEF Lookup, deleteVars, dbVars, Goto, Return, Fault, IInv, TypeOK, ConnSteps,
        DeleteSteps, Reasons, FoundProvisioned, ProvisionedKept
<1>3. ASSUME NEW e \in Conns, Cache(e) PROVE FoundProvisioned'
  BY <1>3, ConnsAssumption
    DEF Cache, deleteVars, dbVars, Goto, IInv, TypeOK, ConnSteps, DeleteSteps, Reasons,
        FoundProvisioned, ProvisionedKept
<1>4. ASSUME NEW e \in Conns, Refuse(e) PROVE FoundProvisioned'
  BY <1>4, ConnsAssumption
    DEF Refuse, deleteVars, dbVars, Return, IInv, TypeOK, ConnSteps, DeleteSteps, Reasons,
        FoundProvisioned, ProvisionedKept
<1>5. ASSUME NEW e \in Conns, Swap(e) PROVE FoundProvisioned'
  BY <1>5, ConnsAssumption
    DEF Swap, deleteVars, dbVars, Goto, IInv, TypeOK, ConnSteps, DeleteSteps, Reasons,
        FoundProvisioned, ProvisionedKept
<1>6. ASSUME NEW e \in Conns, CloseReplaced(e) PROVE FoundProvisioned'
  BY <1>6, ConnsAssumption
    DEF CloseReplaced, deleteVars, dbVars, Goto, CloseSession, IInv, TypeOK, ConnSteps,
        DeleteSteps, Reasons, FoundProvisioned, ProvisionedKept
<1>7. ASSUME NEW e \in Conns, UpsertRead(e) PROVE FoundProvisioned'
  BY <1>7, ConnsAssumption
    DEF UpsertRead, deleteVars, dbVars, Goto, Return, Fault, IInv, TypeOK, ConnSteps,
        DeleteSteps, Reasons, FoundProvisioned, ProvisionedKept
<1>8. ASSUME NEW e \in Conns, UpsertWrite(e) PROVE FoundProvisioned'
  BY <1>8, ConnsAssumption
    DEF UpsertWrite, deleteVars, Goto, Return, Fault, IInv, TypeOK, ConnSteps, DeleteSteps,
        Reasons, FoundProvisioned, ProvisionedKept
<1>9. ASSUME NEW e \in Conns, Heartbeat(e) PROVE FoundProvisioned'
  BY <1>9, ConnsAssumption
    DEF Heartbeat, deleteVars, Goto, Return, Fault, IInv, TypeOK, ConnSteps, DeleteSteps,
        Reasons, FoundProvisioned, ProvisionedKept
<1>10. ASSUME NEW e \in Conns, Recheck(e) PROVE FoundProvisioned'
  BY <1>10, ConnsAssumption
    DEF Recheck, deleteVars, dbVars, Goto, Return, Fault, IInv, TypeOK, ConnSteps,
        DeleteSteps, Reasons, FoundProvisioned, ProvisionedKept
<1>11. ASSUME NEW e \in Conns, StreamEnds(e) PROVE FoundProvisioned'
  BY <1>11, ConnsAssumption
    DEF StreamEnds, deleteVars, dbVars, Return, IInv, TypeOK, ConnSteps, DeleteSteps,
        Reasons, FoundProvisioned, ProvisionedKept
<1>12. ASSUME NEW e \in Conns, Remove(e) PROVE FoundProvisioned'
  BY <1>12, ConnsAssumption
    DEF Remove, deleteVars, dbVars, Goto, IInv, TypeOK, ConnSteps, DeleteSteps, Reasons,
        FoundProvisioned, ProvisionedKept
<1>13. ASSUME NEW e \in Conns, ClearOwn(e) PROVE FoundProvisioned'
  BY <1>13, ConnsAssumption
    DEF ClearOwn, deleteVars, Goto, Fault, IInv, TypeOK, ConnSteps, DeleteSteps, Reasons,
        FoundProvisioned, ProvisionedKept
<1>14. ASSUME NEW e \in Conns, CloseOwn(e) PROVE FoundProvisioned'
  BY <1>14, ConnsAssumption
    DEF CloseOwn, deleteVars, dbVars, Goto, CloseSession, IInv, TypeOK, ConnSteps,
        DeleteSteps, Reasons, FoundProvisioned, ProvisionedKept
<1>15. ASSUME NEW f \in Deletes, DropCached(f) PROVE FoundProvisioned'
  BY <1>15, ConnsAssumption
    DEF DropCached, connVars, dbVars, Proceed, IInv, TypeOK, ConnSteps, DeleteSteps,
        Reasons, FoundProvisioned, ProvisionedKept
<1>16. ASSUME NEW f \in Deletes, DropStored(f) PROVE FoundProvisioned'
  BY <1>16, ConnsAssumption
    DEF DropStored, connVars, Proceed, Fault, IInv, TypeOK, ConnSteps, DeleteSteps,
        Reasons, FoundProvisioned, ProvisionedKept
<1>17. ASSUME NEW f \in Deletes, DropRow(f) PROVE FoundProvisioned'
  BY <1>17, ConnsAssumption
    DEF DropRow, connVars, dbVars, Proceed, Fault, DropNode, IInv, TypeOK, ConnSteps,
        DeleteSteps, Reasons, FoundProvisioned, ProvisionedKept
<1>18. ASSUME NEW f \in Deletes, Unmap(f) PROVE FoundProvisioned'
  BY <1>18, ConnsAssumption
    DEF Unmap, connVars, dbVars, Proceed, IInv, TypeOK, ConnSteps, DeleteSteps, Reasons,
        FoundProvisioned, ProvisionedKept
<1>19. ASSUME NEW f \in Deletes, ClearNode(f) PROVE FoundProvisioned'
  BY <1>19, ConnsAssumption
    DEF ClearNode, connVars, Proceed, Fault, IInv, TypeOK, ConnSteps, DeleteSteps, Reasons,
        FoundProvisioned, ProvisionedKept
<1>20. ASSUME NEW f \in Deletes, CloseVictim(f) PROVE FoundProvisioned'
  BY <1>20, ConnsAssumption
    DEF CloseVictim, connVars, dbVars, Proceed, CloseSession, IInv, TypeOK, ConnSteps,
        DeleteSteps, Reasons, FoundProvisioned, ProvisionedKept
<1>21. CASE Age
  BY <1>21, ConnsAssumption
    DEF Age, connVars, deleteVars, IInv, TypeOK, ConnSteps, DeleteSteps, Reasons,
        FoundProvisioned, ProvisionedKept
<1>22. CASE Prune
  BY <1>22, ConnsAssumption
    DEF Prune, connVars, deleteVars, DropNode, IInv, TypeOK, ConnSteps, DeleteSteps,
        Reasons, FoundProvisioned, ProvisionedKept
<1>23. CASE Restart
  BY <1>23, ConnsAssumption
    DEF Restart, Fault, IInv, TypeOK, ConnSteps, DeleteSteps, Reasons, FoundProvisioned,
        ProvisionedKept
<1>24. CASE UNCHANGED vars
  BY <1>24
    DEF vars, connVars, deleteVars, dbVars, IInv, TypeOK, ConnSteps, DeleteSteps, Reasons,
        FoundProvisioned, ProvisionedKept
<1>25. QED BY <1>1, <1>2, <1>3, <1>4, <1>5, <1>6, <1>7, <1>8, <1>9, <1>10,
    <1>11, <1>12, <1>13, <1>14, <1>15, <1>16, <1>17, <1>18, <1>19, <1>20,
    <1>21, <1>22, <1>23, <1>24 DEF Next, Connect, Delete

(* Without a delete no step drops the row, its column or its credential. *)
LEMMA KeptStep ==
  ASSUME IInv, [Next]_vars
  PROVE  ProvisionedKept'
<1>1. ASSUME NEW e \in Conns, Hello(e) PROVE ProvisionedKept'
  BY <1>1, ConnsAssumption
    DEF Hello, deleteVars, dbVars, Goto, IInv, TypeOK, ConnSteps, DeleteSteps, Reasons,
        FoundProvisioned, ProvisionedKept
<1>2. ASSUME NEW e \in Conns, Lookup(e) PROVE ProvisionedKept'
  BY <1>2, ConnsAssumption
    DEF Lookup, deleteVars, dbVars, Goto, Return, Fault, IInv, TypeOK, ConnSteps,
        DeleteSteps, Reasons, FoundProvisioned, ProvisionedKept
<1>3. ASSUME NEW e \in Conns, Cache(e) PROVE ProvisionedKept'
  BY <1>3, ConnsAssumption
    DEF Cache, deleteVars, dbVars, Goto, IInv, TypeOK, ConnSteps, DeleteSteps, Reasons,
        FoundProvisioned, ProvisionedKept
<1>4. ASSUME NEW e \in Conns, Refuse(e) PROVE ProvisionedKept'
  BY <1>4, ConnsAssumption
    DEF Refuse, deleteVars, dbVars, Return, IInv, TypeOK, ConnSteps, DeleteSteps, Reasons,
        FoundProvisioned, ProvisionedKept
<1>5. ASSUME NEW e \in Conns, Swap(e) PROVE ProvisionedKept'
  BY <1>5, ConnsAssumption
    DEF Swap, deleteVars, dbVars, Goto, IInv, TypeOK, ConnSteps, DeleteSteps, Reasons,
        FoundProvisioned, ProvisionedKept
<1>6. ASSUME NEW e \in Conns, CloseReplaced(e) PROVE ProvisionedKept'
  BY <1>6, ConnsAssumption
    DEF CloseReplaced, deleteVars, dbVars, Goto, CloseSession, IInv, TypeOK, ConnSteps,
        DeleteSteps, Reasons, FoundProvisioned, ProvisionedKept
<1>7. ASSUME NEW e \in Conns, UpsertRead(e) PROVE ProvisionedKept'
  BY <1>7, ConnsAssumption
    DEF UpsertRead, deleteVars, dbVars, Goto, Return, Fault, IInv, TypeOK, ConnSteps,
        DeleteSteps, Reasons, FoundProvisioned, ProvisionedKept
<1>8. ASSUME NEW e \in Conns, UpsertWrite(e) PROVE ProvisionedKept'
  BY <1>8, ConnsAssumption
    DEF UpsertWrite, deleteVars, Goto, Return, Fault, IInv, TypeOK, ConnSteps, DeleteSteps,
        Reasons, FoundProvisioned, ProvisionedKept
<1>9. ASSUME NEW e \in Conns, Heartbeat(e) PROVE ProvisionedKept'
  BY <1>9, ConnsAssumption
    DEF Heartbeat, deleteVars, Goto, Return, Fault, IInv, TypeOK, ConnSteps, DeleteSteps,
        Reasons, FoundProvisioned, ProvisionedKept
<1>10. ASSUME NEW e \in Conns, Recheck(e) PROVE ProvisionedKept'
  BY <1>10, ConnsAssumption
    DEF Recheck, deleteVars, dbVars, Goto, Return, Fault, IInv, TypeOK, ConnSteps,
        DeleteSteps, Reasons, FoundProvisioned, ProvisionedKept
<1>11. ASSUME NEW e \in Conns, StreamEnds(e) PROVE ProvisionedKept'
  BY <1>11, ConnsAssumption
    DEF StreamEnds, deleteVars, dbVars, Return, IInv, TypeOK, ConnSteps, DeleteSteps,
        Reasons, FoundProvisioned, ProvisionedKept
<1>12. ASSUME NEW e \in Conns, Remove(e) PROVE ProvisionedKept'
  BY <1>12, ConnsAssumption
    DEF Remove, deleteVars, dbVars, Goto, IInv, TypeOK, ConnSteps, DeleteSteps, Reasons,
        FoundProvisioned, ProvisionedKept
<1>13. ASSUME NEW e \in Conns, ClearOwn(e) PROVE ProvisionedKept'
  BY <1>13, ConnsAssumption
    DEF ClearOwn, deleteVars, Goto, Fault, IInv, TypeOK, ConnSteps, DeleteSteps, Reasons,
        FoundProvisioned, ProvisionedKept
<1>14. ASSUME NEW e \in Conns, CloseOwn(e) PROVE ProvisionedKept'
  BY <1>14, ConnsAssumption
    DEF CloseOwn, deleteVars, dbVars, Goto, CloseSession, IInv, TypeOK, ConnSteps,
        DeleteSteps, Reasons, FoundProvisioned, ProvisionedKept
<1>15. ASSUME NEW f \in Deletes, DropCached(f) PROVE ProvisionedKept'
  BY <1>15, ConnsAssumption
    DEF DropCached, connVars, dbVars, Proceed, IInv, TypeOK, ConnSteps, DeleteSteps,
        Reasons, FoundProvisioned, ProvisionedKept
<1>16. ASSUME NEW f \in Deletes, DropStored(f) PROVE ProvisionedKept'
  BY <1>16, ConnsAssumption
    DEF DropStored, connVars, Proceed, Fault, IInv, TypeOK, ConnSteps, DeleteSteps,
        Reasons, FoundProvisioned, ProvisionedKept
<1>17. ASSUME NEW f \in Deletes, DropRow(f) PROVE ProvisionedKept'
  BY <1>17, ConnsAssumption
    DEF DropRow, connVars, dbVars, Proceed, Fault, DropNode, IInv, TypeOK, ConnSteps,
        DeleteSteps, Reasons, FoundProvisioned, ProvisionedKept
<1>18. ASSUME NEW f \in Deletes, Unmap(f) PROVE ProvisionedKept'
  BY <1>18, ConnsAssumption
    DEF Unmap, connVars, dbVars, Proceed, IInv, TypeOK, ConnSteps, DeleteSteps, Reasons,
        FoundProvisioned, ProvisionedKept
<1>19. ASSUME NEW f \in Deletes, ClearNode(f) PROVE ProvisionedKept'
  BY <1>19, ConnsAssumption
    DEF ClearNode, connVars, Proceed, Fault, IInv, TypeOK, ConnSteps, DeleteSteps, Reasons,
        FoundProvisioned, ProvisionedKept
<1>20. ASSUME NEW f \in Deletes, CloseVictim(f) PROVE ProvisionedKept'
  BY <1>20, ConnsAssumption
    DEF CloseVictim, connVars, dbVars, Proceed, CloseSession, IInv, TypeOK, ConnSteps,
        DeleteSteps, Reasons, FoundProvisioned, ProvisionedKept
<1>21. CASE Age
  BY <1>21, ConnsAssumption
    DEF Age, connVars, deleteVars, IInv, TypeOK, ConnSteps, DeleteSteps, Reasons,
        FoundProvisioned, ProvisionedKept
<1>22. CASE Prune
  BY <1>22, ConnsAssumption
    DEF Prune, connVars, deleteVars, DropNode, IInv, TypeOK, ConnSteps, DeleteSteps,
        Reasons, FoundProvisioned, ProvisionedKept
<1>23. CASE Restart
  BY <1>23, ConnsAssumption
    DEF Restart, Fault, IInv, TypeOK, ConnSteps, DeleteSteps, Reasons, FoundProvisioned,
        ProvisionedKept
<1>24. CASE UNCHANGED vars
  BY <1>24
    DEF vars, connVars, deleteVars, dbVars, IInv, TypeOK, ConnSteps, DeleteSteps, Reasons,
        FoundProvisioned, ProvisionedKept
<1>25. QED BY <1>1, <1>2, <1>3, <1>4, <1>5, <1>6, <1>7, <1>8, <1>9, <1>10,
    <1>11, <1>12, <1>13, <1>14, <1>15, <1>16, <1>17, <1>18, <1>19, <1>20,
    <1>21, <1>22, <1>23, <1>24 DEF Next, Connect, Delete

(* The initial state satisfies the inductive invariant. *)
LEMMA InitInvariant == Init => IInv
<1> SUFFICES ASSUME Init PROVE IInv
  OBVIOUS
<1>1. TypeOK
  <2>1. restarts \in 0..MaxRestarts /\ faults \in 0..MaxFaults
    BY BoundsAssumption DEF Init
  <2>2. /\ cached \in BOOLEAN /\ stored \in BOOLEAN /\ fresh \in BOOLEAN
        /\ row \in {"absent", "runtime", "provisioned"}
        /\ {session, current} \subseteq Conns \cup {NoSession}
        /\ closed \in SUBSET Conns
    BY DEF Init
  <2>3. /\ conn \in [Conns -> ConnSteps] /\ ended \in [Conns -> Reasons]
        /\ replaced \in [Conns -> Conns \cup {NoSession}]
        /\ found \in [Conns -> BOOLEAN]
    BY DEF Init, ConnSteps, Reasons
  <2>4. /\ delete \in [Deletes -> DeleteSteps]
        /\ hit \in [Deletes -> BOOLEAN]
        /\ victim \in [Deletes -> Conns \cup {NoSession}]
    BY DEF Init, DeleteSteps
  <2>5. QED BY <2>1, <2>2, <2>3, <2>4 DEF TypeOK
<1>2. CurrentServes
  BY DEF Init, CurrentServes
<1>3. ReplacedPublished /\ VictimPublished
  BY DEF Init, ReplacedPublished, VictimPublished
<1>4. ClosedPublished /\ CutIsOver
  BY DEF Init, ClosedPublished, CutIsOver
<1>5. UnmappedIsClosed
  BY DEF Init, UnmappedIsClosed, Serves
<1>6. FoundProvisioned
  BY DEF Init, FoundProvisioned
<1>7. ProvisionedKept
  BY DEF Init, ProvisionedKept
<1>8. QED BY <1>1, <1>2, <1>3, <1>4, <1>5, <1>6, <1>7 DEF IInv

(* Every step preserves it. *)
LEMMA StepInvariant == IInv /\ [Next]_vars => IInv'
BY TypeStep, CurrentServesStep, ReplacedStep, VictimStep, ClosedStep, CutStep,
   UnmappedStep, FoundStep, KeptStep
DEF IInv

LEMMA Invariance == Spec => []IInv
BY InitInvariant, StepInvariant, PTL DEF Spec

(* The variables keep their types, whatever handlers, faults and restarts  *)
(* interleave.                                                             *)
THEOREM TypeCorrect == Spec => []TypeOK
<1>1. IInv => TypeOK
  BY DEF IInv
<1>2. QED BY <1>1, Invariance, PTL

(* No session serves its worker as an orphan: one that is not in the table *)
(* any more (swapSession, disconnectWorker) has somebody who closes it.    *)
THEOREM UnmappedIsClosedHolds == Spec => []UnmappedIsClosed
<1>1. IInv => UnmappedIsClosed
  BY DEF IInv
<1>2. QED BY <1>1, Invariance, PTL

(* What getSession finds is open: every close() comes after the entry was  *)
(* taken out.                                                              *)
THEOREM CurrentIsOpenHolds == Spec => []CurrentIsOpen
<1>1. IInv => CurrentIsOpen
  BY DEF IInv, CurrentServes, CurrentIsOpen, Serves
<1>2. QED BY <1>1, Invariance, PTL

(* Upsert and PruneOffline never cost a provisioned worker its row or its  *)
(* credential.                                                             *)
THEOREM ProvisionedKeptHolds == Spec => []ProvisionedKept
<1>1. IInv => ProvisionedKept
  BY DEF IInv
<1>2. QED BY <1>1, Invariance, PTL

-----------------------------------------------------------------------------
(* The simulation of SessionLife.                                          *)

LifeMap == [c \in Conns |-> LifeOf(c)]

(* Where no session changes its place the table stutters. *)
LEMMA Stutter ==
  ASSUME \A c \in Conns : LifeOf(c)' = LifeOf(c)
  PROVE  LifeMap' = LifeMap
BY DEF LifeMap

(* close() of a session that was published and is not in the table. *)
LEMMA ClosesLife ==
  ASSUME IInv, NEW s \in Conns, Published(s), s # current,
         closed' = closed \cup {s}, UNCHANGED current,
         ended' = ended,
         \A c \in Conns : c # s => Serves(c)' = Serves(c),
         \A c \in Conns :
           c # s => (conn'[c] \in {"leaving", "clearing", "closing"}) =
                    (conn[c] \in {"leaving", "clearing", "closing"})
  PROVE  Table!Next \/ LifeMap' = LifeMap
<1>1. \A c \in Conns : c # s => LifeOf(c)' = LifeOf(c)
  BY DEF LifeOf
<1>2. CASE LifeOf(s) = "unmapped"
  <2>1. LifeOf(s)' = "closed"
    BY <1>2 DEF LifeOf
  <2>2. LifeMap' = [LifeMap EXCEPT ![s] = "closed"]
    BY <1>1, <2>1 DEF LifeMap
  <2>3. QED BY <1>2, <2>2 DEF Table!Next, Table!Close, LifeMap
<1>3. CASE LifeOf(s) # "unmapped"
  <2>1. s \in closed \/ ended[s] = "cut"
    BY <1>3 DEF LifeOf, Published, Early, Serves, IInv, TypeOK, ConnSteps
  <2>2. LifeOf(s)' = LifeOf(s)
    BY <2>1 DEF LifeOf
  <2>3. QED BY <1>1, <2>2, Stutter
<1>4. QED BY <1>2, <1>3

(* Every step of the registry is a step of SessionLife or changes nothing  *)
(* there.                                                                  *)
LEMMA StepSimulation ==
  ASSUME IInv, IInv', [Next]_vars
  PROVE  Table!Next \/ LifeMap' = LifeMap
<1>1. ASSUME NEW e \in Conns, Hello(e) PROVE Table!Next \/ LifeMap' = LifeMap
  BY <1>1, Stutter
    DEF Hello, Goto, deleteVars, dbVars, IInv, TypeOK, ConnSteps, DeleteSteps, Reasons,
        CurrentServes, CutIsOver, Serves, LifeOf
<1>2. ASSUME NEW e \in Conns, Lookup(e) PROVE Table!Next \/ LifeMap' = LifeMap
  BY <1>2, Stutter
    DEF Lookup, Goto, Return, Fault, deleteVars, dbVars, IInv, TypeOK, ConnSteps,
        DeleteSteps, Reasons, CurrentServes, CutIsOver, Serves, LifeOf
<1>3. ASSUME NEW e \in Conns, Cache(e) PROVE Table!Next \/ LifeMap' = LifeMap
  BY <1>3, Stutter
    DEF Cache, Goto, deleteVars, dbVars, IInv, TypeOK, ConnSteps, DeleteSteps, Reasons,
        CurrentServes, CutIsOver, Serves, LifeOf
<1>4. ASSUME NEW e \in Conns, Refuse(e) PROVE Table!Next \/ LifeMap' = LifeMap
  BY <1>4, Stutter
    DEF Refuse, Return, deleteVars, dbVars, IInv, TypeOK, ConnSteps, DeleteSteps, Reasons,
        CurrentServes, CutIsOver, Serves, LifeOf
<1>5. ASSUME NEW e \in Conns, UpsertRead(e) PROVE Table!Next \/ LifeMap' = LifeMap
  BY <1>5, Stutter
    DEF UpsertRead, Goto, Return, Fault, deleteVars, dbVars, IInv, TypeOK, ConnSteps,
        DeleteSteps, Reasons, CurrentServes, CutIsOver, Serves, LifeOf
<1>6. ASSUME NEW e \in Conns, UpsertWrite(e) PROVE Table!Next \/ LifeMap' = LifeMap
  BY <1>6, Stutter
    DEF UpsertWrite, Goto, Return, Fault, deleteVars, IInv, TypeOK, ConnSteps, DeleteSteps,
        Reasons, CurrentServes, CutIsOver, Serves, LifeOf
<1>7. ASSUME NEW e \in Conns, Heartbeat(e) PROVE Table!Next \/ LifeMap' = LifeMap
  BY <1>7, Stutter
    DEF Heartbeat, Goto, Return, Fault, deleteVars, IInv, TypeOK, ConnSteps, DeleteSteps,
        Reasons, CurrentServes, CutIsOver, Serves, LifeOf
<1>8. ASSUME NEW e \in Conns, Recheck(e) PROVE Table!Next \/ LifeMap' = LifeMap
  BY <1>8, Stutter
    DEF Recheck, Goto, Return, Fault, deleteVars, dbVars, IInv, TypeOK, ConnSteps,
        DeleteSteps, Reasons, CurrentServes, CutIsOver, Serves, LifeOf
<1>9. ASSUME NEW e \in Conns, StreamEnds(e) PROVE Table!Next \/ LifeMap' = LifeMap
  BY <1>9, Stutter
    DEF StreamEnds, Return, deleteVars, dbVars, IInv, TypeOK, ConnSteps, DeleteSteps,
        Reasons, CurrentServes, CutIsOver, Serves, LifeOf
<1>10. ASSUME NEW e \in Conns, ClearOwn(e) PROVE Table!Next \/ LifeMap' = LifeMap
  BY <1>10, Stutter
    DEF ClearOwn, Goto, Fault, deleteVars, IInv, TypeOK, ConnSteps, DeleteSteps, Reasons,
        CurrentServes, CutIsOver, Serves, LifeOf
<1>11. ASSUME NEW f \in Deletes, DropCached(f) PROVE Table!Next \/ LifeMap' = LifeMap
  BY <1>11, Stutter
    DEF DropCached, Proceed, connVars, dbVars, IInv, TypeOK, ConnSteps, DeleteSteps,
        Reasons, CurrentServes, CutIsOver, Serves, LifeOf
<1>12. ASSUME NEW f \in Deletes, DropStored(f) PROVE Table!Next \/ LifeMap' = LifeMap
  BY <1>12, Stutter
    DEF DropStored, Proceed, Fault, connVars, IInv, TypeOK, ConnSteps, DeleteSteps,
        Reasons, CurrentServes, CutIsOver, Serves, LifeOf
<1>13. ASSUME NEW f \in Deletes, DropRow(f) PROVE Table!Next \/ LifeMap' = LifeMap
  BY <1>13, Stutter
    DEF DropRow, Proceed, Fault, DropNode, connVars, dbVars, IInv, TypeOK, ConnSteps,
        DeleteSteps, Reasons, CurrentServes, CutIsOver, Serves, LifeOf
<1>14. ASSUME NEW f \in Deletes, ClearNode(f) PROVE Table!Next \/ LifeMap' = LifeMap
  BY <1>14, Stutter
    DEF ClearNode, Proceed, Fault, connVars, IInv, TypeOK, ConnSteps, DeleteSteps, Reasons,
        CurrentServes, CutIsOver, Serves, LifeOf
<1>15. CASE Age
  BY <1>15, Stutter
    DEF Age, connVars, deleteVars, IInv, TypeOK, ConnSteps, DeleteSteps, Reasons,
        CurrentServes, CutIsOver, Serves, LifeOf
<1>16. CASE Prune
  BY <1>16, Stutter
    DEF Prune, DropNode, connVars, deleteVars, IInv, TypeOK, ConnSteps, DeleteSteps,
        Reasons, CurrentServes, CutIsOver, Serves, LifeOf
<1>17. CASE UNCHANGED vars
  BY <1>17, Stutter
    DEF vars, connVars, deleteVars, dbVars, IInv, TypeOK, ConnSteps, DeleteSteps, Reasons,
        CurrentServes, CutIsOver, Serves, LifeOf
<1>18. ASSUME NEW e \in Conns, Swap(e) PROVE Table!Next \/ LifeMap' = LifeMap
  <2>1. LifeOf(e) = "new" /\ LifeOf(e)' = "mapped"
    BY <1>18, ConnsAssumption
      DEF Swap, Goto, deleteVars, dbVars, IInv, TypeOK, ConnSteps, DeleteSteps, Reasons,
          CurrentServes, CutIsOver, Serves, LifeOf, ClosedPublished, Early
  <2>2. \A c \in Conns : c # e =>
          LifeOf(c)' = IF LifeOf(c) = "mapped" THEN "unmapped" ELSE LifeOf(c)
    BY <1>18, ConnsAssumption
      DEF Swap, Goto, deleteVars, dbVars, IInv, TypeOK, ConnSteps, DeleteSteps, Reasons,
          CurrentServes, CutIsOver, Serves, LifeOf
  <2>3. QED BY <2>1, <2>2 DEF Table!Next, Table!Publish, LifeMap
<1>19. ASSUME NEW e \in Conns, CloseReplaced(e) PROVE Table!Next \/ LifeMap' = LifeMap
  <2>1. CASE replaced[e] = NoSession
    BY <1>19, <2>1, Stutter, ConnsAssumption
      DEF CloseReplaced, Goto, CloseSession, deleteVars, dbVars, IInv, TypeOK, ConnSteps,
          DeleteSteps, Reasons, CurrentServes, CutIsOver, Serves, LifeOf
  <2>2. CASE replaced[e] # NoSession
    <3>1. replaced[e] \in Conns /\ Published(replaced[e]) /\ replaced[e] # current
      BY <1>19, <2>2 DEF CloseReplaced, IInv, TypeOK, ReplacedPublished
    <3>2. closed' = closed \cup {replaced[e]} /\ UNCHANGED <<current, ended>>
      BY <1>19, <3>1 DEF CloseReplaced, Goto, CloseSession, deleteVars, dbVars
    <3>3. \A c \in Conns :
            /\ Serves(c)' = Serves(c)
            /\ (conn'[c] \in {"leaving", "clearing", "closing"}) =
               (conn[c] \in {"leaving", "clearing", "closing"})
      BY <1>19 DEF CloseReplaced, Goto, CloseSession, deleteVars, dbVars, IInv, TypeOK, Serves
    <3>4. QED BY <3>1, <3>2, <3>3, ClosesLife
  <2>3. QED BY <2>1, <2>2
<1>20. ASSUME NEW e \in Conns, CloseOwn(e) PROVE Table!Next \/ LifeMap' = LifeMap
  <2>1. Published(e) /\ e # current
    BY <1>20, ConnsAssumption
      DEF CloseOwn, Published, Early, IInv, TypeOK, ConnSteps, DeleteSteps, Reasons,
          CurrentServes, CutIsOver, Serves, LifeOf
  <2>2. closed' = closed \cup {e} /\ UNCHANGED <<current, ended>>
    BY <1>20 DEF CloseOwn, Goto, CloseSession, deleteVars, dbVars
  <2>3. \A c \in Conns : c # e =>
          /\ Serves(c)' = Serves(c)
          /\ (conn'[c] \in {"leaving", "clearing", "closing"}) =
             (conn[c] \in {"leaving", "clearing", "closing"})
    BY <1>20 DEF CloseOwn, Goto, CloseSession, deleteVars, dbVars, IInv, TypeOK, Serves
  <2>4. QED BY <2>1, <2>2, <2>3, ClosesLife
<1>21. ASSUME NEW e \in Conns, Remove(e) PROVE Table!Next \/ LifeMap' = LifeMap
  <2>1. CASE current = e
    <3>1. LifeOf(e) = "mapped" /\ LifeOf(e)' = "unmapped"
      BY <1>21, <2>1, ConnsAssumption
        DEF Remove, Goto, deleteVars, dbVars, IInv, TypeOK, ConnSteps, DeleteSteps,
            Reasons, CurrentServes, CutIsOver, Serves, LifeOf
    <3>2. \A c \in Conns : c # e => LifeOf(c)' = LifeOf(c)
      BY <1>21, <2>1, ConnsAssumption
        DEF Remove, Goto, deleteVars, dbVars, IInv, TypeOK, ConnSteps, DeleteSteps,
            Reasons, CurrentServes, CutIsOver, Serves, LifeOf
    <3>3. QED BY <3>1, <3>2 DEF Table!Next, Table!Unmap, LifeMap
  <2>2. CASE current # e
    BY <1>21, <2>2, Stutter
      DEF Remove, Goto, deleteVars, dbVars, IInv, TypeOK, ConnSteps, DeleteSteps, Reasons,
          CurrentServes, CutIsOver, Serves, LifeOf
  <2>3. QED BY <2>1, <2>2
<1>22. ASSUME NEW f \in Deletes, Unmap(f) PROVE Table!Next \/ LifeMap' = LifeMap
  <2>1. CASE current = NoSession
    BY <1>22, <2>1, Stutter, ConnsAssumption
      DEF Unmap, Proceed, connVars, dbVars, IInv, TypeOK, ConnSteps, DeleteSteps, Reasons,
          CurrentServes, CutIsOver, Serves, LifeOf
  <2>2. CASE current # NoSession
    <3>1. current \in Conns /\ LifeOf(current) = "mapped"
      BY <2>2
        DEF IInv, TypeOK, ConnSteps, DeleteSteps, Reasons, CurrentServes, CutIsOver,
            Serves, LifeOf
    <3>2. \A c \in Conns : LifeOf(c)' = IF c = current THEN "unmapped" ELSE LifeOf(c)
      BY <1>22, <2>2, ConnsAssumption
        DEF Unmap, Proceed, connVars, dbVars, IInv, TypeOK, ConnSteps, DeleteSteps,
            Reasons, CurrentServes, CutIsOver, Serves, LifeOf
    <3>3. LifeMap' = [LifeMap EXCEPT ![current] = "unmapped"]
      BY <3>1, <3>2 DEF LifeMap
    <3>4. QED BY <3>1, <3>3 DEF Table!Next, Table!Unmap, LifeMap
  <2>3. QED BY <2>1, <2>2
<1>23. ASSUME NEW f \in Deletes, CloseVictim(f) PROVE Table!Next \/ LifeMap' = LifeMap
  <2>1. CASE victim[f] = NoSession
    BY <1>23, <2>1, Stutter, ConnsAssumption
      DEF CloseVictim, Proceed, CloseSession, connVars, dbVars, IInv, TypeOK, ConnSteps,
          DeleteSteps, Reasons, CurrentServes, CutIsOver, Serves, LifeOf
  <2>2. CASE victim[f] # NoSession
    <3>1. victim[f] \in Conns /\ Published(victim[f]) /\ victim[f] # current
      BY <1>23, <2>2 DEF CloseVictim, IInv, TypeOK, VictimPublished
    <3>2. closed' = closed \cup {victim[f]} /\ UNCHANGED <<current, conn, ended>>
      BY <1>23, <3>1 DEF CloseVictim, Proceed, CloseSession, connVars, dbVars
    <3>3. QED BY <3>1, <3>2, ClosesLife DEF Serves
  <2>3. QED BY <2>1, <2>2
<1>24. CASE Restart
  <2> DEFINE lost == {c \in Conns : ended'[c] = "cut"}
  <2>1. \A c \in Conns : LifeOf(c) \in {"mapped", "unmapped"} => c \in lost
    BY <1>24, ConnsAssumption
      DEF Restart, IInv, TypeOK, ConnSteps, DeleteSteps, Reasons, CurrentServes, CutIsOver,
          Serves, LifeOf
  <2>2. \A c \in Conns : LifeOf(c)' = IF c \in lost THEN "gone" ELSE LifeOf(c)
    BY <1>24, ConnsAssumption
      DEF Restart, IInv, TypeOK, ConnSteps, DeleteSteps, Reasons, CurrentServes, CutIsOver,
          Serves, LifeOf
  <2>3. QED BY <2>1, <2>2 DEF Table!Next, Table!ProcessDies, LifeMap
<1>25. QED BY <1>1, <1>2, <1>3, <1>4, <1>5, <1>6, <1>7, <1>8, <1>9, <1>10,
    <1>11, <1>12, <1>13, <1>14, <1>15, <1>16, <1>17, <1>18, <1>19, <1>20,
    <1>21, <1>22, <1>23, <1>24 DEF Next, Connect, Delete

(* The table of sessions and close() implement SessionLife: one session    *)
(* found at a time, out of the table once and for all, then closed.        *)
THEOREM Refinement == Spec => ImplementsSessionLife
<1>1. Init => Table!Init
  BY ConnsAssumption DEF Init, Table!Init, LifeOf, Serves
<1>2. IInv /\ IInv' /\ [Next]_vars => [Table!Next]_LifeMap
  BY StepSimulation
<1>3. IInv /\ IInv' /\ [Next]_vars => [Table!Next]_[c \in Conns |-> LifeOf(c)]
  BY <1>2 DEF LifeMap
<1>4. QED BY <1>1, <1>3, Invariance, PTL DEF Spec, ImplementsSessionLife, Table!Spec
=============================================================================

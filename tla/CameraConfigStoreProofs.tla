---------------------- MODULE CameraConfigStoreProofs ----------------------
(***************************************************************************)
(* Proofs that the configuration is saved as a whole and implements the    *)
(* abstract ConfigStore, for any number of cameras, handlers and restarts  *)
(* and whether or not requests for one camera overlap; that runtimes       *)
(* follow the configuration; and, of CameraProfile, that a request         *)
(* changes in one profile only what it is about.                           *)
(***************************************************************************)
EXTENDS CameraConfigStore, CameraProfile, TLAPS

\* A handler that is not idle has a request.
LEMMA HasRequest ==
  ASSUME TypeOK, NEW h \in Handlers, pc[h] # "idle"
  PROVE  req[h] \in Request
BY DEF TypeOK

LEMMA AskType ==
  ASSUME NEW op \in {"post", "patch", "delete", "size", "provision"}, NEW id \in Ids,
         NEW p \in Profiles, NEW e \in Profiles \cup {NoCamera}
  PROVE  Ask(op, id, p, e) \in Request
BY DEF Ask, Request

LEMMA InitType == Init => TypeOK
BY BoundsAssumption DEF Init, TypeOK, Tables

LEMMA UpsertType ==
  ASSUME TypeOK, NEW id \in Ids, NEW p \in Profiles \cup {NoCamera}, Upsert(id, p)
  PROVE  running' \in Tables /\ made' \in [Ids -> Nat]
BY DEF TypeOK, Tables, Upsert

LEMMA RemoveType ==
  ASSUME TypeOK, NEW id \in Ids, RemoveRuntime(id)
  PROVE  running' \in Tables /\ made' \in [Ids -> Nat]
BY DEF TypeOK, Tables, RemoveRuntime

LEMMA WriteType ==
  ASSUME TypeOK, NEW h \in Handlers, NEW id \in Ids, NEW p \in Profiles \cup {NoCamera},
         Write(h, id, p)
  PROVE  memory' \in Tables /\ lock' \in Handlers
BY DEF TypeOK, Tables, Write

\* What a step does to the handler that takes it, as far as types go.
Advanced(h) ==
  /\ pc' \in [Handlers -> {"idle", "change", "save", "fill", "rename", "resize",
                           "setup", "wait"}]
  /\ req' \in [Handlers -> Request \cup {NoRequest}]
  /\ \A g \in Handlers : pc'[g] = "idle" <=> req'[g] = NoRequest

\* A handler that goes on with a request of its own, or ends.
LEMMA AdvanceType ==
  ASSUME TypeOK, NEW h \in Handlers,
         NEW to \in {"change", "save", "fill", "rename", "resize", "setup", "wait"},
         NEW r \in Request,
         pc' = [pc EXCEPT ![h] = to], req' = [req EXCEPT ![h] = r]
  PROVE  Advanced(h)
BY NoneAssumption DEF TypeOK, Advanced

LEMMA KeepType ==
  ASSUME TypeOK, NEW h \in Handlers, pc[h] # "idle",
         NEW to \in {"change", "save", "fill", "rename", "resize", "setup", "wait"},
         pc' = [pc EXCEPT ![h] = to], req' = req
  PROVE  Advanced(h)
BY NoneAssumption DEF TypeOK, Advanced

LEMMA AnswerType ==
  ASSUME TypeOK, NEW h \in Handlers,
         pc' = [pc EXCEPT ![h] = "idle"], Answered(h)
  PROVE  Advanced(h)
BY NoneAssumption DEF TypeOK, Advanced, Answered

-----------------------------------------------------------------------------
LEMMA StepType == IInv /\ [Next]_vars => TypeOK'
<1> SUFFICES ASSUME TypeOK, Locking, [Next]_vars PROVE TypeOK'
  BY DEF IInv
<1>1. ASSUME NEW h \in Handlers, NEW id \in Ids, NEW p \in Profiles, Post(h, id, p)
      PROVE  TypeOK'
  <2>1. Ask("post", id, p, NoCamera) \in Request
    BY AskType
  <2>2. Advanced(h)
    BY <1>1, <2>1, AdvanceType DEF Post, Goto
  <2>3. memory' \in Tables /\ lock' \in Handlers
    BY <1>1, WriteType DEF Post
  <2> QED BY <1>1, <2>2, <2>3 DEF Post, Arrives, TypeOK, Advanced
<1>2. ASSUME NEW h \in Handlers, NEW id \in Ids, NEW p \in Profiles, NEW op \in Ops,
             LookUp(h, op, id, p)
      PROVE  TypeOK'
  <2>1. Ask(op, id, p, NoCamera) \in Request
    BY <1>2, AskType DEF LookUp
  <2>2. Advanced(h)
    BY <1>2, <2>1, AdvanceType DEF LookUp, Goto
  <2> QED BY <1>2, <2>2 DEF LookUp, Arrives, TypeOK, Advanced
<1>3. ASSUME NEW h \in Handlers, Gone(h) PROVE TypeOK'
  <2>1. Advanced(h)
    BY <1>3, AnswerType DEF Gone, Goto
  <2> QED BY <1>3, <2>1 DEF Gone, TypeOK, Advanced
<1>4. ASSUME NEW h \in Handlers, Refused(h) PROVE TypeOK'
  <2>1. Advanced(h)
    BY <1>4, AnswerType DEF Refused, Goto
  <2> QED BY <1>4, <2>1 DEF Refused, TypeOK, Advanced
<1>5. ASSUME NEW h \in Handlers, PatchOrDelete(h) PROVE TypeOK'
  <2>1. req[h] \in Request
    BY <1>5, HasRequest DEF PatchOrDelete, Goto
  <2>2. Advanced(h)
    BY <1>5, KeepType DEF PatchOrDelete, Goto
  <2>3. req[h].id \in Ids /\ req[h].next \in Profiles
    BY <2>1 DEF Request
  <2>4. memory' \in Tables /\ lock' \in Handlers
    BY <1>5, <2>3, WriteType DEF PatchOrDelete
  <2> QED BY <1>5, <2>2, <2>4 DEF PatchOrDelete, TypeOK, Advanced
<1>6. ASSUME NEW h \in Handlers, ChangeSize(h) PROVE TypeOK'
  <2>1. req[h] \in Request
    BY <1>6, HasRequest DEF ChangeSize, Goto
  <2>2. Advanced(h)
    BY <1>6, KeepType DEF ChangeSize, Goto
  <2>3. req[h].id \in Ids /\ req[h].next \in Profiles
    BY <2>1 DEF Request
  <2>4. memory[req[h].id] \in Profiles
    BY <1>6, <2>3 DEF ChangeSize, TypeOK, Tables
  <2>5. [memory[req[h].id] EXCEPT !.size = req[h].next.size] \in Profiles
    BY <2>3, <2>4 DEF Profiles
  <2>6. memory' \in Tables /\ lock' \in Handlers
    BY <1>6, <2>3, <2>5, WriteType DEF ChangeSize
  <2> QED BY <1>6, <2>2, <2>6 DEF ChangeSize, TypeOK, Advanced
<1>7. ASSUME NEW h \in Handlers, SizeIsRight(h) PROVE TypeOK'
  <2>1. req[h] \in Request
    BY <1>7, HasRequest DEF SizeIsRight, Goto
  <2>2. made[req[h].id] \in Nat
    BY <2>1 DEF Request, TypeOK
  <2>3. [req[h] EXCEPT !.rt = made[req[h].id]] \in Request
    BY <2>1, <2>2 DEF Request
  <2>4. Advanced(h)
    BY <1>7, <2>3, AdvanceType DEF SizeIsRight, Goto
  <2> QED BY <1>7, <2>4 DEF SizeIsRight, TypeOK, Advanced
<1>8. ASSUME NEW h \in Handlers, NEW id \in Ids, NEW s \in Sizes, ProvisionReads(h, id, s)
      PROVE  TypeOK'
  <2>1. [size |-> s, rest |-> SetupRest] \in Profiles
    BY RestsAssumption DEF Profiles
  <2>2. Ask("provision", id, [size |-> s, rest |-> SetupRest], memory[id]) \in Request
    BY <2>1, AskType DEF TypeOK, Tables
  <2>3. Advanced(h)
    BY <1>8, <2>2, AdvanceType DEF ProvisionReads, Goto
  <2> QED BY <1>8, <2>3 DEF ProvisionReads, Arrives, TypeOK, Advanced
<1>9. ASSUME NEW h \in Handlers, ProvisionConnects(h) PROVE TypeOK'
  <2>1. req[h].id \in Ids /\ req[h].next \in Profiles
    BY <1>9, HasRequest DEF ProvisionConnects, Goto, Request
  <2>2. Advanced(h)
    BY <1>9, KeepType DEF ProvisionConnects, Goto
  <2>3. running' \in Tables /\ made' \in [Ids -> Nat]
    BY <1>9, <2>1, UpsertType DEF ProvisionConnects
  <2> QED BY <1>9, <2>2, <2>3 DEF ProvisionConnects, TypeOK, Advanced
<1>10. ASSUME NEW h \in Handlers, ProvisionFails(h) PROVE TypeOK'
  <2>1. req[h].id \in Ids /\ req[h].existing \in Profiles \cup {NoCamera}
    BY <1>10, HasRequest DEF ProvisionFails, Goto, Request
  <2>2. Advanced(h)
    BY <1>10, AnswerType DEF ProvisionFails, Goto
  <2>3. running' \in Tables /\ made' \in [Ids -> Nat]
    BY <1>10, <2>1, UpsertType, RemoveType DEF ProvisionFails
  <2> QED BY <1>10, <2>2, <2>3 DEF ProvisionFails, TypeOK, Advanced
<1>11. ASSUME NEW h \in Handlers, ProvisionChanges(h) PROVE TypeOK'
  <2>1. req[h] \in Request
    BY <1>11, HasRequest DEF ProvisionChanges, Goto
  <2>2. req[h].id \in Ids /\ req[h].next \in Profiles
    BY <2>1 DEF Request
  <2>3. [req[h].next EXCEPT !.rest = LanRest] \in Profiles
    BY <2>2, RestsAssumption DEF Profiles
  <2>4. [req[h] EXCEPT !.next = [req[h].next EXCEPT !.rest = LanRest]] \in Request
    BY <2>1, <2>3 DEF Request
  <2>5. Advanced(h)
    BY <1>11, <2>4, AdvanceType DEF ProvisionChanges, Goto
  <2>6. memory' \in Tables /\ lock' \in Handlers
    BY <1>11, <2>2, <2>3, WriteType DEF ProvisionChanges
  <2> QED BY <1>11, <2>5, <2>6 DEF ProvisionChanges, TypeOK, Advanced
<1>12. ASSUME NEW h \in Handlers, OpenTmp(h) PROVE TypeOK'
  <2>1. Advanced(h)
    BY <1>12, KeepType DEF OpenTmp, Goto
  <2> QED BY <1>12, <2>1 DEF OpenTmp, TypeOK, Advanced
<1>13. ASSUME NEW h \in Handlers, FillTmp(h) PROVE TypeOK'
  <2>1. Advanced(h)
    BY <1>13, KeepType DEF FillTmp, Goto
  <2> QED BY <1>13, <2>1 DEF FillTmp, TypeOK, Advanced
<1>14. ASSUME NEW h \in Handlers, SaveFails(h) PROVE TypeOK'
  <2>1. Advanced(h)
    BY <1>14, AnswerType DEF SaveFails
  <2>2. req[h].id \in Ids
    BY <1>14, HasRequest DEF SaveFails, Request
  <2> QED BY <1>14, <2>1, <2>2 DEF SaveFails, TypeOK, Advanced
<1>15. ASSUME NEW h \in Handlers, Commit(h) PROVE TypeOK'
  <2>1. req[h] \in Request /\ req[h].id \in Ids /\ req[h].next \in Profiles
    BY <1>15, HasRequest DEF Commit, Request
  <2>2. disk' \in Tables
    BY <1>15 DEF Commit, Locking, TypeOK
  <2>3. running' \in Tables /\ made' \in [Ids -> Nat]
    BY <1>15, <2>1, UpsertType, RemoveType DEF Commit, TypeOK
  <2>4. Advanced(h)
    <3>1. CASE req[h].op = "size"
      <4>1. [req[h] EXCEPT !.rt = made[req[h].id]] \in Request
        BY <2>1 DEF Request, TypeOK
      <4>2. /\ pc' = [pc EXCEPT ![h] = "resize"]
            /\ req' = [req EXCEPT ![h] = [req[h] EXCEPT !.rt = made[req[h].id]]]
        BY <1>15, <3>1 DEF Commit
      <4> QED BY <4>1, <4>2, AdvanceType
    <3>2. CASE req[h].op # "size"
      <4>1. pc' = [pc EXCEPT ![h] = "idle"] /\ Answered(h)
        BY <1>15, <3>2 DEF Commit
      <4> QED BY <4>1, AnswerType
    <3> QED BY <3>1, <3>2
  <2>5. stale' \subseteq Ids /\ astray' \subseteq Ids /\ lock' \in Handlers \cup {NoHandler}
    BY <1>15 DEF Commit, TypeOK
  <2>6. UNCHANGED <<memory, mixed, requests, crashes>> /\ tmp' = Torn
    BY <1>15 DEF Commit
  <2> QED BY <2>2, <2>3, <2>4, <2>5, <2>6 DEF TypeOK, Advanced
<1>16. ASSUME NEW h \in Handlers, Resize(h) PROVE TypeOK'
  <2>1. req[h].id \in Ids /\ req[h].next.size \in Sizes
    BY <1>16, HasRequest DEF Resize, Goto, Request, Profiles
  <2>2. running' \in Tables
    <3>1. CASE running' = running
      BY <3>1 DEF TypeOK
    <3>2. CASE /\ running[req[h].id] # NoCamera
               /\ running' = [running EXCEPT ![req[h].id].size = req[h].next.size]
      <4>1. running[req[h].id] \in Profiles
        BY <2>1, <3>2 DEF TypeOK, Tables
      <4>2. [running[req[h].id] EXCEPT !.size = req[h].next.size] \in Profiles
        BY <2>1, <4>1 DEF Profiles
      <4> QED BY <2>1, <3>2, <4>2 DEF TypeOK, Tables
    <3> QED BY <1>16, <3>1, <3>2 DEF Resize
  <2>3. Advanced(h)
    BY <1>16, AnswerType DEF Resize, Goto
  <2> QED BY <1>16, <2>2, <2>3 DEF Resize, TypeOK, Advanced
<1>17. ASSUME NEW h \in Handlers, ProvisionStrays(h) PROVE TypeOK'
  <2>1. req[h].id \in Ids
    BY <1>17, HasRequest DEF ProvisionStrays, Goto, Request
  <2>2. Advanced(h)
    BY <1>17, AnswerType DEF ProvisionStrays, Goto
  <2> QED BY <1>17, <2>1, <2>2 DEF ProvisionStrays, TypeOK, Advanced
<1>18. CASE Crash
  BY <1>18, NoneAssumption DEF Crash, Boot, TypeOK, Tables
<1>19. CASE UNCHANGED vars
  BY <1>19 DEF vars, TypeOK
<1> QED
  BY <1>1, <1>2, <1>3, <1>4, <1>5, <1>6, <1>7, <1>8, <1>9, <1>10, <1>11, <1>12,
     <1>13, <1>14, <1>15, <1>16, <1>17, <1>18, <1>19 DEF Next, HandlerStep

-----------------------------------------------------------------------------
LEMMA InitLocking == Init => Locking
BY NoneAssumption DEF Init, Locking

\* While the lock is free no handler is saving, and every difference between
\* memory and file is a known one.
LEMMA WhenFree ==
  ASSUME Locking, Free
  PROVE  /\ \A h \in Handlers : pc[h] \notin {"save", "fill", "rename"}
         /\ \A id \in Ids : disk[id] # memory[id] => id \in stale
BY NoneAssumption DEF Locking, Free

\* A handler that takes the lock to change one camera.
LEMMA TakeLock ==
  ASSUME TypeOK, Locking, Free, NEW h \in Handlers, NEW id \in Ids,
         NEW p \in Profiles \cup {NoCamera},
         Write(h, id, p), pc' = [pc EXCEPT ![h] = "save"], req'[h].id = id,
         UNCHANGED <<disk, tmp, stale>>
  PROVE  Locking'
<1>1. \A g \in Handlers : pc'[g] \in {"save", "fill", "rename"} <=> lock' = g
  BY WhenFree DEF TypeOK, Write
<1>2. \A g \in Handlers : pc'[g] = "rename" => tmp' = memory'
  BY WhenFree DEF TypeOK
<1>3. \A i \in Ids : disk'[i] # memory'[i] =>
        i \in stale' \/ (lock' # NoHandler /\ req'[lock'].id = i)
  <2> SUFFICES ASSUME NEW i \in Ids, disk'[i] # memory'[i], i # id
               PROVE  i \in stale'
    BY NoneAssumption DEF Write
  <2>1. memory'[i] = memory[i]
    BY DEF Write, TypeOK, Tables
  <2> QED BY <2>1, WhenFree
<1> QED BY <1>1, <1>2, <1>3 DEF Locking

\* A step of a handler that does not hold the lock and does not take it.
LEMMA LeaveLock ==
  ASSUME TypeOK, Locking, NEW h \in Handlers,
         pc[h] \notin {"save", "fill", "rename"},
         NEW to \in {"idle", "change", "resize", "setup", "wait"},
         pc' = [pc EXCEPT ![h] = to], UNCHANGED <<memory, disk, tmp, lock, stale>>,
         \A g \in Handlers : g # h => req'[g] = req[g]
  PROVE  Locking'
<1>1. lock # h
  BY DEF Locking
<1>2. \A g \in Handlers : pc'[g] \in {"save", "fill", "rename"} =>
        g # h /\ pc'[g] = pc[g]
  BY DEF TypeOK
<1>3. lock # NoHandler => req'[lock] = req[lock]
  BY <1>1 DEF TypeOK
<1>4. \A g \in Handlers : g # h => pc'[g] = pc[g]
  BY DEF TypeOK
<1>5. \A g \in Handlers : pc'[g] \in {"save", "fill", "rename"} <=> lock' = g
  BY <1>1, <1>2, <1>4 DEF Locking
<1>6. \A g \in Handlers : pc'[g] = "rename" => tmp' = memory'
  BY <1>2 DEF Locking
<1>7. \A id \in Ids : disk'[id] # memory'[id] =>
        id \in stale' \/ (lock' # NoHandler /\ req'[lock'].id = id)
  BY <1>3 DEF Locking
<1> QED BY <1>5, <1>6, <1>7 DEF Locking

\* The handler that holds the lock goes on with the save.
LEMMA KeepLock ==
  ASSUME TypeOK, Locking, NEW h \in Handlers,
         pc[h] \in {"save", "fill"}, NEW to \in {"fill", "rename"},
         pc' = [pc EXCEPT ![h] = to], to = "rename" => tmp' = memory,
         UNCHANGED <<memory, disk, lock, req, stale>>
  PROVE  Locking'
<1>1. lock = h
  BY DEF Locking
<1>2. \A g \in Handlers : g # h => pc'[g] = pc[g] /\ pc[g] \notin {"save", "fill", "rename"}
  BY <1>1 DEF TypeOK, Locking
<1>3. pc'[h] = to
  BY DEF TypeOK
<1>4. \A g \in Handlers : pc'[g] \in {"save", "fill", "rename"} <=> lock' = g
  BY <1>1, <1>2, <1>3
<1>5. \A g \in Handlers : pc'[g] = "rename" => tmp' = memory'
  BY <1>2, <1>3
<1>6. \A id \in Ids : disk'[id] # memory'[id] =>
        id \in stale' \/ (lock' # NoHandler /\ req'[lock'].id = id)
  BY DEF Locking
<1> QED BY <1>4, <1>5, <1>6 DEF Locking

\* The handler that holds the lock releases it.
LEMMA ReleaseLock ==
  ASSUME TypeOK, Locking, NEW h \in Handlers,
         pc[h] \in {"save", "fill", "rename"}, NEW to \in {"idle", "resize"},
         pc' = [pc EXCEPT ![h] = to], lock' = NoHandler,
         \A id \in Ids : disk'[id] # memory'[id] => id \in stale'
  PROVE  Locking'
<1>1. lock = h
  BY DEF Locking
<1>2. \A g \in Handlers : pc'[g] \notin {"save", "fill", "rename"}
  BY <1>1 DEF TypeOK, Locking
<1> QED BY <1>2, NoneAssumption DEF Locking

LEMMA LockStep == IInv /\ [Next]_vars => Locking'
<1> SUFFICES ASSUME TypeOK, Locking, [Next]_vars PROVE Locking'
  BY DEF IInv
<1>1. ASSUME NEW h \in Handlers, NEW id \in Ids, NEW p \in Profiles, Post(h, id, p)
      PROVE  Locking'
  <2>1. req'[h].id = id
    BY <1>1 DEF Post, Ask, TypeOK
  <2> QED BY <1>1, <2>1, TakeLock DEF Post, Goto
<1>2. ASSUME NEW h \in Handlers, NEW id \in Ids, NEW p \in Profiles, NEW op \in Ops,
             LookUp(h, op, id, p)
      PROVE  Locking'
  BY <1>2, LeaveLock DEF LookUp, Goto, TypeOK
<1>3. ASSUME NEW h \in Handlers, Gone(h) PROVE Locking'
  BY <1>3, LeaveLock DEF Gone, Goto, Answered, TypeOK
<1>4. ASSUME NEW h \in Handlers, Refused(h) PROVE Locking'
  BY <1>4, LeaveLock DEF Refused, Goto, Answered, TypeOK
<1>5. ASSUME NEW h \in Handlers, PatchOrDelete(h) PROVE Locking'
  <2>1. req[h].id \in Ids /\ req[h].next \in Profiles
    BY <1>5, HasRequest DEF PatchOrDelete, Goto, Request
  <2>2. CASE Write(h, req[h].id, req[h].next)
    BY <1>5, <2>1, <2>2, TakeLock DEF PatchOrDelete, Goto
  <2>3. CASE Write(h, req[h].id, NoCamera)
    BY <1>5, <2>1, <2>3, TakeLock DEF PatchOrDelete, Goto
  <2> QED BY <1>5, <2>2, <2>3 DEF PatchOrDelete
<1>6. ASSUME NEW h \in Handlers, ChangeSize(h) PROVE Locking'
  <2>1. req[h].id \in Ids /\ req[h].next \in Profiles
    BY <1>6, HasRequest DEF ChangeSize, Goto, Request
  <2>2. memory[req[h].id] \in Profiles
    BY <1>6, <2>1 DEF ChangeSize, TypeOK, Tables
  <2>3. [memory[req[h].id] EXCEPT !.size = req[h].next.size] \in Profiles
    BY <2>1, <2>2 DEF Profiles
  <2> QED BY <1>6, <2>1, <2>3, TakeLock DEF ChangeSize, Goto
<1>7. ASSUME NEW h \in Handlers, SizeIsRight(h) PROVE Locking'
  BY <1>7, LeaveLock DEF SizeIsRight, Goto, TypeOK
<1>8. ASSUME NEW h \in Handlers, NEW id \in Ids, NEW s \in Sizes, ProvisionReads(h, id, s)
      PROVE  Locking'
  BY <1>8, LeaveLock DEF ProvisionReads, Goto, TypeOK
<1>9. ASSUME NEW h \in Handlers, ProvisionConnects(h) PROVE Locking'
  BY <1>9, LeaveLock DEF ProvisionConnects, Goto
<1>10. ASSUME NEW h \in Handlers, ProvisionFails(h) PROVE Locking'
  BY <1>10, LeaveLock DEF ProvisionFails, Goto, Answered, TypeOK
<1>11. ASSUME NEW h \in Handlers, ProvisionChanges(h) PROVE Locking'
  <2>1. req[h] \in Request
    BY <1>11, HasRequest DEF ProvisionChanges, Goto
  <2>2. req[h].id \in Ids /\ [req[h].next EXCEPT !.rest = LanRest] \in Profiles
    BY <2>1, RestsAssumption DEF Request, Profiles
  <2>3. req'[h].id = req[h].id
    BY <1>11, <2>1 DEF ProvisionChanges, TypeOK, Request
  <2> QED BY <1>11, <2>2, <2>3, TakeLock DEF ProvisionChanges, Goto
<1>12. ASSUME NEW h \in Handlers, OpenTmp(h) PROVE Locking'
  BY <1>12, KeepLock DEF OpenTmp, Goto
<1>13. ASSUME NEW h \in Handlers, FillTmp(h) PROVE Locking'
  BY <1>13, KeepLock DEF FillTmp, Goto
<1>14. ASSUME NEW h \in Handlers, SaveFails(h) PROVE Locking'
  <2>1. lock = h
    BY <1>14 DEF SaveFails, Locking
  <2>2. \A id \in Ids : disk'[id] # memory'[id] => id \in stale'
    BY <1>14, <2>1 DEF SaveFails, Locking
  <2> QED BY <1>14, <2>2, ReleaseLock DEF SaveFails
<1>15. ASSUME NEW h \in Handlers, Commit(h) PROVE Locking'
  <2>1. disk' = memory'
    BY <1>15 DEF Commit, Locking
  <2>2. PICK to \in {"idle", "resize"} : pc' = [pc EXCEPT ![h] = to]
    BY <1>15 DEF Commit
  <2>3. lock' = NoHandler /\ pc[h] = "rename"
    BY <1>15 DEF Commit
  <2> QED BY <2>1, <2>2, <2>3, ReleaseLock
<1>16. ASSUME NEW h \in Handlers, Resize(h) PROVE Locking'
  BY <1>16, LeaveLock DEF Resize, Goto, Answered, TypeOK
<1>17. ASSUME NEW h \in Handlers, ProvisionStrays(h) PROVE Locking'
  BY <1>17, LeaveLock DEF ProvisionStrays, Goto, Answered, TypeOK
<1>18. CASE Crash
  BY <1>18, NoneAssumption DEF Crash, Boot, Locking
<1>19. CASE UNCHANGED vars
  BY <1>19 DEF vars, Locking
<1> QED
  BY <1>1, <1>2, <1>3, <1>4, <1>5, <1>6, <1>7, <1>8, <1>9, <1>10, <1>11, <1>12,
     <1>13, <1>14, <1>15, <1>16, <1>17, <1>18, <1>19 DEF Next, HandlerStep

\* The inductive invariant: the types, App.mu belongs to the handler that
\* saves, and what it saves is what is in memory.
THEOREM Invariant == Spec => []IInv
<1>1. Init => IInv
  BY InitType, InitLocking DEF IInv
<1>2. IInv /\ [Next]_vars => IInv'
  BY StepType, LockStep DEF IInv
<1> QED BY <1>1, <1>2, PTL DEF Spec

\* Every step of a request, a save and a restart keeps the types: config.json
\* is never a torn table.
THEOREM TypeCorrect == Spec => []TypeOK
<1>1. IInv => TypeOK
  BY DEF IInv
<1> QED BY <1>1, Invariant, PTL

\* While no request holds App.mu, memory and config.json differ only where a
\* save has failed.
THEOREM Saved == Spec => []SavedUnlessFailed
<1>1. IInv => SavedUnlessFailed
  BY WhenFree DEF IInv, SavedUnlessFailed
<1> QED BY <1>1, Invariant, PTL

\* No PATCH, change of size, save or restart brings a deleted camera back.
THEOREM Deleted == Spec => DeletedStaysDeleted
<1> DEFINE Back(id) == /\ memory[id] = NoCamera /\ disk[id] = NoCamera
                       /\ memory'[id] # NoCamera
           Made(id) == \E h \in Handlers : /\ pc[h] \in {"idle", "wait"}
                                           /\ pc'[h] = "save" /\ req'[h].id = id
<1>1. ASSUME IInv, [Next]_vars, NEW id \in Ids, Back(id) PROVE Made(id)
  <2> USE <1>1 DEF IInv
  <2>1. ASSUME NEW h \in Handlers, NEW i \in Ids, NEW p \in Profiles, Post(h, i, p)
        PROVE  Made(id)
    <3>1. i = id
      BY <2>1 DEF Post, Write, TypeOK, Tables
    <3>2. req'[h].id = i /\ pc[h] = "idle" /\ pc'[h] = "save"
      BY <2>1 DEF Post, Goto, Ask, TypeOK
    <3> QED BY <3>1, <3>2
  <2>2. ASSUME NEW h \in Handlers, ProvisionChanges(h) PROVE Made(id)
    <3>1. req[h] \in Request
      BY <2>2, HasRequest DEF ProvisionChanges, Goto
    <3>2. req[h].id = id
      BY <2>2, <3>1 DEF ProvisionChanges, Write, TypeOK, Tables
    <3>3. req'[h].id = req[h].id /\ pc[h] = "wait" /\ pc'[h] = "save"
      BY <2>2, <3>1 DEF ProvisionChanges, Goto, TypeOK, Request
    <3> QED BY <3>2, <3>3
  <2>3. ASSUME NEW h \in Handlers, PatchOrDelete(h) PROVE FALSE
    BY <2>3, HasRequest DEF PatchOrDelete, Write, TypeOK, Tables
  <2>4. ASSUME NEW h \in Handlers, ChangeSize(h) PROVE FALSE
    BY <2>4, HasRequest DEF ChangeSize, Write, TypeOK, Tables
  <2>5. CASE Crash
    BY <2>5 DEF Crash
  <2>6. ASSUME memory' = memory PROVE FALSE
    BY <2>6
  <2>7. ASSUME NEW h \in Handlers, NEW i \in Ids, NEW p \in Profiles, NEW op \in Ops,
               LookUp(h, op, i, p)
        PROVE  memory' = memory
    BY <2>7 DEF LookUp
  <2>8. ASSUME NEW h \in Handlers, NEW i \in Ids, NEW s \in Sizes, ProvisionReads(h, i, s)
        PROVE  memory' = memory
    BY <2>8 DEF ProvisionReads
  <2>9. ASSUME NEW h \in Handlers,
               \/ Gone(h) \/ Refused(h) \/ SizeIsRight(h) \/ ProvisionConnects(h)
               \/ ProvisionFails(h) \/ ProvisionStrays(h) \/ OpenTmp(h) \/ FillTmp(h)
               \/ SaveFails(h) \/ Commit(h) \/ Resize(h)
        PROVE  memory' = memory
    BY <2>9 DEF Gone, Refused, SizeIsRight, ProvisionConnects, ProvisionFails,
                ProvisionStrays, OpenTmp, FillTmp, SaveFails, Commit, Resize
  <2>10. ASSUME UNCHANGED vars PROVE memory' = memory
    BY <2>10 DEF vars
  <2> QED
    BY <2>1, <2>2, <2>3, <2>4, <2>5, <2>6, <2>7, <2>8, <2>9, <2>10 DEF Next, HandlerStep
<1>2. IInv /\ [Next]_vars =>
        [\A id \in Ids :
           memory[id] = NoCamera /\ disk[id] = NoCamera /\ memory'[id] # NoCamera
           => \E h \in Handlers :
                pc[h] \in {"idle", "wait"} /\ pc'[h] = "save" /\ req'[h].id = id]_vars
  BY <1>1
<1> QED BY <1>2, Invariant, PTL DEF Spec, DeletedStaysDeleted

-----------------------------------------------------------------------------
(* The configuration implements ConfigStore: a change under App.mu is its  *)
(* Change, the rename its Save, a crash its Restart, the rest stutters.    *)

LEMMA WriteIsChange ==
  ASSUME TypeOK, NEW h \in Handlers, NEW id \in Ids, NEW p \in Profiles \cup {NoCamera},
         Write(h, id, p), disk' = disk
  PROVE  Store!Next
BY DEF Write, Store!Next, Store!Change

LEMMA StoreStep ==
  ASSUME IInv, [Next]_vars
  PROVE  [Store!Next]_<<memory, disk>>
<1> USE DEF IInv
<1>1. ASSUME NEW h \in Handlers, NEW id \in Ids, NEW p \in Profiles, Post(h, id, p)
      PROVE  Store!Next
  BY <1>1, WriteIsChange DEF Post
<1>2. ASSUME NEW h \in Handlers, PatchOrDelete(h) PROVE Store!Next
  <2>1. req[h].id \in Ids /\ req[h].next \in Profiles
    BY <1>2, HasRequest DEF PatchOrDelete, Goto, Request
  <2> QED BY <1>2, <2>1, WriteIsChange DEF PatchOrDelete
<1>3. ASSUME NEW h \in Handlers, ChangeSize(h) PROVE Store!Next
  <2>1. req[h].id \in Ids /\ req[h].next \in Profiles
    BY <1>3, HasRequest DEF ChangeSize, Goto, Request
  <2>2. memory[req[h].id] \in Profiles
    BY <1>3, <2>1 DEF ChangeSize, TypeOK, Tables
  <2>3. [memory[req[h].id] EXCEPT !.size = req[h].next.size] \in Profiles
    BY <2>1, <2>2 DEF Profiles
  <2> QED BY <1>3, <2>1, <2>3, WriteIsChange DEF ChangeSize
<1>4. ASSUME NEW h \in Handlers, ProvisionChanges(h) PROVE Store!Next
  <2>1. req[h].id \in Ids /\ [req[h].next EXCEPT !.rest = LanRest] \in Profiles
    BY <1>4, HasRequest, RestsAssumption DEF ProvisionChanges, Goto, Request, Profiles
  <2> QED BY <1>4, <2>1, WriteIsChange DEF ProvisionChanges
<1>5. ASSUME NEW h \in Handlers, Commit(h) PROVE Store!Next
  BY <1>5 DEF Commit, Locking, Store!Next, Store!Save
<1>6. CASE Crash
  BY <1>6 DEF Crash, Store!Next, Store!Restart
<1>7. ASSUME NEW h \in Handlers, NEW id \in Ids, NEW p \in Profiles, NEW op \in Ops,
             LookUp(h, op, id, p)
      PROVE  UNCHANGED <<memory, disk>>
  BY <1>7 DEF LookUp
<1>8. ASSUME NEW h \in Handlers, NEW id \in Ids, NEW s \in Sizes, ProvisionReads(h, id, s)
      PROVE  UNCHANGED <<memory, disk>>
  BY <1>8 DEF ProvisionReads
<1>9. ASSUME NEW h \in Handlers,
             \/ Gone(h) \/ Refused(h) \/ SizeIsRight(h) \/ ProvisionConnects(h)
             \/ ProvisionFails(h) \/ ProvisionStrays(h)
             \/ OpenTmp(h) \/ FillTmp(h) \/ SaveFails(h) \/ Resize(h)
      PROVE  UNCHANGED <<memory, disk>>
  BY <1>9 DEF Gone, Refused, SizeIsRight, ProvisionConnects, ProvisionFails,
              ProvisionStrays, OpenTmp, FillTmp, SaveFails, Resize
<1>10. CASE UNCHANGED vars
  BY <1>10 DEF vars
<1> QED
  BY <1>1, <1>2, <1>3, <1>4, <1>5, <1>6, <1>7, <1>8, <1>9, <1>10 DEF Next, HandlerStep

\* Refinement: whatever requests, failing saves and restarts do, memory and
\* config.json behave as the abstract store promises.
THEOREM ImplementsStore == Spec => RefinesStore
<1>1. Init => Store!Init
  BY DEF Init, Store!Init, Tables, Store!Tables
<1>2. IInv /\ [Next]_vars => [Store!Next]_<<memory, disk>>
  BY StoreStep
<1> QED BY <1>1, <1>2, Invariant, PTL DEF Spec, RefinesStore, Store!Spec

-----------------------------------------------------------------------------
(* The runtimes follow the configuration.                                    *)

Saving == {"save", "fill", "rename"}

Working(h, id) == pc[h] # "idle" /\ req[h].id = id

\* Which requests get where.
Routes ==
  \A h \in Handlers :
    /\ pc[h] \in {"setup", "wait"} => req[h].op = "provision"
    /\ pc[h] = "resize" => req[h].op = "size"
    /\ pc[h] = "change" => req[h].op \in {"patch", "delete", "size"}
    /\ pc[h] = "setup" => req[h].next.rest = SetupRest

\* Device-config and provisioning are alone with a camera that is not mixed.
Alone ==
  \A id \in Ids \ mixed, g, h \in Handlers :
    g # h /\ Working(g, id) /\ Working(h, id) => req[g].op \notin {"size", "provision"}

\* While a request is saved, memory has what its runtime will get.
Written ==
  \A h \in Handlers :
    pc[h] \in Saving =>
      /\ req[h].op \in {"post", "patch", "provision"} => memory[req[h].id] = req[h].next
      /\ req[h].op = "delete" => memory[req[h].id] = NoCamera

\* The runtime of a camera is behind its profile by a size that device-config has saved
\* or is saving.
Behind(h, id) ==
  /\ running[id] # NoCamera
  /\ memory[id] = [running[id] EXCEPT !.size = req[h].next.size]
  /\ pc[h] = "resize" => made[id] = req[h].rt

\* A request that has looked its camera up and changed nothing yet.
Looking == {"change", "setup"}

\* A provisioning that is alone has the camera on the setup profile, from when it connects
\* until it ends, and longer if it leaves it there.
Lodged ==
  \A id \in Ids \ mixed :
    id \in astray \/ (\E h \in Handlers : Working(h, id) /\ pc[h] = "wait") => OnSetup(id)

\* Provisioning remembers the profile that the configuration has, and nothing but a
\* request that is past its change keeps a runtime that is not astray from its profile.
Agree(id) ==
  /\ \A h \in Handlers : Working(h, id) =>
       /\ pc[h] \in {"setup", "wait"} => memory[id] = req[h].existing
       /\ id \notin astray /\ (pc[h] = "resize" \/ (pc[h] \in Saving /\ req[h].op = "size"))
          => Behind(h, id)
  /\ id \notin astray /\ (\A h \in Handlers : Working(h, id) => pc[h] \in Looking)
     => running[id] = memory[id]

Following ==
  Routes /\ Alone /\ Written /\ Lodged /\ \A id \in Ids \ (mixed \cup stale) : Agree(id)

LEMMA InitFollowing == ASSUME Init PROVE Following
BY DEF Init, Following, Routes, Alone, Written, Lodged, Agree, Working, Saving

\* A step of a handler h on the camera c.  Whoever else is at work on it keeps no promise
\* about its runtime, unless the camera is mixed.
LEMMA FollowStep ==
  ASSUME IInv, Following, NEW h \in Handlers, NEW c \in Ids,
         \A g \in Handlers : g # h => pc'[g] = pc[g] /\ req'[g] = req[g],
         pc[h] # "idle" => req[h].id = c,
         pc'[h] # "idle" => req'[h].id = c,
         \A id \in Ids : id # c =>
           memory'[id] = memory[id] /\ running'[id] = running[id] /\ made'[id] = made[id],
         mixed \subseteq mixed', \A id \in Ids : id # c /\ id \in stale => id \in stale',
         \A id \in Ids : id # c => (id \in astray' <=> id \in astray),
         memory' = memory \/ \A g \in Handlers : pc[g] \notin Saving,
         pc'[h] \in {"setup", "wait"} => req'[h].op = "provision",
         pc'[h] = "resize" => req'[h].op = "size",
         pc'[h] = "change" => req'[h].op \in {"patch", "delete", "size"},
         pc'[h] = "setup" => req'[h].next.rest = SetupRest,
         pc'[h] \in Saving =>
           /\ req'[h].op \in {"post", "patch", "provision"} => memory'[c] = req'[h].next
           /\ req'[h].op = "delete" => memory'[c] = NoCamera,
         c \notin mixed' => \A g \in Handlers : g # h /\ Working(g, c) =>
           /\ req[g].op \notin {"size", "provision"}
           /\ pc'[h] # "idle" => req'[h].op \notin {"size", "provision"},
         c \notin mixed' /\ (c \in astray' \/ pc'[h] = "wait") =>
           (c \in astray /\ running' = running) \/ OnSetup(c)',
         c \notin mixed' \cup stale' =>
           /\ pc'[h] \in {"setup", "wait"} => memory'[c] = req'[h].existing
           /\ c \notin astray' =>
                /\ pc'[h] = "resize" \/ (pc'[h] \in Saving /\ req'[h].op = "size")
                   => Behind(h, c)'
                /\ pc'[h] \in {"idle", "change", "setup"}
                   /\ (\A g \in Handlers : g # h /\ Working(g, c) => pc[g] \in Looking)
                   => running'[c] = memory'[c]
  PROVE  Following'
<1>1. \A g \in Handlers, id \in Ids : g # h => (Working(g, id)' <=> Working(g, id))
  BY DEF Working
<1>2. \A id \in Ids : id # c => ~Working(h, id) /\ ~Working(h, id)'
  BY DEF Working
<1>3. Routes' BY DEF Following, Routes
<1>4. Alone'
  <2> SUFFICES ASSUME NEW id \in Ids, id \notin mixed', NEW g \in Handlers, NEW f \in Handlers,
                      g # f, Working(g, id)', Working(f, id)'
               PROVE  req'[g].op \notin {"size", "provision"}
    BY DEF Alone
  <2>1. CASE id # c BY <1>1, <1>2, <2>1 DEF Following, Alone
  <2>2. CASE id = c /\ g = h BY <1>1, <2>2 DEF Working
  <2>3. CASE id = c /\ g # h /\ f = h BY <1>1, <2>3
  <2>4. CASE id = c /\ g # h /\ f # h BY <1>1, <2>4 DEF Following, Alone
  <2> QED BY <2>1, <2>2, <2>3, <2>4
<1>5. Written'
  <2> SUFFICES ASSUME NEW g \in Handlers, pc'[g] \in Saving
               PROVE  /\ req'[g].op \in {"post", "patch", "provision"} =>
                           memory'[req'[g].id] = req'[g].next
                      /\ req'[g].op = "delete" => memory'[req'[g].id] = NoCamera
    BY DEF Written
  <2>1. CASE g = h BY <2>1 DEF Saving
  <2>2. CASE g # h BY <2>2 DEF Following, Written
  <2> QED BY <2>1, <2>2
<1>6. ASSUME NEW id \in Ids \ (mixed' \cup stale') PROVE Agree(id)'
  <2>1. CASE id # c
    <3>1. Agree(id) BY <2>1 DEF Following
    <3>2. \A g \in Handlers : Working(g, id)' <=> Working(g, id) BY <1>1, <1>2, <2>1
    <3>3. \A g \in Handlers : Working(g, id) => pc'[g] = pc[g] /\ req'[g] = req[g]
      BY <1>2, <2>1
    <3> QED BY <2>1, <3>1, <3>2, <3>3 DEF Agree, Behind
  <2>2. CASE id = c
    <3>1. ASSUME NEW g \in Handlers, g # h, Working(g, c)
          PROVE  pc[g] \notin {"setup", "wait", "resize"} /\ req[g].op # "size"
      BY <2>2, <3>1 DEF Following, Routes
    <3>2. ASSUME NEW g \in Handlers, Working(g, c)'
          PROVE  /\ pc'[g] \in {"setup", "wait"} => memory'[c] = req'[g].existing
                 /\ /\ c \notin astray'
                    /\ pc'[g] = "resize" \/ (pc'[g] \in Saving /\ req'[g].op = "size")
                    => Behind(g, c)'
      BY <1>1, <2>2, <3>1, <3>2
    <3>3. ASSUME c \notin astray', \A g \in Handlers : Working(g, c)' => pc'[g] \in Looking
          PROVE  running'[c] = memory'[c]
      <4>1. pc'[h] \in {"idle", "change", "setup"} BY <3>3 DEF Working, Looking
      <4>2. \A g \in Handlers : g # h /\ Working(g, c) => pc[g] \in Looking BY <1>1, <3>3
      <4> QED BY <2>2, <3>3, <4>1, <4>2
    <3> QED BY <2>2, <3>2, <3>3 DEF Agree
  <2> QED BY <2>1, <2>2
<1>7. Lodged'
  <2> SUFFICES ASSUME NEW id \in Ids, id \notin mixed',
                      \/ id \in astray'
                      \/ \E g \in Handlers : Working(g, id)' /\ pc'[g] = "wait"
               PROVE  OnSetup(id)'
    BY DEF Lodged
  <2>1. CASE id # c
    <3>1. OnSetup(id) BY <1>1, <1>2, <2>1 DEF Following, Lodged
    <3> QED BY <2>1, <3>1 DEF OnSetup
  <2>2. CASE id = c
    <3>1. \A g \in Handlers : g # h /\ Working(g, c) => pc[g] # "wait"
      BY <2>2 DEF Following, Routes
    <3>2. c \in astray' \/ pc'[h] = "wait" BY <1>1, <2>2, <3>1
    <3>3. ASSUME c \in astray, running' = running PROVE OnSetup(c)'
      BY <2>2, <3>3 DEF Following, Lodged, OnSetup
    <3> QED BY <2>2, <3>2, <3>3
  <2> QED BY <2>1, <2>2
<1> QED BY <1>3, <1>4, <1>5, <1>6, <1>7 DEF Following

\* Two requests that overlap on a camera that is not mixed.
LEMMA Overlap ==
  ASSUME IInv, Following, NEW h \in Handlers, pc[h] # "idle"
  PROVE  /\ req[h] \in Request /\ req[h].id \in Ids
         /\ req[h].id \notin mixed => \A g \in Handlers : g # h /\ Working(g, req[h].id) =>
              /\ req[g].op \notin {"size", "provision"}
              /\ req[h].op \notin {"size", "provision"}
<1>1. req[h] \in Request BY HasRequest DEF IInv
<1>2. req[h].id \in Ids BY <1>1 DEF Request
<1>3. Working(h, req[h].id) BY DEF Working
<1> QED BY <1>1, <1>2, <1>3 DEF Following, Alone

\* The profile and the runtime of a camera that nobody has touched agree.
LEMMA Untouched ==
  ASSUME Following, NEW c \in Ids \ (mixed \cup stale \cup astray),
         \A g \in Handlers : Working(g, c) => pc[g] \in Looking
  PROVE  running[c] = memory[c]
BY DEF Following, Agree

LEMMA NobodySaves == ASSUME IInv, Free PROVE \A g \in Handlers : pc[g] \notin Saving
BY WhenFree DEF IInv, Saving

\* A request that comes in is alone with its camera, or not one that minds, or the camera
\* is mixed from now on.
LEMMA Comes ==
  ASSUME IInv, NEW h \in Handlers, NEW op, NEW c \in Ids, Arrives(h, op, c), c \notin mixed'
  PROVE  /\ c \notin mixed
         /\ \A g \in Handlers : g # h /\ Working(g, c) =>
              req[g].op \notin {"size", "provision"} /\ op \notin {"size", "provision"}
BY DEF Arrives, Working

LEMMA PostFollows ==
  ASSUME IInv, Following, NEW h \in Handlers, NEW c \in Ids, NEW p \in Profiles, Post(h, c, p)
  PROVE  Following'
<1>1. /\ pc[h] = "idle" /\ pc'[h] = "save"
      /\ req'[h].id = c /\ req'[h].op = "post" /\ req'[h].next = p
      /\ \A g \in Handlers : g # h => pc'[g] = pc[g] /\ req'[g] = req[g]
  BY DEF Post, Goto, Ask, IInv, TypeOK
<1>2. memory'[c] = p /\ \A id \in Ids : id # c => memory'[id] = memory[id]
  BY DEF Post, Write, IInv, TypeOK, Tables
<1>3. mixed \subseteq mixed' /\ UNCHANGED <<running, made, stale, astray>> BY DEF Post, Arrives
<1>4. \A g \in Handlers : pc[g] \notin Saving BY NobodySaves DEF Post
<1>5. c \notin mixed' => \A g \in Handlers : g # h /\ Working(g, c) =>
        req[g].op \notin {"size", "provision"}
  BY Comes DEF Post
<1>6. pc'[h] \notin {"idle", "change", "setup", "wait", "resize"} BY <1>1
<1> QED BY <1>1, <1>2, <1>3, <1>4, <1>5, <1>6, FollowStep

LEMMA LookUpFollows ==
  ASSUME IInv, Following, NEW h \in Handlers, NEW c \in Ids, NEW p \in Profiles, NEW op \in Ops,
         LookUp(h, op, c, p)
  PROVE  Following'
<1>1. /\ pc[h] = "idle" /\ pc'[h] = "change"
      /\ req'[h].id = c /\ req'[h].op = op /\ op \in {"patch", "delete", "size"}
      /\ \A g \in Handlers : g # h => pc'[g] = pc[g] /\ req'[g] = req[g]
  BY DEF LookUp, Goto, Ask, IInv, TypeOK
<1>2. mixed \subseteq mixed' /\ UNCHANGED <<memory, running, made, stale, astray>>
  BY DEF LookUp, Arrives
<1>3. c \notin mixed' => c \notin mixed /\ \A g \in Handlers : g # h /\ Working(g, c) =>
        req[g].op \notin {"size", "provision"} /\ op \notin {"size", "provision"}
  BY Comes DEF LookUp
<1>4. ASSUME c \notin mixed' \cup stale' \cup astray',
             \A g \in Handlers : g # h /\ Working(g, c) => pc[g] \in Looking
      PROVE  running'[c] = memory'[c]
  <2>1. ~Working(h, c) BY <1>1 DEF Working
  <2> QED BY <1>2, <1>3, <1>4, <2>1, Untouched
<1>5. pc'[h] \notin Saving /\ pc'[h] \notin {"setup", "wait", "resize"} BY <1>1 DEF Saving
<1> QED BY <1>1, <1>2, <1>3, <1>4, <1>5, FollowStep

\* A request that ends without a change.
LEMMA EndsFollows ==
  ASSUME IInv, Following, NEW h \in Handlers, Gone(h) \/ Refused(h) PROVE Following'
<1> DEFINE c == req[h].id
<1>1. /\ pc[h] \in Looking /\ pc[h] # "idle" /\ pc'[h] = "idle"
      /\ \A g \in Handlers : g # h => pc'[g] = pc[g] /\ req'[g] = req[g]
  BY DEF Gone, Refused, Goto, Answered, IInv, TypeOK, Looking
<1>2. UNCHANGED <<memory, running, made, stale, astray, mixed>> BY DEF Gone, Refused
<1>3. c \in Ids /\ (c \notin mixed => \A g \in Handlers : g # h /\ Working(g, c) =>
        req[g].op \notin {"size", "provision"})
  BY <1>1, Overlap
<1>4. ASSUME c \notin mixed' \cup stale' \cup astray',
             \A g \in Handlers : g # h /\ Working(g, c) => pc[g] \in Looking
      PROVE  running'[c] = memory'[c]
  BY <1>1, <1>2, <1>3, <1>4, Untouched
<1>5. pc'[h] \notin Saving /\ pc'[h] \notin {"change", "setup", "wait", "resize"} BY <1>1 DEF Saving
<1>6. pc[h] # "idle" => req[h].id = c OBVIOUS
<1> HIDE DEF c
<1> QED BY <1>1, <1>2, <1>3, <1>4, <1>5, <1>6, FollowStep

LEMMA PatchFollows ==
  ASSUME IInv, Following, NEW h \in Handlers, PatchOrDelete(h) PROVE Following'
<1> DEFINE c == req[h].id
<1>1. /\ pc[h] = "change" /\ pc'[h] = "save" /\ req' = req
      /\ \A g \in Handlers : g # h => pc'[g] = pc[g]
      /\ req[h].op \in {"patch", "delete"}
  BY DEF PatchOrDelete, Goto, IInv, TypeOK
<1>2. UNCHANGED <<running, made, stale, astray, mixed>> BY DEF PatchOrDelete
<1>3. c \in Ids /\ (c \notin mixed => \A g \in Handlers : g # h /\ Working(g, c) =>
        req[g].op \notin {"size", "provision"})
  BY <1>1, Overlap
<1>4. /\ \A id \in Ids : id # c => memory'[id] = memory[id]
      /\ req[h].op = "patch" => memory'[c] = req[h].next
      /\ req[h].op = "delete" => memory'[c] = NoCamera
  BY <1>3 DEF PatchOrDelete, Write, IInv, TypeOK, Tables
<1>5. \A g \in Handlers : pc[g] \notin Saving BY NobodySaves DEF PatchOrDelete
<1>6. pc'[h] \notin {"idle", "change", "setup", "wait", "resize"} BY <1>1
<1>7. pc[h] # "idle" => req[h].id = c OBVIOUS
<1> HIDE DEF c
<1> QED BY <1>1, <1>2, <1>3, <1>4, <1>5, <1>6, <1>7, FollowStep

-----------------------------------------------------------------------------
(* Device-config.                                                            *)

LEMMA Profile ==
  ASSUME NEW p \in Profiles, NEW s \in Sizes
  PROVE  /\ [p EXCEPT !.size = s] \in Profiles
         /\ p.size = s => [p EXCEPT !.size = s] = p
BY DEF Profiles

\* A device-config request that is at work on its own finds the runtime as configured.
LEMMA SizeFinds ==
  ASSUME IInv, Following, NEW h \in Handlers, pc[h] = "change", req[h].op = "size",
         req[h].id \notin mixed \cup stale \cup astray
  PROVE  running[req[h].id] = memory[req[h].id]
<1>1. \A g \in Handlers : Working(g, req[h].id) => pc[g] \in Looking BY Overlap DEF Looking
<1> QED BY <1>1, Overlap, Untouched

LEMMA ChangeSizeFollows ==
  ASSUME IInv, Following, NEW h \in Handlers, ChangeSize(h) PROVE Following'
<1>0. PICK c \in Ids : c = req[h].id BY Overlap DEF ChangeSize, Goto
<1> USE <1>0
<1>1. /\ pc[h] = "change" /\ pc'[h] = "save" /\ req' = req /\ req[h].op = "size"
      /\ \A g \in Handlers : g # h => pc'[g] = pc[g]
  BY DEF ChangeSize, Goto, IInv, TypeOK
<1>2. UNCHANGED <<running, made, stale, astray, mixed>> /\ memory[c] # NoCamera BY DEF ChangeSize
<1>3. c \in Ids /\ (c \notin mixed => \A g \in Handlers : g # h /\ Working(g, c) =>
        req[g].op \notin {"size", "provision"} /\ req[h].op \notin {"size", "provision"})
  BY <1>1, Overlap
<1>4. /\ \A id \in Ids : id # c => memory'[id] = memory[id]
      /\ memory'[c] = [memory[c] EXCEPT !.size = req[h].next.size]
  BY <1>3 DEF ChangeSize, Write, IInv, TypeOK, Tables
<1>5. \A g \in Handlers : pc[g] \notin Saving BY NobodySaves DEF ChangeSize
<1>6. pc'[h] \notin {"idle", "change", "setup", "wait", "resize"} BY <1>1
<1>7. c \notin mixed \cup stale \cup astray => Behind(h, c)'
  BY <1>1, <1>2, <1>4, SizeFinds DEF Behind
<1>8. pc[h] # "idle" => req[h].id = c OBVIOUS
<1> QED BY <1>1, <1>2, <1>3, <1>4, <1>5, <1>6, <1>7, <1>8, FollowStep

LEMMA SizeIsRightFollows ==
  ASSUME IInv, Following, NEW h \in Handlers, SizeIsRight(h) PROVE Following'
<1>0. PICK c \in Ids : c = req[h].id BY Overlap DEF SizeIsRight, Goto
<1> USE <1>0
<1>1. /\ pc[h] = "change" /\ pc'[h] = "resize" /\ req[h].op = "size"
      /\ req'[h] = [req[h] EXCEPT !.rt = made[c]]
      /\ \A g \in Handlers : g # h => pc'[g] = pc[g] /\ req'[g] = req[g]
  BY DEF SizeIsRight, Goto, IInv, TypeOK
<1>2. UNCHANGED <<memory, running, made, stale, astray, mixed>> BY DEF SizeIsRight
<1>3. c \in Ids /\ (c \notin mixed => \A g \in Handlers : g # h /\ Working(g, c) =>
        req[g].op \notin {"size", "provision"} /\ req[h].op \notin {"size", "provision"})
  BY <1>1, Overlap
<1>4. req[h] \in Request /\ memory[c] \in Profiles /\ memory[c].size = req[h].next.size
  BY <1>1, <1>3, Overlap DEF SizeIsRight, IInv, TypeOK, Tables
<1>5. /\ req'[h].op = "size" /\ req'[h].id = c /\ req'[h].rt = made[c]
      /\ req'[h].next = req[h].next
  BY <1>1, <1>4 DEF Request
<1>6. ASSUME c \notin mixed \cup stale \cup astray PROVE Behind(h, c)'
  <2>1. running[c] = memory[c] BY <1>1, <1>6, SizeFinds
  <2>2. req[h].next.size \in Sizes BY <1>4 DEF Request, Profiles
  <2>3. [memory[c] EXCEPT !.size = req[h].next.size] = memory[c] BY <1>4, <2>2, Profile
  <2> QED BY <1>2, <1>4, <1>5, <2>1, <2>3, NoneAssumption DEF Behind
<1>7. pc'[h] \notin Saving /\ pc'[h] \notin {"idle", "change", "setup", "wait"} BY <1>1 DEF Saving
<1>8. pc[h] # "idle" => req[h].id = c OBVIOUS
<1> QED BY <1>1, <1>2, <1>3, <1>5, <1>6, <1>7, <1>8, FollowStep

LEMMA ResizeFollows ==
  ASSUME IInv, Following, NEW h \in Handlers, Resize(h) PROVE Following'
<1>0. PICK c \in Ids : c = req[h].id BY Overlap DEF Resize, Goto
<1> USE <1>0
<1>1. /\ pc[h] = "resize" /\ pc'[h] = "idle"
      /\ \A g \in Handlers : g # h => pc'[g] = pc[g] /\ req'[g] = req[g]
  BY DEF Resize, Goto, Answered, IInv, TypeOK
<1>2. UNCHANGED <<memory, made, stale, astray, mixed>> BY DEF Resize
<1>3. c \in Ids /\ (c \notin mixed => \A g \in Handlers : g # h /\ Working(g, c) =>
        req[g].op \notin {"size", "provision"})
  BY <1>1, Overlap
<1>4. running' = IF running[c] # NoCamera /\ made[c] = req[h].rt
                 THEN [running EXCEPT ![c].size = req[h].next.size] ELSE running
  BY DEF Resize
<1>5. \A id \in Ids : id # c => running'[id] = running[id]
  BY <1>4 DEF IInv, TypeOK, Tables
<1>6. ASSUME c \notin mixed \cup stale \cup astray PROVE running'[c] = memory'[c]
  <2>1. Behind(h, c) BY <1>1, <1>3, <1>6 DEF Following, Agree, Working
  <2> QED BY <1>1, <1>2, <1>3, <1>4, <2>1 DEF Behind, IInv, TypeOK, Tables
<1>7. pc'[h] \notin Saving /\ pc'[h] \notin {"change", "setup", "wait", "resize"} BY <1>1 DEF Saving
<1>8. pc[h] # "idle" => req[h].id = c OBVIOUS
<1>9. ASSUME c \in astray, c \notin mixed PROVE OnSetup(c)'
  <2>1. OnSetup(c) BY <1>9 DEF Following, Lodged
  <2>2. running[c] \in Profiles BY <2>1 DEF OnSetup, IInv, TypeOK, Tables
  <2>3. CASE running' = running BY <2>1, <2>3 DEF OnSetup
  <2>4. CASE running' = [running EXCEPT ![c].size = req[h].next.size]
    <3>1. running'[c] = [running[c] EXCEPT !.size = req[h].next.size]
      BY <2>4 DEF IInv, TypeOK, Tables
    <3>2. req[h].next.size \in Sizes BY <1>1, Overlap DEF Request, Profiles
    <3>3. running'[c] \in Profiles BY <2>2, <3>1, <3>2, Profile
    <3>4. running'[c].rest = running[c].rest BY <2>2, <3>1 DEF Profiles
    <3> QED BY <2>1, <3>3, <3>4, NoneAssumption DEF OnSetup
  <2> QED BY <1>4, <2>3, <2>4
<1> QED BY <1>1, <1>2, <1>3, <1>5, <1>6, <1>7, <1>8, <1>9, FollowStep

-----------------------------------------------------------------------------
(* Provisioning.                                                             *)

LEMMA ProvisionReadsFollows ==
  ASSUME IInv, Following, NEW h \in Handlers, NEW c \in Ids, NEW s \in Sizes,
         ProvisionReads(h, c, s)
  PROVE  Following'
<1>1. /\ pc[h] = "idle" /\ pc'[h] = "setup"
      /\ req'[h].id = c /\ req'[h].op = "provision" /\ req'[h].existing = memory[c]
      /\ req'[h].next.rest = SetupRest
      /\ \A g \in Handlers : g # h => pc'[g] = pc[g] /\ req'[g] = req[g]
  BY DEF ProvisionReads, Goto, Ask, IInv, TypeOK
<1>2. mixed \subseteq mixed' /\ UNCHANGED <<memory, running, made, stale, astray>>
  BY DEF ProvisionReads, Arrives
<1>3. c \notin mixed' => c \notin mixed /\ \A g \in Handlers : g # h /\ Working(g, c) =>
        req[g].op \notin {"size", "provision"} /\ req'[h].op \notin {"size", "provision"}
  BY <1>1, Comes DEF ProvisionReads
<1>4. ASSUME c \notin mixed' \cup stale' \cup astray',
             \A g \in Handlers : g # h /\ Working(g, c) => pc[g] \in Looking
      PROVE  running'[c] = memory'[c]
  <2>1. ~Working(h, c) BY <1>1 DEF Working
  <2> QED BY <1>2, <1>3, <1>4, <2>1, Untouched
<1>5. pc'[h] \notin Saving /\ pc'[h] \notin {"idle", "change", "wait", "resize"} BY <1>1 DEF Saving
<1> QED BY <1>1, <1>2, <1>3, <1>4, <1>5, FollowStep

\* What provisioning remembers while it is alone.
LEMMA Remembers ==
  ASSUME IInv, Following, NEW h \in Handlers, pc[h] \in {"setup", "wait"}
  PROVE  /\ req[h].op = "provision"
         /\ req[h].id \notin mixed \cup stale => memory[req[h].id] = req[h].existing
<1>1. req[h].id \in Ids /\ Working(h, req[h].id) BY Overlap DEF Working
<1> QED BY <1>1 DEF Following, Routes, Agree

LEMMA ProvisionConnectsFollows ==
  ASSUME IInv, Following, NEW h \in Handlers, ProvisionConnects(h) PROVE Following'
<1>0. PICK c \in Ids : c = req[h].id BY Overlap DEF ProvisionConnects, Goto
<1> USE <1>0
<1>1. /\ pc[h] = "setup" /\ pc'[h] = "wait" /\ req' = req
      /\ \A g \in Handlers : g # h => pc'[g] = pc[g]
  BY DEF ProvisionConnects, Goto, IInv, TypeOK
<1>2. UNCHANGED <<memory, stale, astray, mixed>> BY DEF ProvisionConnects
<1>3. c \in Ids /\ (c \notin mixed => \A g \in Handlers : g # h /\ Working(g, c) =>
        req[g].op \notin {"size", "provision"} /\ req[h].op \notin {"size", "provision"})
  BY <1>1, Overlap
<1>4. /\ \A id \in Ids : id # c => running'[id] = running[id] /\ made'[id] = made[id]
      /\ running'[c] = req[h].next
  BY <1>3 DEF ProvisionConnects, Upsert, IInv, TypeOK, Tables
<1>5. req[h].op = "provision" /\ (c \notin mixed \cup stale => memory[c] = req[h].existing)
  BY <1>1, Remembers
<1>6. pc'[h] \notin Saving /\ pc'[h] \notin {"idle", "change", "setup", "resize"}
  BY <1>1 DEF Saving
<1>7. pc[h] # "idle" => req[h].id = c OBVIOUS
<1>8. OnSetup(c)'
  <2>1. req[h].next \in Profiles BY <1>1, Overlap DEF Request
  <2>2. req[h].next.rest = SetupRest BY <1>1 DEF Following, Routes
  <2> QED BY <1>4, <2>1, <2>2, NoneAssumption DEF OnSetup
<1> QED BY <1>1, <1>2, <1>3, <1>4, <1>5, <1>6, <1>7, <1>8, FollowStep

LEMMA ProvisionFailsFollows ==
  ASSUME IInv, Following, NEW h \in Handlers, ProvisionFails(h) PROVE Following'
<1> DEFINE c == req[h].id
<1>1. /\ pc[h] = "wait" /\ pc'[h] = "idle"
      /\ \A g \in Handlers : g # h => pc'[g] = pc[g] /\ req'[g] = req[g]
  BY DEF ProvisionFails, Goto, Answered, IInv, TypeOK
<1>2. UNCHANGED <<memory, stale, mixed>> /\ astray' = astray \ {c} BY DEF ProvisionFails
<1>3. c \in Ids /\ (c \notin mixed => \A g \in Handlers : g # h /\ Working(g, c) =>
        req[g].op \notin {"size", "provision"})
  BY <1>1, Overlap
<1>4. /\ \A id \in Ids : id # c => running'[id] = running[id] /\ made'[id] = made[id]
      /\ running'[c] = req[h].existing
  BY <1>3 DEF ProvisionFails, Upsert, RemoveRuntime, IInv, TypeOK, Tables
<1>5. c \notin mixed \cup stale => memory[c] = req[h].existing BY <1>1, Remembers
<1>6. pc'[h] \notin Saving /\ pc'[h] \notin {"change", "setup", "wait", "resize"} BY <1>1 DEF Saving
<1>7. pc[h] # "idle" => req[h].id = c OBVIOUS
<1> HIDE DEF c
<1> QED BY <1>1, <1>2, <1>3, <1>4, <1>5, <1>6, <1>7, FollowStep

LEMMA ProvisionStraysFollows ==
  ASSUME IInv, Following, NEW h \in Handlers, ProvisionStrays(h) PROVE Following'
<1>0. PICK c \in Ids : c = req[h].id BY Overlap DEF ProvisionStrays, Goto
<1> USE <1>0
<1>1. /\ pc[h] = "wait" /\ pc'[h] = "idle"
      /\ \A g \in Handlers : g # h => pc'[g] = pc[g] /\ req'[g] = req[g]
  BY DEF ProvisionStrays, Goto, Answered, IInv, TypeOK
<1>2. UNCHANGED <<memory, running, made, stale, mixed>> /\ astray' = astray \cup {c}
  BY DEF ProvisionStrays
<1>3. c \in Ids /\ (c \notin mixed => \A g \in Handlers : g # h /\ Working(g, c) =>
        req[g].op \notin {"size", "provision"})
  BY <1>1, Overlap
<1>4. c \notin mixed => OnSetup(c)'
  <2>1. Working(h, c) BY <1>1 DEF Working
  <2> QED BY <1>1, <1>2, <2>1 DEF Following, Lodged, OnSetup
<1>5. pc'[h] \notin Saving /\ pc'[h] \notin {"change", "setup", "wait", "resize"} BY <1>1 DEF Saving
<1>6. pc[h] # "idle" => req[h].id = c OBVIOUS
<1> QED BY <1>1, <1>2, <1>3, <1>4, <1>5, <1>6, FollowStep

LEMMA ProvisionChangesFollows ==
  ASSUME IInv, Following, NEW h \in Handlers, ProvisionChanges(h) PROVE Following'
<1> DEFINE c == req[h].id
           final == [req[h].next EXCEPT !.rest = LanRest]
<1>1. /\ pc[h] = "wait" /\ pc'[h] = "save" /\ req'[h] = [req[h] EXCEPT !.next = final]
      /\ \A g \in Handlers : g # h => pc'[g] = pc[g] /\ req'[g] = req[g]
  BY DEF ProvisionChanges, Goto, IInv, TypeOK
<1>2. UNCHANGED <<running, made, stale, astray, mixed>> BY DEF ProvisionChanges
<1>3. c \in Ids /\ (c \notin mixed => \A g \in Handlers : g # h /\ Working(g, c) =>
        req[g].op \notin {"size", "provision"} /\ req[h].op \notin {"size", "provision"})
  BY <1>1, Overlap
<1>4. memory'[c] = final /\ \A id \in Ids : id # c => memory'[id] = memory[id]
  BY <1>3 DEF ProvisionChanges, Write, IInv, TypeOK, Tables
<1>5. req[h].op = "provision" /\ req[h] \in Request BY <1>1, Remembers, Overlap
<1>6. req'[h].id = c /\ req'[h].op = "provision" /\ req'[h].next = final
  BY <1>1, <1>5 DEF Request
<1>7. \A g \in Handlers : pc[g] \notin Saving BY NobodySaves DEF ProvisionChanges
<1>8. pc'[h] \notin {"idle", "change", "setup", "wait", "resize"} BY <1>1
<1>9. pc[h] # "idle" => req[h].id = c OBVIOUS
<1> HIDE DEF c, final
<1> QED BY <1>1, <1>2, <1>3, <1>4, <1>5, <1>6, <1>7, <1>8, <1>9, FollowStep

-----------------------------------------------------------------------------
(* Saving.                                                                   *)

LEMMA TmpFollows ==
  ASSUME IInv, Following, NEW h \in Handlers, OpenTmp(h) \/ FillTmp(h) PROVE Following'
<1>0. PICK c \in Ids : c = req[h].id BY Overlap DEF OpenTmp, FillTmp, Goto
<1> USE <1>0
<1>1. /\ pc[h] \in Saving /\ pc'[h] \in Saving /\ req' = req
      /\ \A g \in Handlers : g # h => pc'[g] = pc[g]
  BY DEF OpenTmp, FillTmp, Goto, IInv, TypeOK, Saving
<1>2. UNCHANGED <<memory, running, made, stale, astray, mixed>> BY DEF OpenTmp, FillTmp
<1>3. c \in Ids /\ (c \notin mixed => \A g \in Handlers : g # h /\ Working(g, c) =>
        req[g].op \notin {"size", "provision"} /\ req[h].op \notin {"size", "provision"})
  BY <1>1, Overlap DEF Saving
<1>4. /\ req[h].op \in {"post", "patch", "provision"} => memory[c] = req[h].next
      /\ req[h].op = "delete" => memory[c] = NoCamera
  BY <1>1 DEF Following, Written
<1>5. pc'[h] \notin {"idle", "change", "setup", "wait", "resize"} BY <1>1 DEF Saving
<1>6. c \notin mixed \cup stale \cup astray /\ req[h].op = "size" => Behind(h, c)'
  BY <1>1, <1>2, <1>3, <1>5 DEF Following, Agree, Working, Behind, Saving
<1>7. pc[h] # "idle" => req[h].id = c OBVIOUS
<1> QED BY <1>1, <1>2, <1>3, <1>4, <1>5, <1>6, <1>7, FollowStep

LEMMA SaveFailsFollows ==
  ASSUME IInv, Following, NEW h \in Handlers, SaveFails(h) PROVE Following'
<1> DEFINE c == req[h].id
<1>1. /\ pc[h] \in Saving /\ pc'[h] = "idle"
      /\ \A g \in Handlers : g # h => pc'[g] = pc[g] /\ req'[g] = req[g]
  BY DEF SaveFails, Answered, IInv, TypeOK, Saving
<1>2. UNCHANGED <<memory, running, made, astray, mixed>> /\ stale' = stale \cup {c}
  BY DEF SaveFails
<1>3. c \in Ids /\ (c \notin mixed => \A g \in Handlers : g # h /\ Working(g, c) =>
        req[g].op \notin {"size", "provision"})
  BY <1>1, Overlap DEF Saving
<1>4. pc'[h] \notin Saving /\ pc'[h] \notin {"change", "setup", "wait", "resize"} BY <1>1 DEF Saving
<1>5. pc[h] # "idle" => req[h].id = c OBVIOUS
<1> HIDE DEF c
<1> QED BY <1>1, <1>2, <1>3, <1>4, <1>5, FollowStep

LEMMA CommitFollows ==
  ASSUME IInv, Following, NEW h \in Handlers, Commit(h) PROVE Following'
<1>0. PICK c \in Ids : c = req[h].id BY Overlap DEF Commit
<1> USE <1>0
<1>1. /\ pc[h] = "rename" /\ pc[h] \in Saving /\ pc[h] # "idle"
      /\ UNCHANGED <<memory, mixed>> /\ req[h] \in Request
  BY Overlap DEF Commit, Saving
<1>2. c \in Ids /\ (c \notin mixed => \A g \in Handlers : g # h /\ Working(g, c) =>
        req[g].op \notin {"size", "provision"} /\ req[h].op \notin {"size", "provision"})
  BY <1>1, Overlap
<1>3. /\ req[h].op \in {"post", "patch", "provision"} => memory[c] = req[h].next
      /\ req[h].op = "delete" => memory[c] = NoCamera
  BY <1>1 DEF Following, Written
<1>4. pc[h] # "idle" => req[h].id = c OBVIOUS
<1>5. CASE req[h].op = "size"
  <2>1. /\ pc'[h] = "resize" /\ req'[h] = [req[h] EXCEPT !.rt = made[c]]
        /\ \A g \in Handlers : g # h => pc'[g] = pc[g] /\ req'[g] = req[g]
        /\ UNCHANGED <<running, made, stale, astray>>
    BY <1>5 DEF Commit, IInv, TypeOK
  <2>2. /\ req'[h].op = "size" /\ req'[h].id = c /\ req'[h].rt = made[c]
        /\ req'[h].next = req[h].next
    BY <1>1, <1>5, <2>1 DEF Request
  <2>3. ASSUME c \notin mixed \cup stale \cup astray PROVE Behind(h, c)'
    <3>1. Behind(h, c) BY <1>1, <1>2, <1>5, <2>3 DEF Following, Agree, Working
    <3> QED BY <1>1, <2>1, <2>2, <3>1 DEF Behind
  <2>4. pc'[h] \notin Saving /\ pc'[h] \notin {"idle", "change", "setup", "wait"}
    BY <2>1 DEF Saving
  <2> QED BY <1>1, <1>2, <1>4, <1>5, <2>1, <2>2, <2>3, <2>4, FollowStep
<1>6. CASE req[h].op # "size"
  <2>1. /\ pc'[h] = "idle" /\ \A g \in Handlers : g # h => pc'[g] = pc[g] /\ req'[g] = req[g]
        /\ stale' = stale \ {c} /\ astray' = astray \ {c}
    BY <1>6 DEF Commit, Answered, IInv, TypeOK
  <2>2. /\ \A id \in Ids : id # c => running'[id] = running[id] /\ made'[id] = made[id]
        /\ running'[c] = memory[c]
    BY <1>2, <1>3, <1>6 DEF Commit, Upsert, RemoveRuntime, IInv, TypeOK, Tables
  <2>3. pc'[h] \notin Saving /\ pc'[h] \notin {"change", "setup", "wait", "resize"}
    BY <2>1 DEF Saving
  <2> QED BY <1>1, <1>2, <1>4, <2>1, <2>2, <2>3, FollowStep
<1> QED BY <1>5, <1>6

LEMMA CrashFollows == ASSUME IInv, Crash PROVE Following'
BY DEF Crash, Boot, Following, Routes, Alone, Written, Lodged, Agree, Working, Saving

LEMMA FollowingStep == ASSUME IInv, Following, [Next]_vars PROVE Following'
<1>1. CASE UNCHANGED vars
  BY <1>1 DEF vars, Following, Routes, Alone, Written, Lodged, Agree, Behind, Working, OnSetup
<1> QED
  BY <1>1, PostFollows, LookUpFollows, EndsFollows, PatchFollows, ChangeSizeFollows,
     SizeIsRightFollows, ResizeFollows, ProvisionReadsFollows, ProvisionConnectsFollows,
     ProvisionFailsFollows, ProvisionStraysFollows, ProvisionChangesFollows, TmpFollows,
     SaveFailsFollows, CommitFollows, CrashFollows
  DEF Next, HandlerStep

\* A runtime has the profile that is configured, and there is one for every configured
\* camera and no other, once no request is about to change it and unless a save failed,
\* except where provisioning that failed at its end has left the setup profile: POST,
\* PATCH and DELETE may overlap in any way, and crashes may come at any step.
THEOREM Follow == Spec => []RuntimesFollow
<1>1. Init => IInv /\ Following BY InitType, InitLocking, InitFollowing DEF IInv
<1>2. IInv /\ Following /\ [Next]_vars => IInv' /\ Following'
  BY StepType, LockStep, FollowingStep DEF IInv
<1>3. ASSUME IInv, Following PROVE RuntimesFollow
  <2> SUFFICES ASSUME NEW id \in Ids, Free, id \notin stale \cup mixed,
                      \A h \in Handlers : pc[h] \in {"wait", "resize"} => req[h].id # id
               PROVE  IF id \in astray THEN OnSetup(id) ELSE running[id] = memory[id]
    BY DEF RuntimesFollow
  <2>1. \A h \in Handlers : pc[h] \notin Saving BY <1>3, NobodySaves
  <2>2. \A h \in Handlers : Working(h, id) => pc[h] \in Looking
    BY <1>3, <2>1 DEF Working, Saving, Looking, IInv, TypeOK
  <2>3. id \in astray => OnSetup(id) BY <1>3 DEF Following, Lodged
  <2>4. id \notin astray => running[id] = memory[id] BY <1>3, <2>2, Untouched
  <2> QED BY <2>3, <2>4
<1> QED BY <1>1, <1>2, <1>3, PTL DEF Spec

-----------------------------------------------------------------------------
(* What requests make of one profile: CameraProfile.                         *)

IsProfile(c) == IsPart(c) /\ DOMAIN c = Fields

InRange(c) == c.overlaySize \in 0 .. 3 /\ c.ackRepeats \in 0 .. 9

LEMMA FieldNames ==
  /\ Fields = {"name", "ip", "discovery", "localAddress", "psk", "username", "password",
               "width", "height", "overlaySize", "ackRepeats", "enabled", "avStream", "verbose"}
  /\ Numbers \subseteq Fields /\ Switches \subseteq Fields
BY DEF Fields, Texts, Numbers, Switches

\* What a profile has of numbers and switches.
LEMMA ProfileParts ==
  ASSUME NEW c, IsProfile(c)
  PROVE  /\ c.width \in Int /\ c.height \in Int /\ c.overlaySize \in Int /\ c.ackRepeats \in Int
         /\ c.enabled \in {"yes", "no", ""} /\ c.avStream \in {"yes", "no", ""}
         /\ c.verbose \in {"yes", "no", ""}
BY FieldNames DEF IsProfile, IsPart, Numbers, Switches

\* What is in effect, field by field.
LEMMA EffectiveNumbers ==
  ASSUME NEW c
  PROVE  /\ Effective(c, "width") = (IF c.width > 0 THEN c.width ELSE 640)
         /\ Effective(c, "height") = (IF c.height > 0 THEN c.height ELSE 480)
         /\ Effective(c, "overlaySize") = Clamp(c.overlaySize, 1, 3)
         /\ Effective(c, "ackRepeats") =
              (IF c.ackRepeats < 1 THEN 3 ELSE Clamp(c.ackRepeats, 1, 9))
BY DEF Effective

LEMMA EffectiveTexts ==
  ASSUME NEW c
  PROVE  /\ Effective(c, "name") = Or(c.name, Id)
         /\ Effective(c, "discovery") = Or(c.discovery, Or(c.ip, Broadcast))
         /\ Effective(c, "psk") = Or(c.psk, "SHIX")
         /\ Effective(c, "username") = Or(c.username, "admin")
         /\ Effective(c, "password") = Or(c.password, "6666")
         /\ Effective(c, "enabled") = Or(c.enabled, "yes")
         /\ Effective(c, "avStream") = Or(c.avStream, "yes")
         /\ Effective(c, "ip") = c.ip
         /\ Effective(c, "localAddress") = c.localAddress
         /\ Effective(c, "verbose") = c.verbose
BY DEF Effective

\* What is in effect has the type of what is stored.
LEMMA EffectiveType ==
  ASSUME NEW c, IsProfile(c)
  PROVE  /\ \A f \in Numbers : Effective(c, f) \in Int
         /\ \A f \in Switches : Effective(c, f) \in {"yes", "no", ""}
<1>0. PICK w \in Int, h \in Int, o \in Int, a \in Int :
        w = c.width /\ h = c.height /\ o = c.overlaySize /\ a = c.ackRepeats
  BY ProfileParts
<1>1. Effective(c, "width") \in Int /\ Effective(c, "height") \in Int
  <2>1. Effective(c, "width") = IF w > 0 THEN w ELSE 640
    BY <1>0, EffectiveNumbers
  <2>2. Effective(c, "height") = IF h > 0 THEN h ELSE 480
    BY <1>0, EffectiveNumbers
  <2> QED BY <2>1, <2>2
<1>2. Effective(c, "overlaySize") \in Int /\ Effective(c, "ackRepeats") \in Int
  <2>1. Effective(c, "overlaySize") = Clamp(o, 1, 3)
    BY <1>0, EffectiveNumbers
  <2>2. Effective(c, "ackRepeats") = IF a < 1 THEN 3 ELSE Clamp(a, 1, 9)
    BY <1>0, EffectiveNumbers
  <2> QED BY <2>1, <2>2 DEF Clamp
<1>3. /\ Effective(c, "enabled") \in {"yes", "no", ""}
      /\ Effective(c, "avStream") \in {"yes", "no", ""}
      /\ Effective(c, "verbose") \in {"yes", "no", ""}
  BY ProfileParts, EffectiveTexts DEF Or
<1> QED BY <1>1, <1>2, <1>3 DEF Numbers, Switches

LEMMA ClampType ==
  ASSUME NEW n \in Int, NEW low \in Int, NEW high \in Int, low <= high
  PROVE  /\ Clamp(n, low, high) \in Int /\ low <= Clamp(n, low, high) /\ Clamp(n, low, high) <= high
         /\ Clamp(Clamp(n, low, high), low, high) = Clamp(n, low, high)
         /\ low <= n /\ n <= high => Clamp(n, low, high) = n
BY DEF Clamp

\* What normalizeCamera takes for a field, before it brings numbers within range.
Ip(c, b) == IF "ip" \in DOMAIN b THEN b.ip ELSE c.ip

Taken(c, b, f) == IF f \in Given(b) THEN b[f] ELSE Default(c, Ip(c, b), f)

LEMMA GivenPart == ASSUME NEW b PROVE Given(b) \subseteq DOMAIN b
BY DEF Given

LEMMA TakenType ==
  ASSUME NEW c, IsProfile(c), NEW b, IsPart(b)
  PROVE  /\ \A f \in Numbers : Taken(c, b, f) \in Int
         /\ \A f \in Switches : Taken(c, b, f) \in {"yes", "no", ""}
<1>1. \A f \in Numbers \cup Switches : Default(c, Ip(c, b), f) = Effective(c, f)
  BY DEF Default, Numbers, Switches
<1>2. \A f \in Given(b) : (f \in Numbers => b[f] \in Int) /\
                          (f \in Switches => b[f] \in {"yes", "no", ""})
  BY GivenPart DEF IsPart
<1> QED BY <1>1, <1>2, EffectiveType DEF Taken

LEMMA NormalFields ==
  ASSUME NEW c, NEW b
  PROVE  LET n == NormalizeCamera(c, b) IN
         /\ DOMAIN n = Fields
         /\ n.overlaySize = Clamp(Taken(c, b, "overlaySize"), 1, 3)
         /\ n.ackRepeats = Clamp(Taken(c, b, "ackRepeats"), 1, 9)
         /\ \A f \in Fields \ {"overlaySize", "ackRepeats"} : n[f] = Taken(c, b, f)
<1> PICK t : t = [f \in Fields |-> IF f \in Given(b) THEN b[f] ELSE Default(c, Ip(c, b), f)]
  OBVIOUS
<1>1. NormalizeCamera(c, b) = WithinRange(t)
  BY DEF NormalizeCamera, Ip
<1>2. DOMAIN t = Fields /\ \A f \in Fields : t[f] = Taken(c, b, f)
  BY DEF Taken
<1>3. WithinRange(t) = [f \in Fields |-> IF f = "ackRepeats" THEN Clamp(t.ackRepeats, 1, 9)
                                         ELSE IF f = "overlaySize" THEN Clamp(t.overlaySize, 1, 3)
                                         ELSE t[f]]
  BY <1>2, FieldNames DEF WithinRange
<1> QED BY <1>1, <1>2, <1>3, FieldNames

\* Numbers that have a range are brought within it.
LEMMA NormalType ==
  ASSUME NEW c, IsProfile(c), NEW b, IsPart(b)
  PROVE  IsProfile(NormalizeCamera(c, b)) /\ InRange(NormalizeCamera(c, b))
<1> PICK n : n = NormalizeCamera(c, b)
  OBVIOUS
<1>1. /\ DOMAIN n = Fields
      /\ n.overlaySize = Clamp(Taken(c, b, "overlaySize"), 1, 3)
      /\ n.ackRepeats = Clamp(Taken(c, b, "ackRepeats"), 1, 9)
      /\ \A f \in Fields \ {"overlaySize", "ackRepeats"} : n[f] = Taken(c, b, f)
  BY NormalFields
<1>2. Taken(c, b, "overlaySize") \in Int /\ Taken(c, b, "ackRepeats") \in Int
  BY TakenType DEF Numbers
<1>3. /\ n.overlaySize \in Int /\ 1 <= n.overlaySize /\ n.overlaySize <= 3
      /\ n.ackRepeats \in Int /\ 1 <= n.ackRepeats /\ n.ackRepeats <= 9
  <2> PICK o \in Int, a \in Int : o = Taken(c, b, "overlaySize") /\ a = Taken(c, b, "ackRepeats")
    BY <1>2
  <2>1. n.overlaySize = Clamp(o, 1, 3) /\ n.ackRepeats = Clamp(a, 1, 9)
    BY <1>1
  <2> QED BY <2>1 DEF Clamp
<1>4. n.width \in Int /\ n.height \in Int
  BY <1>1, TakenType DEF Numbers, Fields
<1>5. \A f \in Switches : n[f] \in {"yes", "no", ""}
  BY <1>1, TakenType DEF Switches, Fields
<1>6. \A f \in Numbers : n[f] \in Int
  BY <1>3, <1>4 DEF Numbers
<1>7. IsProfile(n)
  BY <1>1, <1>5, <1>6 DEF IsProfile, IsPart
<1>8. InRange(n)
  BY <1>3 DEF InRange
<1> QED BY <1>7, <1>8

\* A field that normalizeCamera takes from what is in effect stays in effect, although
\* defaults and limits are applied again when it is read.
LEMMA Idempotent ==
  ASSUME NEW c, IsProfile(c), NEW b, IsPart(b), NEW f \in Fields,
         Taken(c, b, f) = Effective(c, f)
  PROVE  Effective(NormalizeCamera(c, b), f) = Effective(c, f)
<1> PICK n : n = NormalizeCamera(c, b)
  OBVIOUS
<1>1. /\ n.overlaySize = Clamp(Taken(c, b, "overlaySize"), 1, 3)
      /\ n.ackRepeats = Clamp(Taken(c, b, "ackRepeats"), 1, 9)
      /\ \A g \in Fields \ {"overlaySize", "ackRepeats"} : n[g] = Taken(c, b, g)
  BY NormalFields
<1>2. PICK w \in Int, h \in Int, o \in Int, a \in Int :
        w = c.width /\ h = c.height /\ o = c.overlaySize /\ a = c.ackRepeats
  BY ProfileParts
<1>3. CASE f \in {"name", "psk", "username", "password", "enabled", "avStream"}
  <2>1. n[f] = Effective(c, f)
    BY <1>1, <1>3
  <2>2. PICK default : \A z : Effective(z, f) = Or(z[f], default)
    <3>1. CASE f = "name"  BY <3>1, EffectiveTexts
    <3>2. CASE f = "psk"  BY <3>2, EffectiveTexts
    <3>3. CASE f = "username"  BY <3>3, EffectiveTexts
    <3>4. CASE f = "password"  BY <3>4, EffectiveTexts
    <3>5. CASE f \in {"enabled", "avStream"}  BY <3>5, EffectiveTexts
    <3> QED BY <1>3, <3>1, <3>2, <3>3, <3>4, <3>5
  <2>3. Effective(n, f) = Or(n[f], default) /\ Effective(c, f) = Or(c[f], default)
    BY <2>2
  <2> QED BY <2>1, <2>3 DEF Or
<1>4. CASE f \in {"ip", "localAddress", "verbose"}
  <2>1. n[f] = Effective(c, f)
    BY <1>1, <1>4
  <2> QED BY <1>4, <2>1, EffectiveTexts
<1>5. CASE f = "discovery"
  <2>1. n.discovery = Effective(c, f) /\ Effective(c, f) # ""
    BY <1>1, <1>5, EffectiveTexts, AddressAssumption DEF Or
  <2> QED BY <1>5, <2>1, EffectiveTexts DEF Or
<1>6. CASE f = "width"
  <2>1. n.width = IF w > 0 THEN w ELSE 640
    BY <1>1, <1>2, <1>6, EffectiveNumbers
  <2>2. Effective(n, f) = IF n.width > 0 THEN n.width ELSE 640
    BY <1>6, EffectiveNumbers
  <2>3. Effective(c, f) = IF w > 0 THEN w ELSE 640
    BY <1>2, <1>6, EffectiveNumbers
  <2> QED BY <2>1, <2>2, <2>3
<1>7. CASE f = "height"
  <2>1. n.height = IF h > 0 THEN h ELSE 480
    BY <1>1, <1>2, <1>7, EffectiveNumbers
  <2>2. Effective(n, f) = IF n.height > 0 THEN n.height ELSE 480
    BY <1>7, EffectiveNumbers
  <2>3. Effective(c, f) = IF h > 0 THEN h ELSE 480
    BY <1>2, <1>7, EffectiveNumbers
  <2> QED BY <2>1, <2>2, <2>3
<1>8. CASE f = "overlaySize"
  <2>1. n.overlaySize = Clamp(Clamp(o, 1, 3), 1, 3)
    BY <1>1, <1>2, <1>8, EffectiveNumbers
  <2>2. Effective(n, f) = Clamp(n.overlaySize, 1, 3)
    BY <1>8, EffectiveNumbers
  <2>3. Effective(c, f) = Clamp(o, 1, 3)
    BY <1>2, <1>8, EffectiveNumbers
  <2> QED BY <2>1, <2>2, <2>3 DEF Clamp
<1>9. CASE f = "ackRepeats"
  <2>1. n.ackRepeats = Clamp(IF a < 1 THEN 3 ELSE Clamp(a, 1, 9), 1, 9)
    BY <1>1, <1>2, <1>9, EffectiveNumbers
  <2>2. Effective(n, f) = IF n.ackRepeats < 1 THEN 3 ELSE Clamp(n.ackRepeats, 1, 9)
    BY <1>9, EffectiveNumbers
  <2>3. Effective(c, f) = IF a < 1 THEN 3 ELSE Clamp(a, 1, 9)
    BY <1>2, <1>9, EffectiveNumbers
  <2> QED BY <2>1, <2>2, <2>3 DEF Clamp
<1> QED BY <1>3, <1>4, <1>5, <1>6, <1>7, <1>8, <1>9, FieldNames

\* Without a value a field keeps what is in effect; discovery does if it was given once
\* or the IP stays.
LEMMA NotGiven ==
  ASSUME NEW c, NEW b, NEW f \in Fields, f \notin Given(b),
         f = "discovery" => c.discovery # "" \/ Ip(c, b) = c.ip
  PROVE  Taken(c, b, f) = Effective(c, f)
<1>1. Taken(c, b, f) = Default(c, Ip(c, b), f)
  BY DEF Taken
<1>2. CASE f # "discovery"
  BY <1>1, <1>2 DEF Default
<1>3. CASE f = "discovery"
  BY <1>1, <1>3, EffectiveTexts DEF Default, Or
<1> QED BY <1>2, <1>3

LEMMA PatchEffective ==
  ASSUME NEW b, IsPart(b), cam # None, IsProfile(cam), NEW f \in Fields \ About(b)
  PROVE  Effective(NormalizeCamera(cam, b), f) = Effective(cam, f)
<1>1. f \notin Given(b)
  BY DEF About
<1>2. f = "discovery" => cam.discovery # "" \/ Ip(cam, b) = cam.ip
  BY DEF About, Ip
<1> QED BY <1>1, <1>2, NotGiven, Idempotent

-----------------------------------------------------------------------------
(* The form.                                                                 *)

LEMMA FormFields ==
  ASSUME NEW c, IsProfile(c), NEW hidden
  PROVE  /\ DOMAIN Form(c, hidden) \subseteq Fields \ {"password", "verbose"}
         /\ \A f \in DOMAIN Form(c, hidden) : Form(c, hidden)[f] = Public(c, f)
         /\ \A f \in Fields \ (hidden \cup {"password", "verbose"}) :
              f \notin DOMAIN Form(c, hidden) => f \notin Numbers /\ Public(c, f) = ""
BY DEF Form

LEMMA FormType == ASSUME NEW c, IsProfile(c), NEW hidden PROVE IsPart(Form(c, hidden))
<1>1. \A f \in Numbers \cup Switches : Public(c, f) = Effective(c, f)
  BY DEF Public, Numbers, Switches
<1>2. PICK form : form = Form(c, hidden)
  OBVIOUS
<1>3. DOMAIN form \subseteq Fields /\ \A f \in DOMAIN form : form[f] = Public(c, f)
  BY <1>2, FormFields
<1>4. ASSUME NEW f \in DOMAIN form
      PROVE  (f \in Numbers => form[f] \in Int) /\ (f \in Switches => form[f] \in {"yes", "no", ""})
  BY <1>1, <1>3, EffectiveType
<1> QED BY <1>2, <1>3, <1>4 DEF IsPart

LEMMA OverrideType ==
  ASSUME NEW b, IsPart(b), NEW e, IsPart(e)
  PROVE  IsPart(Override(b, e))
BY DEF IsPart, Override

LEMMA FormEffective ==
  ASSUME NEW e, IsPart(e), IsProfile(cam), NEW f \in Fields \ About(e),
         NEW hidden \in {{}, Expert}
  PROVE  Effective(NormalizeCamera(cam, Override(Form(cam, hidden), e)), f) = Effective(cam, f)
<1> PICK b : b = Override(Form(cam, hidden), e)
  OBVIOUS
<1>1. IsPart(b)
  BY FormType, OverrideType
<1>2. /\ DOMAIN b = DOMAIN Form(cam, hidden) \cup DOMAIN e
      /\ \A g \in DOMAIN e : b[g] = e[g]
      /\ \A g \in DOMAIN Form(cam, hidden) \ DOMAIN e : b[g] = Public(cam, g)
  <2> PICK form : form = Form(cam, hidden)
    OBVIOUS
  <2>1. \A g \in DOMAIN form : form[g] = Public(cam, g)
    BY FormFields
  <2>2. /\ DOMAIN b = DOMAIN form \cup DOMAIN e
        /\ \A g \in DOMAIN form \cup DOMAIN e : b[g] = IF g \in DOMAIN e THEN e[g] ELSE form[g]
    <3>1. b = Override(form, e)
      OBVIOUS
    <3> QED BY <3>1 DEF Override
  <2> QED BY <2>1, <2>2
<1>3. f \notin Given(e)
  BY DEF About
<1>4. CASE f \in DOMAIN e
  <2>1. f = "password" /\ b[f] = ""
    BY <1>2, <1>3, <1>4 DEF Given
  <2>2. f \notin Given(b) /\ f # "discovery"
    BY <2>1 DEF Given
  <2> QED BY <1>1, <2>2, NotGiven, Idempotent
<1>5. CASE f \in DOMAIN Form(cam, hidden) \ DOMAIN e
  <2>1. f \in DOMAIN b /\ f # "password" /\ b[f] = Public(cam, f)
    BY <1>2, <1>5, FormFields
  <2>2. f \in Given(b)
    BY <2>1 DEF Given
  <2>3. Taken(cam, b, f) = Public(cam, f)
    BY <2>1, <2>2 DEF Taken
  <2>4. CASE f # "discovery"
    <3>1. Public(cam, f) = Effective(cam, f)
      BY <2>4 DEF Public
    <3> QED BY <1>1, <2>3, <3>1, Idempotent
  <2>5. CASE f = "discovery"
    <3>1. cam.discovery # ""
      BY <1>5, <2>5 DEF Form, Public, Numbers
    <3>2. Public(cam, f) = Effective(cam, f)
      BY <2>5, <3>1, EffectiveTexts DEF Public, Or
    <3> QED BY <1>1, <2>3, <3>2, Idempotent
  <2> QED BY <2>4, <2>5
<1>6. CASE f \notin DOMAIN e /\ f \notin DOMAIN Form(cam, hidden)
  <2>1. f \notin Given(b)
    BY <1>2, <1>6, GivenPart
  <2>2. CASE f # "discovery"
    BY <1>1, <2>1, <2>2, NotGiven, Idempotent
  <2>3. CASE f = "discovery"
    <3>1. cam.discovery = ""
      BY <1>6, <2>3, FormFields DEF Public, Expert
    <3>2. "ip" \notin DOMAIN e
      BY <2>3, <3>1 DEF About
    <3>3. Public(cam, "ip") = cam.ip
      BY EffectiveTexts DEF Public
    <3>4. Ip(cam, b) = cam.ip
      BY <1>2, <3>2, <3>3 DEF Ip
    <3> QED BY <1>1, <2>1, <3>4, NotGiven, Idempotent
  <2> QED BY <2>2, <2>3
<1> QED BY <1>4, <1>5, <1>6

-----------------------------------------------------------------------------
(* Provisioning, and the theorems about profiles.                            *)

InSetup(c, b) ==
  LET ip == Get(b, "setupIp", "") IN
  [f \in Fields |->
    CASE f = "ip" -> ip
      [] f = "discovery" -> Get(b, "setupDiscovery", Or(ip, Broadcast))
      [] f = "enabled" -> "yes"
      [] OTHER -> Get(b, f, Effective(c, f))]

InNetwork(setup, b) ==
  LET ip == Get(b, "finalIp", "") IN
  [name |-> setup.name, ip |-> ip,
   discovery |-> Get(b, "finalDiscovery", Or(ip, Lan)), enabled |-> "yes"]

LEMMA SetupParts ==
  ASSUME NEW c, NEW b
  PROVE  /\ SetupCamera(c, b) = NormalizeCamera(c, InSetup(c, b))
         /\ FinalCamera(c, b) = NormalizeCamera(c, InNetwork(c, b))
BY DEF SetupCamera, InSetup, FinalCamera, InNetwork

LEMMA InSetupFields ==
  ASSUME NEW c, NEW b
  PROVE  /\ DOMAIN InSetup(c, b) = Fields
         /\ InSetup(c, b)["enabled"] = "yes"
         /\ \A f \in Fields \ {"ip", "discovery", "enabled"} :
              InSetup(c, b)[f] = Get(b, f, Effective(c, f))
BY FieldNames DEF InSetup

LEMMA InSetupType ==
  ASSUME NEW c, IsProfile(c), NEW b, IsPart([f \in DOMAIN b \ SetupFields |-> b[f]])
  PROVE  IsPart(InSetup(c, b))
<1> PICK s : s = InSetup(c, b)
  OBVIOUS
<1>1. /\ DOMAIN s = Fields /\ s["enabled"] = "yes"
      /\ \A f \in Fields \ {"ip", "discovery", "enabled"} : s[f] = Get(b, f, Effective(c, f))
  BY InSetupFields
<1>2. \A f \in DOMAIN b \ SetupFields :
        (f \in Numbers => b[f] \in Int) /\ (f \in Switches => b[f] \in {"yes", "no", ""})
  BY DEF IsPart
<1>3. ASSUME NEW f \in Numbers PROVE s[f] \in Int
  <2>1. f \notin SetupFields /\ s[f] = Get(b, f, Effective(c, f))
    BY <1>1, <1>3 DEF Numbers, SetupFields, Fields
  <2>2. f \in Given(b) => b[f] \in Int
    BY <1>2, <2>1, GivenPart
  <2>3. Effective(c, f) \in Int
    BY EffectiveType
  <2> QED BY <2>1, <2>2, <2>3 DEF Get
<1>4. ASSUME NEW f \in Switches PROVE s[f] \in {"yes", "no", ""}
  <2>1. f \notin SetupFields /\ (f # "enabled" => s[f] = Get(b, f, Effective(c, f)))
    BY <1>1, <1>4 DEF Switches, SetupFields, Fields
  <2>2. f \in Given(b) => b[f] \in {"yes", "no", ""}
    BY <1>2, <2>1, GivenPart
  <2>3. Effective(c, f) \in {"yes", "no", ""}
    BY EffectiveType
  <2> QED BY <1>1, <2>1, <2>2, <2>3 DEF Get
<1> QED BY <1>1, <1>3, <1>4 DEF IsPart

LEMMA InNetworkType == ASSUME NEW c, NEW b PROVE IsPart(InNetwork(c, b))
<1> PICK n : n = InNetwork(c, b)
  OBVIOUS
<1>1. DOMAIN n = {"name", "ip", "discovery", "enabled"} /\ n.enabled = "yes"
  BY DEF InNetwork
<1>2. \A f \in DOMAIN n : f \in Fields /\ f \notin Numbers /\ (f \in Switches => f = "enabled")
  BY <1>1, FieldNames DEF Numbers, Switches
<1>3. \A f \in DOMAIN n : f \in Switches => n[f] \in {"yes", "no", ""}
  BY <1>1, <1>2
<1> QED BY <1>2, <1>3 DEF IsPart

LEMMA ProvisionType ==
  ASSUME NEW c, IsProfile(c), NEW b \in Setups
  PROVE  LET setup == SetupCamera(c, b) IN
         IsProfile(setup) /\ IsProfile(FinalCamera(setup, b)) /\ InRange(FinalCamera(setup, b))
<1>1. IsPart(InSetup(c, b))
  BY InSetupType, InputAssumption
<1>2. PICK setup : setup = SetupCamera(c, b)
  OBVIOUS
<1>3. IsProfile(setup)
  BY <1>1, <1>2, SetupParts, NormalType
<1>4. IsPart(InNetwork(setup, b))
  BY InNetworkType
<1>5. IsProfile(FinalCamera(setup, b)) /\ InRange(FinalCamera(setup, b))
  BY <1>3, <1>4, SetupParts, NormalType
<1> QED BY <1>2, <1>3, <1>5

LEMMA ProvisionEffective ==
  ASSUME NEW c, IsProfile(c), NEW b \in Setups,
         NEW f \in Fields \ (Given(b) \cup {"ip", "discovery", "enabled"})
  PROVE  Effective(FinalCamera(SetupCamera(c, b), b), f) = Effective(c, f)
<1> PICK setup, s, n : /\ setup = SetupCamera(c, b) /\ s = InSetup(c, b)
                       /\ n = InNetwork(setup, b)
  OBVIOUS
<1>1. IsPart(s) /\ setup = NormalizeCamera(c, s) /\ IsProfile(setup)
  BY InSetupType, InputAssumption, SetupParts, NormalType
<1>2. IsPart(n) /\ FinalCamera(setup, b) = NormalizeCamera(setup, n)
  BY InNetworkType, SetupParts
<1>3. s[f] = Effective(c, f)
  BY InSetupFields DEF Get
<1>4. Taken(c, s, f) = Effective(c, f)
  <2>1. CASE f \in Given(s)
    BY <1>3, <2>1 DEF Taken
  <2>2. CASE f \notin Given(s)
    BY <2>2, NotGiven
  <2> QED BY <2>1, <2>2
<1>5. Effective(setup, f) = Effective(c, f)
  BY <1>1, <1>4, Idempotent
<1>6. Taken(setup, n, f) = Effective(setup, f)
  <2>1. DOMAIN n = {"name", "ip", "discovery", "enabled"} /\ n.name = setup.name
    BY DEF InNetwork
  <2>2. CASE f = "name"
    <3>1. "name" \in Given(n)
      BY <2>1 DEF Given
    <3>2. setup.name = Taken(c, s, f)
      BY <1>1, <2>2, NormalFields
    <3> QED BY <1>4, <1>5, <2>1, <2>2, <3>1, <3>2 DEF Taken
  <2>3. CASE f # "name"
    <3>1. f \notin Given(n)
      BY <2>1, <2>3, GivenPart
    <3> QED BY <3>1, NotGiven
  <2> QED BY <2>2, <2>3
<1>7. Effective(NormalizeCamera(setup, n), f) = Effective(setup, f)
  BY <1>1, <1>2, <1>6, Idempotent
<1> QED BY <1>2, <1>5, <1>7

LEMMA EmptyType == IsProfile(Empty)
<1>1. DOMAIN Empty = Fields
  BY DEF Empty
<1>2. \A f \in Numbers : Empty[f] = 0
  BY FieldNames DEF Empty
<1>3. \A f \in Switches : Empty[f] \in {"no", ""}
  BY FieldNames DEF Empty, Numbers, Switches
<1>4. \A f \in Numbers : Empty[f] \in Int
  BY <1>2
<1>5. \A f \in Switches : Empty[f] \in {"yes", "no", ""}
  BY <1>3
<1>6. IsPart(Empty)
  BY <1>1, <1>4, <1>5 DEF IsPart
<1> QED BY <1>1, <1>6 DEF IsProfile

\* The profile after any request.
LEMMA ProfileStep == ASSUME ProfileTypeOK, [ProfileNext]_profile PROVE ProfileTypeOK'
<1>1. ASSUME NEW c, NEW fields, IsProfile(c), InRange(c), fields \subseteq Fields, Stores(c, fields)
      PROVE  ProfileTypeOK'
  BY <1>1 DEF Stores, ProfileTypeOK, IsProfile, InRange
<1>2. cam # None => IsProfile(cam)
  BY DEF ProfileTypeOK, IsProfile
<1>3. \A b \in Bodies \cup Edits : IsPart(b) /\ (cam # None => About(b) \subseteq Fields)
  BY InputAssumption, GivenPart, FieldNames DEF About, IsPart
<1>4. ASSUME NEW b \in Bodies, PostProfile(b) PROVE ProfileTypeOK'
  <2>1. IsProfile(NormalizeCamera(Empty, b)) /\ InRange(NormalizeCamera(Empty, b))
    BY <1>3, EmptyType, NormalType
  <2> QED BY <1>1, <1>4, <2>1 DEF PostProfile
<1>5. ASSUME NEW b \in Bodies, PatchProfile(b) PROVE ProfileTypeOK'
  <2>1. IsProfile(NormalizeCamera(cam, b)) /\ InRange(NormalizeCamera(cam, b))
    BY <1>2, <1>3, <1>5, NormalType DEF PatchProfile
  <2> QED BY <1>1, <1>3, <1>5, <2>1 DEF PatchProfile
<1>6. ASSUME NEW e \in Edits, SavesForm(e) PROVE ProfileTypeOK'
  <2>1. PICK hidden \in {{}, Expert} :
          cam # None /\ Stores(NormalizeCamera(cam, Override(Form(cam, hidden), e)), About(e))
    BY <1>6 DEF SavesForm
  <2> PICK b : b = Override(Form(cam, hidden), e)
    OBVIOUS
  <2>2. cam # None /\ Stores(NormalizeCamera(cam, b), About(e))
    BY <2>1
  <2>3. IsPart(b)
    BY <1>2, <1>3, <2>2, FormType, OverrideType
  <2>4. IsProfile(NormalizeCamera(cam, b)) /\ InRange(NormalizeCamera(cam, b))
    BY <1>2, <2>2, <2>3, NormalType
  <2> QED BY <1>1, <1>3, <2>2, <2>4
<1>7. ASSUME NEW b \in Setups, Provision(b) PROVE ProfileTypeOK'
  <2> PICK c, setup : c = (IF cam = None THEN Empty ELSE cam) /\ setup = SetupCamera(c, b)
    OBVIOUS
  <2>1. IsProfile(c)
    BY <1>2, EmptyType
  <2>2. IsProfile(FinalCamera(setup, b)) /\ InRange(FinalCamera(setup, b))
    BY <2>1, ProvisionType
  <2>3. Stores(FinalCamera(setup, b), (Given(b) \cap Fields) \cup {"ip", "discovery", "enabled"})
    BY <1>7 DEF Provision
  <2>4. (Given(b) \cap Fields) \cup {"ip", "discovery", "enabled"} \subseteq Fields
    BY FieldNames
  <2> QED BY <1>1, <2>2, <2>3, <2>4
<1>8. ASSUME NEW w \in Int, NEW h \in Int, SetCameraProfileSize(w, h) PROVE ProfileTypeOK'
  <2>1. IsProfile(cam) /\ InRange(cam) /\ cam' = [cam EXCEPT !.width = w, !.height = h]
    BY <1>8 DEF SetCameraProfileSize, ProfileTypeOK, IsProfile, InRange
  <2>2. /\ DOMAIN cam' = Fields /\ cam'.width = w /\ cam'.height = h
        /\ \A f \in Fields \ {"width", "height"} : cam'[f] = cam[f]
    BY <2>1, FieldNames DEF IsProfile
  <2>3. \A f \in Switches : cam'[f] \in {"yes", "no", ""}
    BY <2>1, <2>2, FieldNames DEF IsProfile, IsPart, Switches
  <2>4. \A f \in Numbers : cam'[f] \in Int
    BY <1>8, <2>1, <2>2, FieldNames DEF IsProfile, IsPart, Numbers
  <2>5. cam'.overlaySize = cam.overlaySize /\ cam'.ackRepeats = cam.ackRepeats
    BY <2>2, FieldNames
  <2>6. asked' \subseteq Fields
    BY <1>8, FieldNames DEF SetCameraProfileSize
  <2> QED BY <2>1, <2>2, <2>3, <2>4, <2>5, <2>6 DEF ProfileTypeOK, IsPart, InRange
<1>9. CASE DeleteProfile
  BY <1>9 DEF DeleteProfile, ProfileTypeOK
<1>10. CASE UNCHANGED profile
  BY <1>10 DEF profile, ProfileTypeOK, IsPart
<1> QED BY <1>4, <1>5, <1>6, <1>7, <1>8, <1>9, <1>10 DEF ProfileNext

\* Whatever files, requests and the form hold, the numbers of a profile stay within their
\* range, its switches are switches, and it has all fields.
THEOREM ProfilesTyped == ProfileSpec => []ProfileTypeOK
<1>1. ProfileInit => ProfileTypeOK
  BY InputAssumption DEF ProfileInit, ProfileTypeOK
<1> QED BY <1>1, ProfileStep, PTL DEF ProfileSpec

\* No request changes what is in effect of a profile but for what it is about, for any
\* profile, body and edit.
THEOREM OthersStay == ProfileSpec => OnlyWhatIsAsked
<1>1. ASSUME ProfileTypeOK, [ProfileNext]_profile, cam # None, cam' # None,
             NEW f \in Fields \ asked'
      PROVE  Effective(cam', f) = Effective(cam, f)
  <2>1. IsProfile(cam)
    BY <1>1 DEF ProfileTypeOK, IsProfile
  <2>2. \A b \in Bodies \cup Edits : IsPart(b)
    BY InputAssumption
  <2>3. ASSUME NEW b \in Bodies, PostProfile(b) PROVE FALSE
    BY <1>1, <2>3 DEF PostProfile
  <2>4. ASSUME NEW b \in Bodies, PatchProfile(b) PROVE Effective(cam', f) = Effective(cam, f)
    <3>1. cam' = NormalizeCamera(cam, b) /\ asked' = About(b)
      BY <2>4 DEF PatchProfile, Stores
    <3> QED BY <1>1, <2>1, <2>2, <3>1, PatchEffective
  <2>5. ASSUME NEW e \in Edits, SavesForm(e) PROVE Effective(cam', f) = Effective(cam, f)
    <3>1. PICK hidden \in {{}, Expert} :
            cam' = NormalizeCamera(cam, Override(Form(cam, hidden), e)) /\ asked' = About(e)
      BY <2>5 DEF SavesForm, Stores
    <3> QED BY <2>1, <2>2, <3>1, FormEffective
  <2>6. ASSUME NEW b \in Setups, Provision(b) PROVE Effective(cam', f) = Effective(cam, f)
    <3>1. /\ cam' = FinalCamera(SetupCamera(cam, b), b)
          /\ asked' = (Given(b) \cap Fields) \cup {"ip", "discovery", "enabled"}
      BY <1>1, <2>6 DEF Provision, Stores
    <3>2. f \in Fields \ (Given(b) \cup {"ip", "discovery", "enabled"})
      BY <3>1
    <3> QED BY <2>1, <3>1, <3>2, ProvisionEffective
  <2>7. ASSUME NEW w \in Int, NEW h \in Int, SetCameraProfileSize(w, h)
        PROVE  Effective(cam', f) = Effective(cam, f)
    <3>1. cam' = [cam EXCEPT !.width = w, !.height = h] /\ f \notin {"width", "height"}
      BY <2>7 DEF SetCameraProfileSize
    <3>2. \A g \in Fields \ {"width", "height"} : cam'[g] = cam[g]
      BY <2>1, <3>1 DEF IsProfile
    <3>3. /\ cam'.name = cam.name /\ cam'.discovery = cam.discovery /\ cam'.ip = cam.ip
          /\ cam'.psk = cam.psk /\ cam'.username = cam.username
          /\ cam'.password = cam.password /\ cam'.localAddress = cam.localAddress
          /\ cam'.enabled = cam.enabled /\ cam'.avStream = cam.avStream
          /\ cam'.verbose = cam.verbose /\ cam'.overlaySize = cam.overlaySize
          /\ cam'.ackRepeats = cam.ackRepeats
      BY <3>2, FieldNames
    <3>4. CASE f \in {"overlaySize", "ackRepeats"}
      BY <3>3, <3>4, EffectiveNumbers
    <3>5. CASE f \notin {"overlaySize", "ackRepeats"}
      <4>1. f \in {"name", "ip", "discovery", "localAddress", "psk", "username", "password",
                   "enabled", "avStream", "verbose"}
        BY <3>1, <3>5, FieldNames
      <4>2. CASE f \in {"name", "discovery", "psk", "username", "password"}
        BY <3>3, <4>2, EffectiveTexts
      <4>3. CASE f \in {"ip", "localAddress", "enabled", "avStream", "verbose"}
        BY <3>3, <4>3, EffectiveTexts
      <4> QED BY <4>1, <4>2, <4>3
    <3> QED BY <3>4, <3>5
  <2>8. CASE DeleteProfile
    BY <1>1, <2>8 DEF DeleteProfile
  <2>9. CASE UNCHANGED profile
    BY <2>9 DEF profile
  <2> QED BY <1>1, <2>3, <2>4, <2>5, <2>6, <2>7, <2>8, <2>9 DEF ProfileNext
<1>2. ProfileTypeOK /\ [ProfileNext]_profile =>
        [cam # None /\ cam' # None =>
           \A f \in Fields \ asked' : Effective(cam', f) = Effective(cam, f)]_profile
  BY <1>1
<1>3. ProfileSpec => []ProfileTypeOK
  BY ProfilesTyped
<1> QED BY <1>2, <1>3, PTL DEF ProfileSpec, OnlyWhatIsAsked
=============================================================================

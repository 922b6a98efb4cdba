------------------------- MODULE CameraConfigStore -------------------------
(***************************************************************************)
(* App of bkcam-go/main.go: the camera profiles in memory, the file they   *)
(* are saved to, and the runtimes that work with copies of them.  Requests *)
(* change all three under App.mu, but look at the camera under an earlier  *)
(* lock, wait for it to answer in between, and may fail to save.  The      *)
(* program may be killed and started again at any time.                    *)
(*                                                                         *)
(* A profile is its stream size and the rest of it.  A runtime is the      *)
(* profile it works with; what it does with it is CameraRuntime.           *)
(***************************************************************************)
EXTENDS Naturals

CONSTANTS
  Ids,          \* camera ids
  Sizes,        \* 640x480 and 320x240
  Rests,        \* all other fields: name, address, enabled, ...
  SetupRest,    \* what provisioning fills in to reach the camera in setup mode
  LanRest,      \*   and once it has joined the network
  NoCamera,     \* no camera of this id
  Torn,         \* a file cut short
  Handlers,     \* goroutines that serve API requests
  NoRequest,    \* a handler has nothing to do
  NoHandler,    \* nobody holds App.mu for writing
  Ops,          \* the requests that are made
  MaxRequests,  \* bound: requests
  MaxCrashes    \* bound: restarts of the program

Profiles == [size : Sizes, rest : Rests]
Tables == [Ids -> Profiles \cup {NoCamera}]

Request == [op : {"post", "patch", "delete", "size", "provision"}, id : Ids,
            next : Profiles, existing : Profiles \cup {NoCamera}, rt : Nat]

ASSUME RestsAssumption == SetupRest \in Rests /\ LanRest \in Rests
ASSUME NoneAssumption ==
  NoCamera \notin Profiles /\ Torn \notin Tables
  /\ NoRequest \notin Request /\ NoHandler \notin Handlers
ASSUME OpsAssumption ==
  Ops \subseteq {"post", "patch", "delete", "size", "provision"}
ASSUME BoundsAssumption == MaxRequests \in Nat /\ MaxCrashes \in Nat

VARIABLES
  memory,    \* a.config.Cameras
  disk,      \* config.json
  tmp,       \* the temporary file of the save in progress, Torn while there is
             \* none or it is incomplete
  running,   \* rt.cfg of the runtimes in a.runtimes
  made,      \* how many runtimes a camera has had since the program started
  lock,      \* the handler that holds App.mu for writing
  pc,        \* where a handler is
  req,       \* its request: the profile to write (next), the profile read
             \* (existing), and which runtime it holds (rt, as counted by made)
  stale,     \* cameras with a change that could not be saved
  astray,    \* cameras whose runtime a provisioning that failed has left with the
             \* setup profile
  mixed,     \* cameras for which a device-config or provisioning request has been
             \* served at the same time as another request
  requests,  \* so far, for the bounds
  crashes

vars == <<memory, disk, tmp, running, made, lock, pc, req, stale, astray, mixed, requests,
          crashes>>

\* Memory and file hold tables of whole profiles: a file that is half written is never
\* the one that is read.
TypeOK ==
  /\ memory \in Tables /\ disk \in Tables /\ running \in Tables
  /\ tmp \in Tables \cup {Torn}
  /\ made \in [Ids -> Nat]
  /\ lock \in Handlers \cup {NoHandler}
  /\ pc \in [Handlers -> {"idle", "change", "save", "fill", "rename", "resize",
                          "setup", "wait"}]
  /\ req \in [Handlers -> Request \cup {NoRequest}]
  /\ \A h \in Handlers : pc[h] = "idle" <=> req[h] = NoRequest
  /\ stale \subseteq Ids /\ astray \subseteq Ids /\ mixed \subseteq Ids
  /\ requests \in Nat /\ crashes \in Nat

\* main: the configuration, and a runtime for every camera in it.
Boot(table) ==
  /\ running' = table
  /\ made' = [id \in Ids |-> IF table[id] = NoCamera THEN 0 ELSE 1]
  /\ tmp' = Torn
  /\ lock' = NoHandler
  /\ pc' = [h \in Handlers |-> "idle"]
  /\ req' = [h \in Handlers |-> NoRequest]
  /\ stale' = {} /\ astray' = {} /\ mixed' = {}

Init ==
  /\ disk \in Tables
  /\ memory = disk /\ running = disk
  /\ made = [id \in Ids |-> IF disk[id] = NoCamera THEN 0 ELSE 1]
  /\ tmp = Torn
  /\ lock = NoHandler
  /\ pc = [h \in Handlers |-> "idle"]
  /\ req = [h \in Handlers |-> NoRequest]
  /\ stale = {} /\ astray = {} /\ mixed = {}
  /\ requests = 0 /\ crashes = 0

-----------------------------------------------------------------------------
Free == lock = NoHandler

Goto(h, from, to) == pc[h] = from /\ pc' = [pc EXCEPT ![h] = to]

Ask(op, id, next, existing) ==
  [op |-> op, id |-> id, next |-> next, existing |-> existing, rt |-> 0]

\* The request has been answered.
Answered(h) == req' = [req EXCEPT ![h] = NoRequest]

\* A request comes in, for its first step to take up.
Arrives(h, op, id) ==
  /\ pc[h] = "idle" /\ op \in Ops
  /\ requests < MaxRequests
  /\ requests' = requests + 1
  /\ mixed' = IF \E g \in Handlers : /\ pc[g] # "idle" /\ req[g].id = id
                                     /\ {op, req[g].op} \cap {"size", "provision"} # {}
              THEN mixed \cup {id} ELSE mixed

\* upsertRuntimeLocked and removeRuntimeLocked.
Upsert(id, p) ==
  /\ running' = [running EXCEPT ![id] = p]
  /\ made' = IF running[id] = NoCamera THEN [made EXCEPT ![id] = @ + 1] ELSE made

RemoveRuntime(id) ==
  /\ running' = [running EXCEPT ![id] = NoCamera]
  /\ UNCHANGED made

BugWrite(h, id, p) ==
  /\ memory' = [memory EXCEPT ![id] = p]
  /\ lock' = NoHandler

\* Under App.mu: the profile changes in memory, then it is saved.
Write(h, id, p) ==
  /\ memory' = [memory EXCEPT ![id] = p]
  /\ lock' = h

-----------------------------------------------------------------------------
(* Requests, up to the change in memory.                                   *)

\* POST of a new camera; normalizeCamera has made a profile of the body.
Post(h, id, p) ==
  /\ Arrives(h, "post", id)
  /\ Free /\ memory[id] = NoCamera
  /\ Goto(h, "idle", "save")
  /\ req' = [req EXCEPT ![h] = Ask("post", id, p, NoCamera)]
  /\ Write(h, id, p)
  /\ UNCHANGED <<disk, tmp, running, made, stale, astray, crashes>>

\* PATCH, DELETE and device-config look the camera and its runtime up and
\* release the lock.  A PATCH then merges the body into the profile it has
\* seen, and any profile may be the result; device-config gives a size only.
LookUp(h, op, id, p) ==
  /\ op \in {"patch", "delete", "size"}
  /\ Arrives(h, op, id)
  /\ Free /\ memory[id] # NoCamera /\ running[id] # NoCamera
  /\ Goto(h, "idle", "change")
  /\ req' = [req EXCEPT ![h] = Ask(op, id, p, NoCamera)]
  /\ UNCHANGED <<memory, disk, tmp, running, made, lock, stale, astray, crashes>>

\* The camera is gone by the time of the second lock: 404.
Gone(h) ==
  /\ Goto(h, "change", "idle")
  /\ Free /\ memory[req[h].id] = NoCamera
  /\ Answered(h)
  /\ UNCHANGED <<memory, disk, tmp, running, made, lock, stale, astray, mixed, requests, crashes>>

\* The body makes no profile, be it a setup profile, or the camera did not take the
\* command: an error.
Refused(h) ==
  /\ \/ Goto(h, "change", "idle") /\ req[h].op # "delete"
     \/ Goto(h, "setup", "idle")
  /\ Answered(h)
  /\ UNCHANGED <<memory, disk, tmp, running, made, lock, stale, astray, mixed, requests, crashes>>

BugPatchOrDelete(h) ==
  LET r == req[h] IN
  /\ Goto(h, "change", "save")
  /\ Free
  /\ \/ r.op = "patch"  /\ Write(h, r.id, r.next)
     \/ r.op = "delete" /\ Write(h, r.id, NoCamera)
  /\ UNCHANGED <<disk, tmp, running, made, req, stale, astray, mixed, requests, crashes>>

PatchOrDelete(h) ==
  LET r == req[h] IN
  /\ Goto(h, "change", "save")
  /\ Free /\ memory[r.id] # NoCamera
  /\ \/ r.op = "patch"  /\ Write(h, r.id, r.next)
     \/ r.op = "delete" /\ Write(h, r.id, NoCamera)
  /\ UNCHANGED <<disk, tmp, running, made, req, stale, astray, mixed, requests, crashes>>

\* setCameraProfileSize changes the size of the profile it finds.
ChangeSize(h) ==
  LET r == req[h] IN
  /\ Goto(h, "change", "save")
  /\ Free /\ r.op = "size" /\ memory[r.id] # NoCamera
  /\ memory[r.id].size # r.next.size
  /\ Write(h, r.id, [memory[r.id] EXCEPT !.size = r.next.size])
  /\ UNCHANGED <<disk, tmp, running, made, req, stale, astray, mixed, requests, crashes>>

\* It saves nothing when the size is already right, but goes on to the runtime.
SizeIsRight(h) ==
  LET r == req[h] IN
  /\ Goto(h, "change", "resize")
  /\ Free /\ r.op = "size" /\ memory[r.id] # NoCamera
  /\ memory[r.id].size = r.next.size
  /\ req' = [req EXCEPT ![h].rt = made[r.id]]
  /\ UNCHANGED <<memory, disk, tmp, running, made, lock, stale, astray, mixed, requests, crashes>>

-----------------------------------------------------------------------------
(* provisionCamera.                                                        *)

\* It remembers the profile of the camera, if it has one, for the way back.
ProvisionReads(h, id, s) ==
  /\ Arrives(h, "provision", id)
  /\ Free
  /\ Goto(h, "idle", "setup")
  /\ req' = [req EXCEPT ![h] =
               Ask("provision", id, [size |-> s, rest |-> SetupRest], memory[id])]
  /\ UNCHANGED <<memory, disk, tmp, running, made, lock, stale, astray, crashes>>

\* A runtime with the setup profile, which is in no configuration, connects.
ProvisionConnects(h) ==
  /\ Free
  /\ Goto(h, "setup", "wait")
  /\ Upsert(req[h].id, req[h].next)
  /\ UNCHANGED <<memory, disk, tmp, lock, req, stale, astray, mixed, requests, crashes>>

BugProvisionFails(h) ==
  /\ Free
  /\ Goto(h, "wait", "idle")
  /\ RemoveRuntime(req[h].id)
  /\ astray' = astray \ {req[h].id}
  /\ Answered(h)
  /\ UNCHANGED <<memory, disk, tmp, lock, stale, mixed, requests, crashes>>

\* The camera does not answer within 18s, or not to set_wifi.
ProvisionFails(h) ==
  LET r == req[h] IN
  /\ Free
  /\ Goto(h, "wait", "idle")
  /\ \/ r.existing # NoCamera /\ Upsert(r.id, r.existing)
     \/ r.existing = NoCamera /\ RemoveRuntime(r.id)
  /\ astray' = astray \ {r.id}
  /\ Answered(h)
  /\ UNCHANGED <<memory, disk, tmp, lock, stale, mixed, requests, crashes>>

\* It has taken them, but the body makes no profile for the network it joins (an
\* empty finalDiscovery without a finalIp): an error, and the runtime stays as it is.
ProvisionStrays(h) ==
  /\ Goto(h, "wait", "idle")
  /\ astray' = astray \cup {req[h].id}
  /\ Answered(h)
  /\ UNCHANGED <<memory, disk, tmp, running, made, lock, stale, mixed, requests, crashes>>

\* It has taken the Wi-Fi settings: its profile is added or replaced.
ProvisionChanges(h) ==
  LET final == [req[h].next EXCEPT !.rest = LanRest] IN
  /\ Free
  /\ Goto(h, "wait", "save")
  /\ req' = [req EXCEPT ![h].next = final]
  /\ Write(h, req[h].id, final)
  /\ UNCHANGED <<disk, tmp, running, made, stale, astray, mixed, requests, crashes>>

-----------------------------------------------------------------------------
(* saveConfigLocked, and what follows it.                                  *)

BugOpenTmp(h) ==
  /\ Goto(h, "save", "fill")
  /\ disk' = Torn
  /\ UNCHANGED <<memory, tmp, running, made, lock, req, stale, astray, mixed, requests, crashes>>

OpenTmp(h) ==
  /\ Goto(h, "save", "fill")
  /\ tmp' = Torn
  /\ UNCHANGED <<memory, disk, running, made, lock, req, stale, astray, mixed, requests, crashes>>

FillTmp(h) ==
  /\ Goto(h, "fill", "rename")
  /\ tmp' = memory
  /\ UNCHANGED <<memory, disk, running, made, lock, req, stale, astray, mixed, requests, crashes>>

\* An error from the file system: the request fails, and the change stays in
\* memory without the runtime being told.
SaveFails(h) ==
  /\ pc[h] \in {"save", "fill", "rename"}
  /\ pc' = [pc EXCEPT ![h] = "idle"]
  /\ lock' = NoHandler
  /\ stale' = stale \cup {req[h].id}
  /\ Answered(h)
  /\ tmp' = Torn
  /\ UNCHANGED <<memory, disk, running, made, astray, mixed, requests, crashes>>

\* The rename commits the change; then the runtime follows, still under the
\* lock, except that device-config has only taken hold of it.
Commit(h) ==
  LET r == req[h] IN
  /\ pc[h] = "rename"
  /\ pc' = [pc EXCEPT ![h] = IF r.op = "size" THEN "resize" ELSE "idle"]
  /\ disk' = tmp
  /\ tmp' = Torn
  /\ lock' = NoHandler
  /\ IF r.op = "size" THEN UNCHANGED <<stale, astray>>
                      ELSE stale' = stale \ {r.id} /\ astray' = astray \ {r.id}
  /\ \/ r.op \in {"post", "patch", "provision"} /\ Upsert(r.id, r.next) /\ Answered(h)
     \/ r.op = "delete" /\ RemoveRuntime(r.id) /\ Answered(h)
     \/ r.op = "size" /\ req' = [req EXCEPT ![h].rt = made[r.id]]
                      /\ UNCHANGED <<running, made>>
  /\ UNCHANGED <<memory, mixed, requests, crashes>>

\* SetProfileSize, after the lock: seen by nobody if that runtime is no longer
\* the one of the camera.
Resize(h) ==
  LET r == req[h] IN
  /\ Goto(h, "resize", "idle")
  /\ running' = IF running[r.id] # NoCamera /\ made[r.id] = r.rt
                THEN [running EXCEPT ![r.id].size = r.next.size] ELSE running
  /\ Answered(h)
  /\ UNCHANGED <<memory, disk, tmp, made, lock, stale, astray, mixed, requests, crashes>>

\* The program is killed and started again: loadConfig reads the file.
Crash ==
  /\ crashes < MaxCrashes
  /\ crashes' = crashes + 1
  /\ memory' = disk
  /\ Boot(disk)
  /\ UNCHANGED <<disk, requests>>

-----------------------------------------------------------------------------
HandlerStep(h) ==
  \/ \E id \in Ids, p \in Profiles : Post(h, id, p)
  \/ \E id \in Ids, p \in Profiles, op \in Ops : LookUp(h, op, id, p)
  \/ Gone(h) \/ Refused(h) \/ PatchOrDelete(h) \/ ChangeSize(h) \/ SizeIsRight(h)
  \/ \E id \in Ids, s \in Sizes : ProvisionReads(h, id, s)
  \/ ProvisionConnects(h) \/ ProvisionFails(h) \/ ProvisionStrays(h)
  \/ ProvisionChanges(h)
  \/ OpenTmp(h) \/ FillTmp(h) \/ SaveFails(h) \/ Commit(h)
  \/ Resize(h)

Next == (\E h \in Handlers : HandlerStep(h)) \/ Crash

Spec == Init /\ [][Next]_vars

-----------------------------------------------------------------------------
(* Safety.                                                                 *)

\* Between requests, memory and file differ only where a save has failed.
SavedUnlessFailed ==
  Free => \A id \in Ids : disk[id] # memory[id] => id \in stale

\* The runtime of a camera that is being set up.
OnSetup(id) == running[id] # NoCamera /\ running[id].rest = SetupRest

\* A runtime works with the profile that is configured, and exists only for a
\* configured camera, once no request is about to change it and unless a save
\* failed: a request that has changed the configuration has changed the runtime.
\* The exception is provisioning that fails at its end, after the camera has taken
\* the Wi-Fi settings: it leaves the runtime with the setup profile, configured or
\* not, until a later request for the camera changes it.
\* POST, PATCH and DELETE may overlap as they like; device-config and provisioning
\* touch the runtime outside the lock of their change, so that this is true of
\* them only while they are alone with their camera.
RuntimesFollow ==
  \A id \in Ids :
    /\ Free /\ id \notin stale \cup mixed
    /\ \A h \in Handlers : pc[h] \in {"wait", "resize"} => req[h].id # id
    => IF id \in astray THEN OnSetup(id) ELSE running[id] = memory[id]

\* A camera that is in neither memory nor file comes back through POST or
\* provisioning only: no PATCH or change of size that was under way when it was
\* deleted, no later save and no restart brings it back.
DeletedStaysDeleted ==
  [][\A id \in Ids :
       memory[id] = NoCamera /\ disk[id] = NoCamera /\ memory'[id] # NoCamera
       => \E h \in Handlers :
            pc[h] \in {"idle", "wait"} /\ pc'[h] = "save" /\ req'[h].id = id]_vars

\* The table on disk is whole at every moment, and is one that was in memory
\* when it was written; a restart goes back to it.
Store == INSTANCE ConfigStore
RefinesStore == Store!Spec

\* What these rest on: App.mu is held by the handler that saves, and the
\* temporary file is what is in memory when it is renamed.
Locking ==
  /\ \A h \in Handlers : pc[h] \in {"save", "fill", "rename"} <=> lock = h
  /\ \A h \in Handlers : pc[h] = "rename" => tmp = memory
  /\ \A id \in Ids : disk[id] # memory[id] =>
       id \in stale \/ (lock # NoHandler /\ req[lock].id = id)

IInv == TypeOK /\ Locking
=============================================================================

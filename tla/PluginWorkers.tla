------------------------------ MODULE PluginWorkers ------------------------------
(***************************************************************************)
(* The pool of persistent plugin processes: app/plugin_manager.py on the   *)
(* server's side of the pipes and app/plugin_worker.py on the other, with  *)
(* the two routes that drive them (plugin_widget_data, update_plugin_state)*)
(* and the two sweeps that end the processes with the server.              *)
(*                                                                         *)
(* A request is one GET /plugins/data/{tile_id}.  It reads the plugin's    *)
(* row on the event loop, then runs in a thread of the default executor.   *)
(* A request starts at most one process, so a process is named after the   *)
(* request whose thread started it, and want[w] is also the key of w in    *)
(* _WORKERS.                                                               *)
(***************************************************************************)
EXTENDS Naturals, Sequences, FiniteSets

CONSTANTS
  Requests,       \* the calls of GET /plugins/data/{tile_id}
  Modules,        \* the pairs (plugin_id, module_path)
  OneShot,        \* the modules whose manifest does not ask for a persistent worker
  Grants,         \* values of a plugin_states row: approvals and secret references
  Sufficient,     \* the grants with every required permission and secret
  Server,         \* the thread that runs shutdown_plugin_workers
  None,           \* Python's None
  PoolSize,       \* threads of the default executor
  MaxDisk,        \* bound: versions of a module's file and secret values
  MaxAdmin,       \* bound: calls of PUT /plugins/{plugin_id}
  MaxSpawnFaults  \* bound: calls of Popen that raise

ASSUME ConstantsAssumption ==
  /\ OneShot \subseteq Modules
  /\ Sufficient \subseteq Grants
  /\ Server \notin Requests
  /\ None \notin Requests
  /\ PoolSize \in Nat \ {0}
  /\ MaxDisk \in Nat \ {0}
  /\ MaxAdmin \in Nat
  /\ MaxSpawnFaults \in Nat

VARIABLES
  enabled,      \* plugin_states.enabled of each module's plugin
  grant,        \* plugin_states.approvals_json and secret_refs_json
  disk,         \* what a thread reads from disk: the module's mtime, the secrets' values
  edits,        \* admin calls so far
  pc,           \* where each request stands
  want,         \* the key each request computed
  worker,       \* the process each request talks to
  outcome,      \* how each request ended
  got,          \* whose answer a request took from its worker's queue
  cache,        \* the values of _WORKERS
  stale,        \* the processes each thread still has to close
  spawnFaults,  \* how often Popen raised
  proc,         \* each process: "closing" is running with its stdin closed
  inbox,        \* request lines written to a process and not yet rendered
  outbox,       \* _responses: lines read from a process and not yet taken
  loaded,       \* the version of the module's file a process imported, 0 before
  lock,         \* the request that holds each worker's _lock
  server        \* the life of the server

adminVars  == <<enabled, grant, disk, edits>>
threadVars == <<pc, want, worker, outcome, got>>
poolVars   == <<cache, stale, spawnFaults>>
procVars   == <<proc, inbox, outbox, loaded>>
vars == <<adminVars, threadVars, poolVars, procVars, lock, server>>

Agents == Requests \cup {Server}

Keys == [module : Modules, grant : Grants, disk : 0..MaxDisk]

Line == [req : Requests, ok : BOOLEAN]

(* A request that occupies a thread of the executor.                       *)
InThread == {"lookup", "replacing", "request", "waiting", "abandoning", "oneshot"}

ModuleOf(r) == want[r].module

Alive(w) == proc[w] \in {"up", "closing"}

PoolFree ==
  Cardinality({r \in Requests : pc[r] \in InThread})
    + (IF server = "sweeping" THEN 1 ELSE 0) < PoolSize

(* Ending a process: it takes no more lines and its unread lines are lost. *)
Die(w) ==
  /\ proc' = [proc EXCEPT ![w] = "dead"]
  /\ inbox' = [inbox EXCEPT ![w] = <<>>]
  /\ UNCHANGED <<outbox, loaded>>

Finish(r, how) ==
  /\ pc' = [pc EXCEPT ![r] = "done"]
  /\ outcome' = [outcome EXCEPT ![r] = how]

-----------------------------------------------------------------------------
Init ==
  /\ enabled = [m \in Modules |-> TRUE]
  /\ grant \in [Modules -> Grants]
  /\ disk = [m \in Modules |-> 1]
  /\ edits = 0
  /\ pc = [r \in Requests |-> "idle"]
  /\ want = [r \in Requests |-> None]
  /\ worker = [r \in Requests |-> None]
  /\ outcome = [r \in Requests |-> "none"]
  /\ got = [r \in Requests |-> None]
  /\ cache = {}
  /\ stale = [a \in Agents |-> {}]
  /\ spawnFaults = 0
  /\ proc = [w \in Requests |-> "none"]
  /\ inbox = [w \in Requests |-> <<>>]
  /\ outbox = [w \in Requests |-> <<>>]
  /\ loaded = [w \in Requests |-> 0]
  /\ lock = [w \in Requests |-> None]
  /\ server = "up"

-----------------------------------------------------------------------------
(* The administrator and the disk.                                         *)

UpdatePluginState(m, e, g) ==
  /\ server = "up"
  /\ edits < MaxAdmin
  /\ edits' = edits + 1
  /\ enabled' = [enabled EXCEPT ![m] = e]
  /\ grant' = [grant EXCEPT ![m] = g]
  /\ UNCHANGED <<disk, threadVars, poolVars, procVars, lock, server>>

EditDisk(m) ==
  /\ server = "up"
  /\ disk[m] < MaxDisk
  /\ disk' = [disk EXCEPT ![m] = @ + 1]
  /\ UNCHANGED <<enabled, grant, edits, threadVars, poolVars, procVars, lock, server>>

-----------------------------------------------------------------------------
(* plugin_widget_data on the event loop: one step up to its await.         *)

RejectDisabled(r, m) ==
  /\ server = "up"
  /\ pc[r] = "idle"
  /\ ~enabled[m]
  /\ want' = [want EXCEPT ![r] = [module |-> m, grant |-> grant[m], disk |-> 0]]
  /\ Finish(r, "disabled")
  /\ UNCHANGED <<adminVars, worker, got, poolVars, procVars, lock, server>>

Enqueue(r, m) ==
  /\ server = "up"
  /\ pc[r] = "idle"
  /\ enabled[m]
  /\ want' = [want EXCEPT ![r] = [module |-> m, grant |-> grant[m], disk |-> 0]]
  /\ pc' = [pc EXCEPT ![r] = "queued"]
  /\ UNCHANGED <<adminVars, worker, outcome, got, poolVars, procVars, lock, server>>

(* run_plugin_widget in a thread of the executor: the checks before any    *)
(* worker is looked up, then what is read from disk.                       *)

Refuse(r) ==
  /\ pc[r] = "queued"
  /\ PoolFree
  /\ want[r].grant \notin Sufficient
  /\ Finish(r, "refused")
  /\ UNCHANGED <<adminVars, want, worker, got, poolVars, procVars, lock, server>>

Begin(r) ==
  /\ pc[r] = "queued"
  /\ PoolFree
  /\ want[r].grant \in Sufficient
  /\ want' = [want EXCEPT ![r].disk = disk[ModuleOf(r)]]
  /\ pc' = [pc EXCEPT ![r] = "lookup"]
  /\ UNCHANGED <<adminVars, worker, outcome, got, poolVars, procVars, lock, server>>

-----------------------------------------------------------------------------
(* _get_persistent_worker: one step under _WORKERS_LOCK, then the closing  *)
(* of what it took out of the dictionary.                                  *)

(* Slips a change of this code could make are kept beside the definitions   *)
(* they would change; no action uses them.  Here: a key without the row,   *)
(* and a key without what is on disk.                                      *)
HitsOfModule(r) == {w \in cache : ModuleOf(w) = ModuleOf(r) /\ Alive(w)}

HitsOfGrant(r) ==
  {w \in cache : /\ ModuleOf(w) = ModuleOf(r)
                 /\ want[w].grant = want[r].grant
                 /\ Alive(w)}

Hits(r) == {w \in cache : want[w] = want[r] /\ Alive(w)}

(* Slips: only an entry of the same key is replaced; every entry is.       *)
SameKey(r) == {w \in cache : want[w] = want[r]}

EveryEntry(r) == cache

Superseded(r) == {w \in cache : ModuleOf(w) = ModuleOf(r)}

ReuseWorker(r) ==
  /\ pc[r] = "lookup"
  /\ ModuleOf(r) \notin OneShot
  /\ \E w \in Hits(r) : worker' = [worker EXCEPT ![r] = w]
  /\ pc' = [pc EXCEPT ![r] = "request"]
  /\ UNCHANGED <<adminVars, want, outcome, got, poolVars, procVars, lock, server>>

(* A slip: only the dead entry of the same key is kept for closing.        *)
ReplaceForgetting(r) ==
  /\ pc[r] = "lookup"
  /\ ModuleOf(r) \notin OneShot
  /\ Hits(r) = {}
  /\ stale' = [stale EXCEPT ![r] = SameKey(r)]
  /\ cache' = (cache \ Superseded(r)) \cup {r}
  /\ proc' = [proc EXCEPT ![r] = "up"]
  /\ worker' = [worker EXCEPT ![r] = r]
  /\ pc' = [pc EXCEPT ![r] = "replacing"]
  /\ UNCHANGED <<adminVars, want, outcome, got, spawnFaults, inbox, outbox, loaded, lock, server>>

ReplaceWorker(r) ==
  /\ pc[r] = "lookup"
  /\ ModuleOf(r) \notin OneShot
  /\ Hits(r) = {}
  /\ stale' = [stale EXCEPT ![r] = Superseded(r)]
  /\ cache' = (cache \ Superseded(r)) \cup {r}
  /\ proc' = [proc EXCEPT ![r] = "up"]
  /\ worker' = [worker EXCEPT ![r] = r]
  /\ pc' = [pc EXCEPT ![r] = "replacing"]
  /\ UNCHANGED <<adminVars, want, outcome, got, spawnFaults, inbox, outbox, loaded, lock, server>>

(* Popen raises: the entries are gone from the dictionary and the list of  *)
(* what to close goes with the exception.                                  *)
SpawnFails(r) ==
  /\ pc[r] = "lookup"
  /\ ModuleOf(r) \in OneShot \/ Hits(r) = {}
  /\ spawnFaults < MaxSpawnFaults
  /\ spawnFaults' = spawnFaults + 1
  /\ cache' = IF ModuleOf(r) \in OneShot THEN cache ELSE cache \ Superseded(r)
  /\ Finish(r, "error")
  /\ UNCHANGED <<adminVars, want, worker, got, stale, procVars, lock, server>>

(* _PersistentPluginWorker.close: close stdin and wait; after two seconds  *)
(* terminate, after two more kill; return when the process has ended.  The *)
(* processes of one list are closed one after another, in any order here.  *)

CloseStdin(a) == \E w \in stale[a] :
  /\ proc[w] = "up"
  /\ proc' = [proc EXCEPT ![w] = "closing"]
  /\ UNCHANGED <<adminVars, threadVars, poolVars, inbox, outbox, loaded, lock, server>>

(* A slip: close() waits for the process without a limit.                  *)
NeverTerminate(a) == a \notin Agents /\ UNCHANGED vars

Terminate(a) == \E w \in stale[a] :
  /\ proc[w] = "closing"
  /\ Die(w)
  /\ UNCHANGED <<adminVars, threadVars, poolVars, lock, server>>

Closed(a) == \E w \in stale[a] :
  /\ ~Alive(w)
  /\ stale' = [stale EXCEPT ![a] = @ \ {w}]
  /\ UNCHANGED <<adminVars, threadVars, cache, spawnFaults, procVars, lock, server>>

Close(a) == CloseStdin(a) \/ Terminate(a) \/ Closed(a)

Replaced(r) ==
  /\ pc[r] = "replacing"
  /\ stale[r] = {}
  /\ pc' = [pc EXCEPT ![r] = "request"]
  /\ UNCHANGED <<adminVars, want, worker, outcome, got, poolVars, procVars, lock, server>>

-----------------------------------------------------------------------------
(* _PersistentPluginWorker.request, under the worker's _lock.              *)

Send(r) ==
  /\ pc[r] = "request"
  /\ lock[worker[r]] = None
  /\ proc[worker[r]] = "up"
  /\ lock' = [lock EXCEPT ![worker[r]] = r]
  /\ inbox' = [inbox EXCEPT ![worker[r]] = Append(@, r)]
  /\ pc' = [pc EXCEPT ![r] = "waiting"]
  /\ UNCHANGED <<adminVars, want, worker, outcome, got, poolVars, proc, outbox, loaded, server>>

(* Not running, or its stdin is closed: the lock is taken and let go.      *)
SendFails(r) ==
  /\ pc[r] = "request"
  /\ lock[worker[r]] = None
  /\ proc[worker[r]] # "up"
  /\ Finish(r, "error")
  /\ UNCHANGED <<adminVars, want, worker, got, poolVars, procVars, lock, server>>

(* The head of the queue is taken for the answer, whoever it was meant for.*)
Receive(r) ==
  /\ pc[r] = "waiting"
  /\ outbox[worker[r]] # <<>>
  /\ LET line == Head(outbox[worker[r]])
     IN  /\ got' = [got EXCEPT ![r] = line.req]
         /\ Finish(r, IF line.ok THEN "result" ELSE "error")
  /\ outbox' = [outbox EXCEPT ![worker[r]] = Tail(@)]
  /\ lock' = [lock EXCEPT ![worker[r]] = None]
  /\ UNCHANGED <<adminVars, want, worker, poolVars, proc, inbox, loaded, server>>

(* The reader thread's None: stdout has ended with the process.            *)
ReceiveExit(r) ==
  /\ pc[r] = "waiting"
  /\ outbox[worker[r]] = <<>>
  /\ ~Alive(worker[r])
  /\ Finish(r, "error")
  /\ lock' = [lock EXCEPT ![worker[r]] = None]
  /\ UNCHANGED <<adminVars, want, worker, got, poolVars, procVars, server>>

(* Slips: the worker is kept after a timeout; the queue is read without one.*)
TimeoutKeepingWorker(r) ==
  /\ pc[r] = "waiting"
  /\ outbox[worker[r]] = <<>>
  /\ Finish(r, "timeout")
  /\ lock' = [lock EXCEPT ![worker[r]] = None]
  /\ UNCHANGED <<adminVars, want, worker, got, poolVars, procVars, server>>

NoTimeout(r) == r \notin Requests /\ UNCHANGED vars

(* queue.Empty: the worker is closed with the lock still held.             *)
Timeout(r) ==
  /\ pc[r] = "waiting"
  /\ outbox[worker[r]] = <<>>
  /\ stale' = [stale EXCEPT ![r] = {worker[r]}]
  /\ pc' = [pc EXCEPT ![r] = "abandoning"]
  /\ UNCHANGED <<adminVars, want, worker, outcome, got, cache, spawnFaults, procVars, lock, server>>

(* A slip: the lock is not let go with the exception.                      *)
AbandonedHoldingLock(r) ==
  /\ pc[r] = "abandoning"
  /\ stale[r] = {}
  /\ Finish(r, "timeout")
  /\ UNCHANGED <<adminVars, want, worker, got, poolVars, procVars, lock, server>>

Abandoned(r) ==
  /\ pc[r] = "abandoning"
  /\ stale[r] = {}
  /\ Finish(r, "timeout")
  /\ lock' = [lock EXCEPT ![worker[r]] = None]
  /\ UNCHANGED <<adminVars, want, worker, got, poolVars, procVars, server>>

-----------------------------------------------------------------------------
(* _run_one_shot_worker: a process of the request's own, given its line    *)
(* and the end of its input at once.                                       *)

RunOneShot(r) ==
  /\ pc[r] = "lookup"
  /\ ModuleOf(r) \in OneShot
  /\ proc' = [proc EXCEPT ![r] = "closing"]
  /\ inbox' = [inbox EXCEPT ![r] = <<r>>]
  /\ worker' = [worker EXCEPT ![r] = r]
  /\ pc' = [pc EXCEPT ![r] = "oneshot"]
  /\ UNCHANGED <<adminVars, want, outcome, got, poolVars, outbox, loaded, lock, server>>

CollectOneShot(r) ==
  /\ pc[r] = "oneshot"
  /\ ~Alive(worker[r])
  /\ IF outbox[worker[r]] = <<>>
     THEN /\ Finish(r, "error")
          /\ UNCHANGED <<got, outbox>>
     ELSE /\ \E how \in {"result", "error"} : Finish(r, how)
          /\ got' = [got EXCEPT ![r] = Head(outbox[worker[r]]).req]
          /\ outbox' = [outbox EXCEPT ![worker[r]] = Tail(@)]
  /\ UNCHANGED <<adminVars, want, worker, poolVars, proc, inbox, loaded, lock, server>>

TimeoutOneShot(r) ==
  /\ pc[r] = "oneshot"
  /\ Alive(worker[r])
  /\ Die(worker[r])
  /\ Finish(r, "timeout")
  /\ UNCHANGED <<adminVars, want, worker, got, poolVars, lock, server>>

-----------------------------------------------------------------------------
(* plugin_worker.py in the process: the module is imported for the first   *)
(* line, each line gets one answer, the end of the input ends the loop.    *)

LoadModule(w) ==
  /\ Alive(w)
  /\ inbox[w] # <<>>
  /\ loaded[w] = 0
  /\ loaded' = [loaded EXCEPT ![w] = disk[ModuleOf(w)]]
  /\ UNCHANGED <<adminVars, threadVars, poolVars, proc, inbox, outbox, lock, server>>

(* A module that cannot be imported is answered too, and tried again for   *)
(* the next line.  A one-shot process that fails ends without an answer.   *)
Answer(w, ok) ==
  /\ Alive(w)
  /\ inbox[w] # <<>>
  /\ ok => loaded[w] # 0
  /\ ModuleOf(w) \in OneShot => ok
  /\ inbox' = [inbox EXCEPT ![w] = Tail(@)]
  /\ outbox' = [outbox EXCEPT ![w] = Append(@, [req |-> Head(inbox[w]), ok |-> ok])]
  /\ UNCHANGED <<adminVars, threadVars, poolVars, proc, loaded, lock, server>>

ExitAtEof(w) ==
  /\ proc[w] = "closing"
  /\ inbox[w] = <<>>
  /\ Die(w)
  /\ UNCHANGED <<adminVars, threadVars, poolVars, lock, server>>

Crash(w) ==
  /\ Alive(w)
  /\ Die(w)
  /\ UNCHANGED <<adminVars, threadVars, poolVars, lock, server>>

-----------------------------------------------------------------------------
(* The end of the server.  shutdown_plugin_workers runs from lifespan, in a*)
(* thread of the executor, and once more from atexit, when the executor's  *)
(* threads have been joined; a forced stop skips the first.                *)

Stop ==
  /\ server = "up"
  /\ server' = "stopping"
  /\ UNCHANGED <<adminVars, threadVars, poolVars, procVars, lock>>

(* A slip: the dictionary's keys are closed, not its values.               *)
SweepKeys ==
  /\ stale' = [stale EXCEPT ![Server] = {want[w] : w \in cache}]
  /\ cache' = {}
  /\ UNCHANGED <<adminVars, threadVars, spawnFaults, procVars, lock>>

Sweep ==
  /\ stale' = [stale EXCEPT ![Server] = cache]
  /\ cache' = {}
  /\ UNCHANGED <<adminVars, threadVars, spawnFaults, procVars, lock>>

LifespanSweep ==
  /\ server = "stopping"
  /\ PoolFree
  /\ server' = "sweeping"
  /\ Sweep

LifespanSwept ==
  /\ server = "sweeping"
  /\ stale[Server] = {}
  /\ server' = "swept"
  /\ UNCHANGED <<adminVars, threadVars, poolVars, procVars, lock>>

(* A slip: nothing is registered with atexit.                              *)
AtexitNothing ==
  /\ server \in {"stopping", "swept"}
  /\ \A r \in Requests : pc[r] \in {"idle", "done"}
  /\ server' = "exiting"
  /\ UNCHANGED <<adminVars, threadVars, poolVars, procVars, lock>>

AtexitSweep ==
  /\ server \in {"stopping", "swept"}
  /\ \A r \in Requests : pc[r] \in {"idle", "done"}
  /\ server' = "exiting"
  /\ Sweep

(* The server's ends of the pipes are closed with it.                      *)
Exit ==
  /\ server = "exiting"
  /\ stale[Server] = {}
  /\ server' = "exited"
  /\ proc' = [w \in Requests |-> IF proc[w] = "up" THEN "closing" ELSE proc[w]]
  /\ UNCHANGED <<adminVars, threadVars, poolVars, inbox, outbox, loaded, lock>>

Halted ==
  /\ server = "exited"
  /\ UNCHANGED vars

-----------------------------------------------------------------------------
Admin == \E m \in Modules :
  \/ EditDisk(m)
  \/ \E e \in BOOLEAN, g \in Grants : UpdatePluginState(m, e, g)

Handle(r) == \E m \in Modules : RejectDisabled(r, m) \/ Enqueue(r, m)

Thread(r) ==
  \/ Refuse(r) \/ Begin(r)
  \/ ReuseWorker(r) \/ ReplaceWorker(r) \/ SpawnFails(r)
  \/ Replaced(r) \/ Close(r)
  \/ Send(r) \/ SendFails(r)
  \/ Receive(r) \/ ReceiveExit(r) \/ Timeout(r) \/ Abandoned(r)
  \/ RunOneShot(r) \/ CollectOneShot(r) \/ TimeoutOneShot(r)

Process(w) ==
  \/ LoadModule(w)
  \/ \E ok \in BOOLEAN : Answer(w, ok)
  \/ ExitAtEof(w)
  \/ Crash(w)

Shutdown ==
  \/ LifespanSweep \/ LifespanSwept \/ AtexitSweep \/ Exit
  \/ Close(Server)

Next ==
  \/ Admin
  \/ \E r \in Requests : Handle(r) \/ Thread(r) \/ Process(r)
  \/ Stop
  \/ Shutdown
  \/ Halted

Spec == Init /\ [][Next]_vars

(* A thread that can run does run: the executor's threads are the system's,*)
(* and every wait of theirs has a timeout.  Nothing is assumed of plugins, *)
(* of who calls the routes or of the administrator.                        *)
Fairness ==
  /\ \A r \in Requests : WF_vars(Thread(r))
  /\ WF_vars(Shutdown)

FairSpec == Spec /\ Fairness

-----------------------------------------------------------------------------
(* The state space of the pool, its threads and its processes.             *)
TypeOK ==
  /\ enabled \in [Modules -> BOOLEAN]
  /\ grant \in [Modules -> Grants]
  /\ disk \in [Modules -> 1..MaxDisk]
  /\ edits \in 0..MaxAdmin
  /\ pc \in [Requests -> {"idle", "queued", "done"} \cup InThread]
  /\ want \in [Requests -> Keys \cup {None}]
  /\ worker \in [Requests -> Requests \cup {None}]
  /\ outcome \in [Requests -> {"none", "disabled", "refused", "error", "timeout", "result"}]
  /\ got \in [Requests -> Requests \cup {None}]
  /\ cache \subseteq Requests
  /\ stale \in [Agents -> SUBSET Requests]
  /\ spawnFaults \in 0..MaxSpawnFaults
  /\ proc \in [Requests -> {"none", "up", "closing", "dead"}]
  /\ inbox \in [Requests -> Seq(Requests)]
  /\ outbox \in [Requests -> Seq(Line)]
  /\ loaded \in [Requests -> 0..MaxDisk]
  /\ lock \in [Requests -> Requests \cup {None}]
  /\ server \in {"up", "stopping", "sweeping", "swept", "exiting", "exited"}

(* request(): a caller takes whatever line is next in its worker's queue.  *)
(* However answers are late, calls time out and workers are closed under   *)
(* their callers, the line it takes is the answer to its own request.      *)
AnswerIsOwn == \A r \in Requests : got[r] \in {r, None}

(* _get_persistent_worker(): a result was computed by a process started    *)
(* with the very approvals and secrets the request was checked against,    *)
(* running the module's code no older than what the request found on disk. *)
ServedAsGranted == \A r \in Requests :
  outcome[r] = "result" =>
    /\ want[worker[r]] = want[r]
    /\ loaded[worker[r]] >= want[r].disk

(* _WORKERS never holds two processes of one plugin module, whatever the   *)
(* keys they were cached under: the module's state lives in one process.   *)
OneWorkerPerModule == \A v, w \in cache : ModuleOf(v) = ModuleOf(w) => v = w

(* A process that runs is in _WORKERS, or in the hands of a thread that has*)
(* still to close it, or belongs to a one-shot call in progress - unless   *)
(* Popen has raised after the dictionary was emptied for it.               *)
NoOrphan == spawnFaults = 0 =>
  \A w \in Requests : Alive(w) =>
    \/ w \in cache
    \/ \E a \in Agents : w \in stale[a]
    \/ pc[w] = "oneshot"

(* A thread closes a process that is not its own only for the same module, *)
(* and a running one only if its key differs: a request never disturbs     *)
(* another plugin's process, nor a running one that would have served it.  *)
StaleIsSuperseded == \A r \in Requests : pc[r] = "replacing" =>
  \A w \in stale[r] :
    /\ w # r
    /\ ModuleOf(w) = ModuleOf(r)
    /\ want[w] = want[r] => ~Alive(w)

(* After the two sweeps no plugin process is left when the server has      *)
(* exited, even if a request was served between them.                      *)
CleanExit == server = "exited" /\ spawnFaults = 0 => \A w \in Requests : ~Alive(w)

(* What the comment in _get_persistent_worker promises: a permission,      *)
(* secret or source change replaces the old process.  When the last        *)
(* request in progress ends and was asked under the plugin's present row,  *)
(* no process of the module runs under another one.                        *)
ChangeReplacesProcess ==
  [][\A r \in Requests :
       /\ pc[r] \notin {"idle", "done"}
       /\ pc'[r] = "done"
       /\ want[r].grant = grant[ModuleOf(r)]
       /\ \A s \in Requests \ {r} : pc[s] \in {"idle", "done"}
       => \A w \in Requests :
            Alive(w)' /\ ModuleOf(w) = ModuleOf(r) => want[w].grant = want[r].grant]_vars

(* Every request handed to the executor ends: no lock, queue or process    *)
(* can hold its thread for ever, whatever the plugins do.                  *)
EveryRequestEnds == \A r \in Requests : pc[r] = "queued" ~> pc[r] = "done"

(* A server asked to stop does exit.                                       *)
ShutdownEnds == server = "stopping" ~> server = "exited"

-----------------------------------------------------------------------------
(* The pool seen through PluginService.                                    *)
PhaseOf(r) == IF pc[r] \in {"idle", "done"} THEN pc[r] ELSE "pending"

UnderOf(r) == IF pc[r] = "idle" THEN None ELSE want[r].grant

ReplyOf(r) ==
  IF outcome[r] = "result"
  THEN [to |-> got[r], grant |-> want[worker[r]].grant]
  ELSE None

Service == INSTANCE PluginService WITH
  phase <- [r \in Requests |-> PhaseOf(r)],
  under <- [r \in Requests |-> UnderOf(r)],
  reply <- [r \in Requests |-> ReplyOf(r)]

(* Every behaviour of the pool is one the service allows.                  *)
ImplementsService == Service!Spec

(* ... and under fair threads, one that answers every request.             *)
ImplementsFairService == Service!FairSpec
=============================================================================

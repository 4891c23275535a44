--------------------------- MODULE PluginWorkersProofs ---------------------------
(***************************************************************************)
(* What holds of PluginWorkers for any number of requests, modules, grants *)
(* and threads.  IInv is the inductive invariant; each of its parts has a  *)
(* lemma saying that a step keeps it, with one step per action that can    *)
(* disturb the part and one for the rest.  At the end, what the browsers   *)
(* see of the pool is PluginService.                                       *)
(***************************************************************************)
EXTENDS PluginWorkers, FiniteSetTheorems, TLAPS

(* A request before it has a process, and one that talks to a process.     *)
Early == {"idle", "queued", "lookup"}

Talking == {"replacing", "request", "waiting", "abandoning", "oneshot"}

(* A request has a key from the moment it was taken up; its file version is*)
(* one that the disk has reached.                                          *)
KeyInv == \A r \in Requests :
  /\ pc[r] # "idle" => want[r] \in Keys
  /\ pc[r] # "idle" => want[r].disk <= disk[ModuleOf(r)]
  /\ pc[r] = "idle" => want[r] = None

(* A process is started once, by a request that is then past its lookup.   *)
BirthInv == \A w \in Requests :
  /\ pc[w] \in Early => proc[w] = "none"
  /\ proc[w] = "none" => inbox[w] = <<>> /\ outbox[w] = <<>> /\ loaded[w] = 0

(* _WORKERS holds started processes of persistent modules.                 *)
CacheInv == \A w \in cache : proc[w] # "none" /\ ModuleOf(w) \notin OneShot

(* Only a thread inside close() has processes to close; one that abandons  *)
(* its worker gives up only when it has ended.                             *)
StaleInv ==
  /\ \A a \in Agents : \A w \in stale[a] : proc[w] # "none"
  /\ \A r \in Requests : stale[r] # {} => pc[r] \in {"replacing", "abandoning"}
  /\ stale[Server] # {} => server \in {"sweeping", "exiting"}

(* The worker of a request was started under the request's own key.        *)
WorkerInv == \A r \in Requests :
  /\ pc[r] \in Talking =>
       /\ worker[r] \in Requests
       /\ proc[worker[r]] # "none"
       /\ want[worker[r]] = want[r]
  /\ pc[r] \in {"replacing", "request", "waiting", "abandoning"} => ModuleOf(r) \notin OneShot
  /\ pc[r] = "oneshot" => ModuleOf(r) \in OneShot /\ worker[r] = r
  /\ pc[r] = "abandoning" => worker[r] \in stale[r] \/ proc[worker[r]] = "dead"

(* A worker's lock is held by the request in the middle of a call to it.   *)
LockInv == \A r, w \in Requests :
  lock[w] = r <=> pc[r] \in {"waiting", "abandoning"} /\ worker[r] = w

(* A process has at most one line in its two pipes together; while it takes*)
(* lines and nobody holds its lock, none.                                  *)
PipeInv == \A w \in Requests :
  /\ \/ inbox[w] = <<>> /\ outbox[w] = <<>>
     \/ outbox[w] = <<>> /\ \E r \in Requests : inbox[w] = <<r>>
     \/ inbox[w] = <<>> /\ \E l \in Line : outbox[w] = <<l>>
  /\ proc[w] = "up" /\ lock[w] = None => inbox[w] = <<>> /\ outbox[w] = <<>>

(* The line in the pipes of a request's worker is that request's own.      *)
OwnLineInv == \A r \in Requests :
  pc[r] \in {"waiting", "abandoning", "oneshot"} =>
    /\ inbox[worker[r]] \in {<<>>, <<r>>}
    /\ outbox[worker[r]] # <<>> => Head(outbox[worker[r]]).req = r

(* A result can only come from a module that has been imported, and what   *)
(* was imported is no older than the process's key.                        *)
LoadInv == \A w \in Requests :
  /\ loaded[w] # 0 => loaded[w] >= want[w].disk
  /\ outbox[w] # <<>> /\ (Head(outbox[w]).ok \/ ModuleOf(w) \in OneShot) => loaded[w] # 0

(* A request that has not ended has no outcome; a result keeps its worker. *)
ResultInv == \A r \in Requests :
  /\ pc[r] # "done" <=> outcome[r] = "none"
  /\ got[r] \in {r, None}
  /\ outcome[r] = "result" =>
       /\ got[r] = r
       /\ worker[r] \in Requests
       /\ proc[worker[r]] # "none"
       /\ loaded[worker[r]] # 0
       /\ want[worker[r]] = want[r]

(* The last sweep finds no request in progress, and none follows it.       *)
ServerInv == server \in {"exiting", "exited"} =>
  cache = {} /\ \A r \in Requests : pc[r] \in {"idle", "done"}

IInv ==
  /\ TypeOK
  /\ KeyInv
  /\ BirthInv
  /\ CacheInv
  /\ StaleInv
  /\ WorkerInv
  /\ LockInv
  /\ PipeInv
  /\ OwnLineInv
  /\ LoadInv
  /\ ResultInv
  /\ ServerInv
  /\ OneWorkerPerModule
  /\ StaleIsSuperseded
  /\ NoOrphan

-----------------------------------------------------------------------------
(* The groups of variables are abbreviations throughout.                   *)
USE DEF adminVars, threadVars, poolVars, procVars

(* A step keeps the types; the worker of a request that talks and the key  *)
(* of a process are known from WorkerInv and KeyInv.                       *)
LEMMA TypeOKStep ==
  ASSUME ConstantsAssumption, IInv, [Next]_vars
  PROVE  TypeOK'
<1>t. TypeOK
  BY DEF IInv
<1>a. \A r \in Requests : pc[r] # "idle" => want[r] \in Keys
  BY DEF IInv, KeyInv
<1>b. \A w \in Requests : Alive(w) => want[w] \in Keys
  BY <1>a DEF IInv, BirthInv, Early, Alive
<1>c. \A r \in Requests : pc[r] \in Talking => worker[r] \in Requests
  BY DEF IInv, WorkerInv
<1> USE DEF TypeOK, ConstantsAssumption, InThread
<1>1. ASSUME NEW m \in Modules, NEW e \in BOOLEAN, NEW g \in Grants, UpdatePluginState(m, e, g)
      PROVE  TypeOK'
  BY <1>t, <1>1 DEF UpdatePluginState
<1>2. ASSUME NEW m \in Modules, EditDisk(m) PROVE TypeOK'
  BY <1>t, <1>2 DEF EditDisk
<1>3. ASSUME NEW r \in Requests, NEW m \in Modules, RejectDisabled(r, m) PROVE TypeOK'
  <2>1. [module |-> m, grant |-> grant[m], disk |-> 0] \in Keys
    BY <1>t DEF Keys
  <2> QED BY <1>t, <2>1, <1>3 DEF RejectDisabled, Finish
<1>4. ASSUME NEW r \in Requests, NEW m \in Modules, Enqueue(r, m) PROVE TypeOK'
  <2>1. [module |-> m, grant |-> grant[m], disk |-> 0] \in Keys
    BY <1>t DEF Keys
  <2> QED BY <1>t, <2>1, <1>4 DEF Enqueue
<1>5. ASSUME NEW r \in Requests, Refuse(r) PROVE TypeOK'
  BY <1>t, <1>5 DEF Refuse, Finish
<1>6. ASSUME NEW r \in Requests, Begin(r) PROVE TypeOK'
  <2>1. want[r] \in Keys
    BY <1>a, <1>6 DEF Begin
  <2>2. disk[ModuleOf(r)] \in 0..MaxDisk
    BY <1>t, <2>1 DEF ModuleOf, Keys
  <2>3. [want[r] EXCEPT !.disk = disk[ModuleOf(r)]] \in Keys
    BY <2>1, <2>2 DEF Keys
  <2>4. want' \in [Requests -> Keys \cup {None}]
    BY <1>t, <2>3, <1>6 DEF Begin
  <2> QED BY <1>t, <2>4, <1>6 DEF Begin
<1>7. ASSUME NEW r \in Requests, ReuseWorker(r) PROVE TypeOK'
  BY <1>t, <1>7 DEF ReuseWorker, Hits
<1>8. ASSUME NEW r \in Requests, ReplaceWorker(r) PROVE TypeOK'
  BY <1>t, <1>8 DEF ReplaceWorker, Superseded, Agents
<1>9. ASSUME NEW r \in Requests, SpawnFails(r) PROVE TypeOK'
  BY <1>t, <1>9 DEF SpawnFails, Hits, Superseded, Finish
<1>10. ASSUME NEW r \in Requests, Replaced(r) PROVE TypeOK'
  BY <1>t, <1>10 DEF Replaced
<1>11. ASSUME NEW a \in Agents, CloseStdin(a) PROVE TypeOK'
  BY <1>t, <1>11 DEF CloseStdin
<1>12. ASSUME NEW a \in Agents, Terminate(a) PROVE TypeOK'
  BY <1>t, <1>12 DEF Terminate, Die
<1>13. ASSUME NEW a \in Agents, Closed(a) PROVE TypeOK'
  BY <1>t, <1>13 DEF Closed
<1>14. ASSUME NEW r \in Requests, Send(r) PROVE TypeOK'
  BY <1>t, <1>c, <1>14 DEF Send, Talking
<1>15. ASSUME NEW r \in Requests, SendFails(r) PROVE TypeOK'
  BY <1>t, <1>15 DEF SendFails, Finish
<1>16. ASSUME NEW r \in Requests, Receive(r) PROVE TypeOK'
  <2>1. worker[r] \in Requests
    BY <1>c, <1>16 DEF Receive, Talking
  <2>2. /\ Head(outbox[worker[r]]) \in Line
        /\ Tail(outbox[worker[r]]) \in Seq(Line)
    BY <1>t, <2>1, <1>16 DEF Receive
  <2>3. Head(outbox[worker[r]]).req \in Requests
    BY <2>2 DEF Line
  <2> QED BY <1>t, <2>1, <2>2, <2>3, <1>16 DEF Receive, Finish
<1>17. ASSUME NEW r \in Requests, ReceiveExit(r) PROVE TypeOK'
  BY <1>t, <1>17 DEF ReceiveExit, Finish
<1>18. ASSUME NEW r \in Requests, Timeout(r) PROVE TypeOK'
  BY <1>t, <1>c, <1>18 DEF Timeout, Talking, Agents
<1>19. ASSUME NEW r \in Requests, Abandoned(r) PROVE TypeOK'
  BY <1>t, <1>19 DEF Abandoned, Finish
<1>20. ASSUME NEW r \in Requests, RunOneShot(r) PROVE TypeOK'
  BY <1>t, <1>20 DEF RunOneShot
<1>21. ASSUME NEW r \in Requests, CollectOneShot(r) PROVE TypeOK'
  <2>1. worker[r] \in Requests
    BY <1>c, <1>21 DEF CollectOneShot, Talking
  <2>2. CASE outbox[worker[r]] = <<>>
    BY <1>t, <2>2, <1>21 DEF CollectOneShot, Finish
  <2>3. CASE outbox[worker[r]] # <<>>
    <3>1. /\ Head(outbox[worker[r]]) \in Line
          /\ Tail(outbox[worker[r]]) \in Seq(Line)
      BY <1>t, <2>1, <2>3
    <3>2. Head(outbox[worker[r]]).req \in Requests
      BY <3>1 DEF Line
    <3>3. PICK how \in {"result", "error"} : Finish(r, how)
      BY <2>3, <1>21 DEF CollectOneShot
    <3>4. /\ got' \in [Requests -> Requests \cup {None}]
          /\ outbox' \in [Requests -> Seq(Line)]
      <4>1. /\ got' = [got EXCEPT ![r] = Head(outbox[worker[r]]).req]
            /\ outbox' = [outbox EXCEPT ![worker[r]] = Tail(@)]
        BY <2>3, <1>21 DEF CollectOneShot
      <4> QED BY <1>t, <3>1, <3>2, <4>1
    <3>5. /\ pc' \in [Requests -> {"idle", "queued", "done"} \cup InThread]
          /\ outcome' \in [Requests -> {"none", "disabled", "refused", "error", "timeout", "result"}]
      BY <1>t, <3>3 DEF Finish
    <3> QED BY <1>t, <3>4, <3>5, <1>21 DEF CollectOneShot
  <2> QED BY <2>2, <2>3
<1>22. ASSUME NEW r \in Requests, TimeoutOneShot(r) PROVE TypeOK'
  BY <1>t, <1>c, <1>22 DEF TimeoutOneShot, Finish, Die, Talking
<1>23. ASSUME NEW w \in Requests, LoadModule(w) PROVE TypeOK'
  <2>1. want[w] \in Keys
    BY <1>b, <1>23 DEF LoadModule
  <2>2. disk[ModuleOf(w)] \in 0..MaxDisk
    BY <1>t, <2>1 DEF ModuleOf, Keys
  <2> QED BY <1>t, <2>2, <1>23 DEF LoadModule
<1>24. ASSUME NEW w \in Requests, NEW ok \in BOOLEAN, Answer(w, ok) PROVE TypeOK'
  <2>1. Head(inbox[w]) \in Requests /\ Tail(inbox[w]) \in Seq(Requests)
    BY <1>t, <1>24 DEF Answer
  <2>2. [req |-> Head(inbox[w]), ok |-> ok] \in Line
    BY <2>1 DEF Line
  <2>3. Append(outbox[w], [req |-> Head(inbox[w]), ok |-> ok]) \in Seq(Line)
    BY <1>t, <2>2
  <2> QED BY <1>t, <2>1, <2>3, <1>24 DEF Answer
<1>25. ASSUME NEW w \in Requests, ExitAtEof(w) PROVE TypeOK'
  BY <1>t, <1>25 DEF ExitAtEof, Die
<1>26. ASSUME NEW w \in Requests, Crash(w) PROVE TypeOK'
  BY <1>t, <1>26 DEF Crash, Die
<1>27. CASE Stop
  BY <1>t, <1>27 DEF Stop
<1>28. CASE LifespanSweep
  BY <1>t, <1>28 DEF LifespanSweep, Sweep
<1>29. CASE LifespanSwept
  BY <1>t, <1>29 DEF LifespanSwept
<1>30. CASE AtexitSweep
  BY <1>t, <1>30 DEF AtexitSweep, Sweep
<1>31. CASE Exit
  BY <1>t, <1>31 DEF Exit
<1>32. CASE Halted
  BY <1>t, <1>32 DEF Halted, vars
<1>33. CASE UNCHANGED vars
  BY <1>t, <1>33 DEF vars
<1> HIDE DEF TypeOK, ConstantsAssumption, InThread
<1> QED BY <1>1, <1>2, <1>3, <1>4, <1>5, <1>6, <1>7, <1>8, <1>9, <1>10, <1>11, <1>12, <1>13,
     <1>14, <1>15, <1>16, <1>17, <1>18, <1>19, <1>20, <1>21, <1>22, <1>23, <1>24, <1>25,
     <1>26, <1>27, <1>28, <1>29, <1>30, <1>31, <1>32, <1>33 DEF Next, Admin, Handle, Thread,
     Close, Process, Shutdown, Agents

(* A step keeps the keys: they are set on the event loop, completed from   *)
(* disk in Begin, and the disk only moves on.                              *)
LEMMA KeyInvStep ==
  ASSUME ConstantsAssumption, IInv, [Next]_vars
  PROVE  KeyInv'
<1>t. /\ pc \in [Requests -> {"idle", "queued", "done"} \cup InThread]
      /\ want \in [Requests -> Keys \cup {None}]
      /\ disk \in [Modules -> 1..MaxDisk]
      /\ grant \in [Modules -> Grants]
      /\ KeyInv
  BY ConstantsAssumption DEF IInv, TypeOK, ConstantsAssumption
<1> USE DEF KeyInv, ModuleOf, Keys
<1>1. ASSUME NEW m \in Modules, EditDisk(m) PROVE KeyInv'
  BY <1>t, <1>1 DEF EditDisk
<1>2. ASSUME NEW r \in Requests, NEW m \in Modules, RejectDisabled(r, m) PROVE KeyInv'
  <2>1. [module |-> m, grant |-> grant[m], disk |-> 0] \in Keys
    BY <1>t, ConstantsAssumption DEF ConstantsAssumption
  <2>2. /\ want'[r] = [module |-> m, grant |-> grant[m], disk |-> 0]
        /\ pc'[r] # "idle"
        /\ \A s \in Requests \ {r} : want'[s] = want[s] /\ pc'[s] = pc[s]
        /\ disk' = disk
    BY <1>t, <1>2 DEF RejectDisabled, Finish
  <2> QED BY <1>t, <2>1, <2>2
<1>3. ASSUME NEW r \in Requests, NEW m \in Modules, Enqueue(r, m) PROVE KeyInv'
  <2>1. [module |-> m, grant |-> grant[m], disk |-> 0] \in Keys
    BY <1>t, ConstantsAssumption DEF ConstantsAssumption
  <2>2. /\ want'[r] = [module |-> m, grant |-> grant[m], disk |-> 0]
        /\ pc'[r] # "idle"
        /\ \A s \in Requests \ {r} : want'[s] = want[s] /\ pc'[s] = pc[s]
        /\ disk' = disk
    BY <1>t, <1>3 DEF Enqueue
  <2> QED BY <1>t, <2>1, <2>2
<1>4. ASSUME NEW r \in Requests, Refuse(r) PROVE KeyInv'
  BY <1>t, <1>4 DEF Refuse, Finish
<1>5. ASSUME NEW r \in Requests, Begin(r) PROVE KeyInv'
  <2>1. want[r] \in Keys
    BY <1>t, <1>5 DEF Begin
  <2>2. /\ want' = [want EXCEPT ![r] = [want[r] EXCEPT !.disk = disk[want[r].module]]]
        /\ pc' = [pc EXCEPT ![r] = "lookup"]
        /\ disk' = disk
    BY <1>5 DEF Begin
  <2>3. disk[want[r].module] \in 0..MaxDisk
    BY <1>t, <2>1, ConstantsAssumption DEF ConstantsAssumption
  <2>4. /\ want'[r] \in Keys
        /\ want'[r].module = want[r].module
        /\ want'[r].disk = disk[want[r].module]
    BY <1>t, <2>1, <2>2, <2>3
  <2>5. \A s \in Requests \ {r} : want'[s] = want[s] /\ pc'[s] = pc[s]
    BY <1>t, <2>2
  <2> QED BY <1>t, <2>1, <2>2, <2>3, <2>4, <2>5, ConstantsAssumption DEF ConstantsAssumption
<1>6. ASSUME NEW r \in Requests, ReuseWorker(r) PROVE KeyInv'
  BY <1>t, <1>6 DEF ReuseWorker, Hits
<1>7. ASSUME NEW r \in Requests, ReplaceWorker(r) PROVE KeyInv'
  BY <1>t, <1>7 DEF ReplaceWorker, Hits, Superseded
<1>8. ASSUME NEW r \in Requests, SpawnFails(r) PROVE KeyInv'
  BY <1>t, <1>8 DEF SpawnFails, Hits, Superseded, Finish
<1>9. ASSUME NEW r \in Requests, Replaced(r) PROVE KeyInv'
  BY <1>t, <1>9 DEF Replaced
<1>10. ASSUME NEW r \in Requests, Send(r) PROVE KeyInv'
  BY <1>t, <1>10 DEF Send
<1>11. ASSUME NEW r \in Requests, SendFails(r) PROVE KeyInv'
  BY <1>t, <1>11 DEF SendFails, Finish
<1>12. ASSUME NEW r \in Requests, Receive(r) PROVE KeyInv'
  BY <1>t, <1>12 DEF Receive, Finish
<1>13. ASSUME NEW r \in Requests, ReceiveExit(r) PROVE KeyInv'
  BY <1>t, <1>13 DEF ReceiveExit, Finish
<1>14. ASSUME NEW r \in Requests, Timeout(r) PROVE KeyInv'
  BY <1>t, <1>14 DEF Timeout
<1>15. ASSUME NEW r \in Requests, Abandoned(r) PROVE KeyInv'
  BY <1>t, <1>15 DEF Abandoned, Finish
<1>16. ASSUME NEW r \in Requests, RunOneShot(r) PROVE KeyInv'
  BY <1>t, <1>16 DEF RunOneShot
<1>17. ASSUME NEW r \in Requests, CollectOneShot(r) PROVE KeyInv'
  BY <1>t, <1>17 DEF CollectOneShot, Finish
<1>18. ASSUME NEW r \in Requests, TimeoutOneShot(r) PROVE KeyInv'
  BY <1>t, <1>18 DEF TimeoutOneShot, Finish, Die
<1>19. CASE UNCHANGED <<pc, want, disk>>
  BY <1>t, <1>19
<1> HIDE DEF KeyInv, ModuleOf, Keys
<1> QED BY <1>1, <1>2, <1>3, <1>4, <1>5, <1>6, <1>7, <1>8, <1>9, <1>10, <1>11, <1>12, <1>13,
     <1>14, <1>15, <1>16, <1>17, <1>18, <1>19 DEF Next, Admin, Handle, Thread, Close,
     Process, Shutdown, Agents, vars, Finish, Die, Sweep, UpdatePluginState, CloseStdin,
     Terminate, Closed, LoadModule, Answer, ExitAtEof, Crash, Stop, LifespanSweep,
     LifespanSwept, AtexitSweep, Exit, Halted

(* A step keeps every process unborn until its request has looked it up.   *)
LEMMA BirthInvStep ==
  ASSUME ConstantsAssumption, IInv, [Next]_vars
  PROVE  BirthInv'
<1>t. /\ pc \in [Requests -> {"idle", "queued", "done"} \cup InThread]
      /\ proc \in [Requests -> {"none", "up", "closing", "dead"}]
      /\ inbox \in [Requests -> Seq(Requests)]
      /\ outbox \in [Requests -> Seq(Line)]
      /\ loaded \in [Requests -> 0..MaxDisk]
      /\ \A a \in Agents : stale[a] \subseteq Requests
      /\ BirthInv
  BY ConstantsAssumption DEF IInv, TypeOK, ConstantsAssumption
<1>w. \A r \in Requests : pc[r] \in Talking =>
        worker[r] \in Requests /\ proc[worker[r]] # "none"
  BY DEF IInv, WorkerInv
<1> USE DEF BirthInv, Early, Talking, InThread, Alive
<1>1. ASSUME NEW r \in Requests, NEW m \in Modules, RejectDisabled(r, m) PROVE BirthInv'
  BY <1>t, <1>w, <1>1 DEF RejectDisabled, Finish
<1>2. ASSUME NEW r \in Requests, NEW m \in Modules, Enqueue(r, m) PROVE BirthInv'
  BY <1>t, <1>w, <1>2 DEF Enqueue
<1>3. ASSUME NEW r \in Requests, Refuse(r) PROVE BirthInv'
  BY <1>t, <1>w, <1>3 DEF Refuse, Finish
<1>4. ASSUME NEW r \in Requests, Begin(r) PROVE BirthInv'
  BY <1>t, <1>w, <1>4 DEF Begin
<1>5. ASSUME NEW r \in Requests, ReuseWorker(r) PROVE BirthInv'
  BY <1>t, <1>w, <1>5 DEF ReuseWorker, Hits
<1>6. ASSUME NEW r \in Requests, ReplaceWorker(r) PROVE BirthInv'
  BY <1>t, <1>w, <1>6 DEF ReplaceWorker, Hits, Superseded
<1>7. ASSUME NEW r \in Requests, SpawnFails(r) PROVE BirthInv'
  BY <1>t, <1>w, <1>7 DEF SpawnFails, Hits, Superseded, Finish
<1>8. ASSUME NEW r \in Requests, Replaced(r) PROVE BirthInv'
  BY <1>t, <1>w, <1>8 DEF Replaced
<1>9. ASSUME NEW a \in Agents, CloseStdin(a) PROVE BirthInv'
  BY <1>t, <1>w, <1>9 DEF CloseStdin
<1>10. ASSUME NEW a \in Agents, Terminate(a) PROVE BirthInv'
  BY <1>t, <1>w, <1>10 DEF Terminate, Die
<1>11. ASSUME NEW r \in Requests, Send(r) PROVE BirthInv'
  BY <1>t, <1>w, <1>11 DEF Send
<1>12. ASSUME NEW r \in Requests, SendFails(r) PROVE BirthInv'
  BY <1>t, <1>w, <1>12 DEF SendFails, Finish
<1>13. ASSUME NEW r \in Requests, Receive(r) PROVE BirthInv'
  BY <1>t, <1>w, <1>13 DEF Receive, Finish
<1>14. ASSUME NEW r \in Requests, ReceiveExit(r) PROVE BirthInv'
  BY <1>t, <1>w, <1>14 DEF ReceiveExit, Finish
<1>15. ASSUME NEW r \in Requests, Timeout(r) PROVE BirthInv'
  BY <1>t, <1>w, <1>15 DEF Timeout
<1>16. ASSUME NEW r \in Requests, Abandoned(r) PROVE BirthInv'
  BY <1>t, <1>w, <1>16 DEF Abandoned, Finish
<1>17. ASSUME NEW r \in Requests, RunOneShot(r) PROVE BirthInv'
  BY <1>t, <1>w, <1>17 DEF RunOneShot
<1>18. ASSUME NEW r \in Requests, CollectOneShot(r) PROVE BirthInv'
  BY <1>t, <1>w, <1>18 DEF CollectOneShot, Finish
<1>19. ASSUME NEW r \in Requests, TimeoutOneShot(r) PROVE BirthInv'
  BY <1>t, <1>w, <1>19 DEF TimeoutOneShot, Finish, Die
<1>20. ASSUME NEW w \in Requests, LoadModule(w) PROVE BirthInv'
  BY <1>t, <1>w, <1>20 DEF LoadModule
<1>21. ASSUME NEW w \in Requests, NEW ok \in BOOLEAN, Answer(w, ok) PROVE BirthInv'
  BY <1>t, <1>w, <1>21 DEF Answer
<1>22. ASSUME NEW w \in Requests, ExitAtEof(w) PROVE BirthInv'
  BY <1>t, <1>w, <1>22 DEF ExitAtEof, Die
<1>23. ASSUME NEW w \in Requests, Crash(w) PROVE BirthInv'
  BY <1>t, <1>w, <1>23 DEF Crash, Die
<1>24. CASE Exit
  BY <1>t, <1>w, <1>24 DEF Exit
<1>25. CASE UNCHANGED <<pc, proc, inbox, outbox, loaded>>
  BY <1>t, <1>w, <1>25
<1> HIDE DEF BirthInv, Early, Talking, InThread, Alive
<1> QED BY <1>1, <1>2, <1>3, <1>4, <1>5, <1>6, <1>7, <1>8, <1>9, <1>10, <1>11, <1>12, <1>13,
     <1>14, <1>15, <1>16, <1>17, <1>18, <1>19, <1>20, <1>21, <1>22, <1>23, <1>24, <1>25 DEF
     Next, Admin, Handle, Thread, Close, Process, Shutdown, Agents, vars, Finish, Die,
     Sweep, UpdatePluginState, EditDisk, Closed, Stop, LifespanSweep, LifespanSwept,
     AtexitSweep, Halted

(* A step keeps _WORKERS free of unborn and of one-shot processes: only    *)
(* ReplaceWorker puts one in.                                              *)
LEMMA CacheInvStep ==
  ASSUME ConstantsAssumption, IInv, [Next]_vars
  PROVE  CacheInv'
<1>t. /\ pc \in [Requests -> {"idle", "queued", "done"} \cup InThread]
      /\ proc \in [Requests -> {"none", "up", "closing", "dead"}]
      /\ want \in [Requests -> Keys \cup {None}]
      /\ stale \in [Agents -> SUBSET Requests]
      /\ cache \subseteq Requests
      /\ BirthInv
      /\ CacheInv
  BY ConstantsAssumption DEF IInv, TypeOK, ConstantsAssumption
<1> USE DEF CacheInv, BirthInv, Early, ModuleOf
<1>1. ASSUME NEW r \in Requests, NEW m \in Modules, RejectDisabled(r, m) PROVE CacheInv'
  BY <1>t, <1>1 DEF RejectDisabled, Finish
<1>2. ASSUME NEW r \in Requests, NEW m \in Modules, Enqueue(r, m) PROVE CacheInv'
  BY <1>t, <1>2 DEF Enqueue
<1>3. ASSUME NEW r \in Requests, Begin(r) PROVE CacheInv'
  BY <1>t, <1>3 DEF Begin
<1>4. ASSUME NEW r \in Requests, ReplaceWorker(r) PROVE CacheInv'
  BY <1>t, <1>4 DEF ReplaceWorker, Hits, Superseded
<1>5. ASSUME NEW r \in Requests, SpawnFails(r) PROVE CacheInv'
  BY <1>t, <1>5 DEF SpawnFails, Hits, Superseded, Finish
<1>6. ASSUME NEW a \in Agents, CloseStdin(a) PROVE CacheInv'
  BY <1>t, <1>6 DEF CloseStdin
<1>7. ASSUME NEW a \in Agents, Terminate(a) PROVE CacheInv'
  BY <1>t, <1>7 DEF Terminate, Die
<1>8. ASSUME NEW r \in Requests, RunOneShot(r) PROVE CacheInv'
  BY <1>t, <1>8 DEF RunOneShot
<1>9. ASSUME NEW r \in Requests, TimeoutOneShot(r) PROVE CacheInv'
  BY <1>t, <1>9 DEF TimeoutOneShot, Finish, Die
<1>10. ASSUME NEW w \in Requests, ExitAtEof(w) PROVE CacheInv'
  BY <1>t, <1>10 DEF ExitAtEof, Die
<1>11. ASSUME NEW w \in Requests, Crash(w) PROVE CacheInv'
  BY <1>t, <1>11 DEF Crash, Die
<1>12. CASE LifespanSweep
  BY <1>t, <1>12 DEF LifespanSweep, Sweep
<1>13. CASE AtexitSweep
  BY <1>t, <1>13 DEF AtexitSweep, Sweep
<1>14. CASE Exit
  BY <1>t, <1>14 DEF Exit
<1>15. CASE UNCHANGED <<want, proc, cache>>
  BY <1>t, <1>15
<1> HIDE DEF CacheInv, BirthInv, Early, ModuleOf
<1> QED BY <1>1, <1>2, <1>3, <1>4, <1>5, <1>6, <1>7, <1>8, <1>9, <1>10, <1>11, <1>12, <1>13,
     <1>14, <1>15 DEF Next, Admin, Handle, Thread, Close, Process, Shutdown, Agents, vars,
     Finish, Die, Sweep, UpdatePluginState, EditDisk, Refuse, ReuseWorker, Replaced, Closed,
     Send, SendFails, Receive, ReceiveExit, Timeout, Abandoned, CollectOneShot, LoadModule,
     Answer, Stop, LifespanSwept, Halted

(* A step keeps the lists of processes to close with the threads in        *)
(* close().                                                                *)
LEMMA StaleInvStep ==
  ASSUME ConstantsAssumption, IInv, [Next]_vars
  PROVE  StaleInv'
<1>t. /\ pc \in [Requests -> {"idle", "queued", "done"} \cup InThread]
      /\ proc \in [Requests -> {"none", "up", "closing", "dead"}]
      /\ stale \in [Agents -> SUBSET Requests]
      /\ worker \in [Requests -> Requests \cup {None}]
      /\ Server \notin Requests
      /\ BirthInv
      /\ CacheInv
      /\ StaleInv
  BY ConstantsAssumption DEF IInv, TypeOK, ConstantsAssumption
<1>w. \A r \in Requests : pc[r] \in Talking =>
        worker[r] \in Requests /\ proc[worker[r]] # "none"
  BY DEF IInv, WorkerInv
<1> USE DEF CacheInv, StaleInv, BirthInv, Early, Agents, Talking
<1>1. ASSUME NEW r \in Requests, NEW m \in Modules, RejectDisabled(r, m) PROVE StaleInv'
  BY <1>t, <1>w, <1>1 DEF RejectDisabled, Finish
<1>2. ASSUME NEW r \in Requests, NEW m \in Modules, Enqueue(r, m) PROVE StaleInv'
  BY <1>t, <1>w, <1>2 DEF Enqueue
<1>3. ASSUME NEW r \in Requests, Refuse(r) PROVE StaleInv'
  BY <1>t, <1>w, <1>3 DEF Refuse, Finish
<1>4. ASSUME NEW r \in Requests, Begin(r) PROVE StaleInv'
  BY <1>t, <1>w, <1>4 DEF Begin
<1>5. ASSUME NEW r \in Requests, ReuseWorker(r) PROVE StaleInv'
  BY <1>t, <1>w, <1>5 DEF ReuseWorker, Hits
<1>6. ASSUME NEW r \in Requests, ReplaceWorker(r) PROVE StaleInv'
  BY <1>t, <1>w, <1>6 DEF ReplaceWorker, Hits, Superseded
<1>7. ASSUME NEW r \in Requests, SpawnFails(r) PROVE StaleInv'
  BY <1>t, <1>w, <1>7 DEF SpawnFails, Hits, Superseded, Finish
<1>8. ASSUME NEW r \in Requests, Replaced(r) PROVE StaleInv'
  BY <1>t, <1>w, <1>8 DEF Replaced
<1>9. ASSUME NEW a \in Agents, CloseStdin(a) PROVE StaleInv'
  BY <1>t, <1>w, <1>9 DEF CloseStdin
<1>10. ASSUME NEW a \in Agents, Terminate(a) PROVE StaleInv'
  BY <1>t, <1>w, <1>10 DEF Terminate, Die
<1>11. ASSUME NEW a \in Agents, Closed(a) PROVE StaleInv'
  BY <1>t, <1>w, <1>11 DEF Closed
<1>12. ASSUME NEW r \in Requests, Send(r) PROVE StaleInv'
  BY <1>t, <1>w, <1>12 DEF Send
<1>13. ASSUME NEW r \in Requests, SendFails(r) PROVE StaleInv'
  BY <1>t, <1>w, <1>13 DEF SendFails, Finish
<1>14. ASSUME NEW r \in Requests, Receive(r) PROVE StaleInv'
  BY <1>t, <1>w, <1>14 DEF Receive, Finish
<1>15. ASSUME NEW r \in Requests, ReceiveExit(r) PROVE StaleInv'
  BY <1>t, <1>w, <1>15 DEF ReceiveExit, Finish
<1>16. ASSUME NEW r \in Requests, Timeout(r) PROVE StaleInv'
  BY <1>t, <1>w, <1>16 DEF Timeout
<1>17. ASSUME NEW r \in Requests, Abandoned(r) PROVE StaleInv'
  BY <1>t, <1>w, <1>17 DEF Abandoned, Finish
<1>18. ASSUME NEW r \in Requests, RunOneShot(r) PROVE StaleInv'
  BY <1>t, <1>w, <1>18 DEF RunOneShot
<1>19. ASSUME NEW r \in Requests, CollectOneShot(r) PROVE StaleInv'
  BY <1>t, <1>w, <1>19 DEF CollectOneShot, Finish
<1>20. ASSUME NEW r \in Requests, TimeoutOneShot(r) PROVE StaleInv'
  BY <1>t, <1>w, <1>20 DEF TimeoutOneShot, Finish, Die
<1>21. ASSUME NEW w \in Requests, ExitAtEof(w) PROVE StaleInv'
  BY <1>t, <1>w, <1>21 DEF ExitAtEof, Die
<1>22. ASSUME NEW w \in Requests, Crash(w) PROVE StaleInv'
  BY <1>t, <1>w, <1>22 DEF Crash, Die
<1>23. CASE Stop
  BY <1>t, <1>w, <1>23 DEF Stop
<1>24. CASE LifespanSweep
  BY <1>t, <1>w, <1>24 DEF LifespanSweep, Sweep
<1>25. CASE LifespanSwept
  BY <1>t, <1>w, <1>25 DEF LifespanSwept
<1>26. CASE AtexitSweep
  BY <1>t, <1>w, <1>26 DEF AtexitSweep, Sweep
<1>27. CASE Exit
  BY <1>t, <1>w, <1>27 DEF Exit
<1>28. CASE UNCHANGED <<pc, proc, stale, server>>
  BY <1>t, <1>w, <1>28
<1> HIDE DEF CacheInv, StaleInv, BirthInv, Early, Agents, Talking
<1> QED BY <1>1, <1>2, <1>3, <1>4, <1>5, <1>6, <1>7, <1>8, <1>9, <1>10, <1>11, <1>12, <1>13,
     <1>14, <1>15, <1>16, <1>17, <1>18, <1>19, <1>20, <1>21, <1>22, <1>23, <1>24, <1>25,
     <1>26, <1>27, <1>28 DEF Next, Admin, Handle, Thread, Close, Process, Shutdown, Agents,
     vars, Finish, Die, Sweep, UpdatePluginState, EditDisk, LoadModule, Answer, Halted

(* A step keeps each request with a worker of its own key: a hit has the   *)
(* same key, a new process is the request's own, and keys of processes are *)
(* fixed.                                                                  *)
LEMMA WorkerInvStep ==
  ASSUME ConstantsAssumption, IInv, [Next]_vars
  PROVE  WorkerInv'
<1>t. /\ cache \subseteq Requests
      /\ pc \in [Requests -> {"idle", "queued", "done"} \cup InThread]
      /\ proc \in [Requests -> {"none", "up", "closing", "dead"}]
      /\ want \in [Requests -> Keys \cup {None}]
      /\ stale \in [Agents -> SUBSET Requests]
      /\ worker \in [Requests -> Requests \cup {None}]
      /\ None \notin Requests
      /\ BirthInv
      /\ CacheInv
      /\ StaleInv
      /\ WorkerInv
  BY ConstantsAssumption DEF IInv, TypeOK, ConstantsAssumption
<1> USE DEF BirthInv, Early, Agents, Talking, WorkerInv, ModuleOf, Alive, StaleInv
<1>1. ASSUME NEW r \in Requests, NEW m \in Modules, RejectDisabled(r, m) PROVE WorkerInv'
  BY <1>t, <1>1 DEF RejectDisabled, Finish
<1>2. ASSUME NEW r \in Requests, NEW m \in Modules, Enqueue(r, m) PROVE WorkerInv'
  BY <1>t, <1>2 DEF Enqueue
<1>3. ASSUME NEW r \in Requests, Refuse(r) PROVE WorkerInv'
  BY <1>t, <1>3 DEF Refuse, Finish
<1>4. ASSUME NEW r \in Requests, Begin(r) PROVE WorkerInv'
  BY <1>t, <1>4 DEF Begin
<1>5. ASSUME NEW r \in Requests, ReuseWorker(r) PROVE WorkerInv'
  BY <1>t, <1>5 DEF ReuseWorker, Hits
<1>6. ASSUME NEW r \in Requests, ReplaceWorker(r) PROVE WorkerInv'
  BY <1>t, <1>6 DEF ReplaceWorker, Hits, Superseded
<1>7. ASSUME NEW r \in Requests, SpawnFails(r) PROVE WorkerInv'
  BY <1>t, <1>7 DEF SpawnFails, Hits, Superseded, Finish
<1>8. ASSUME NEW r \in Requests, Replaced(r) PROVE WorkerInv'
  BY <1>t, <1>8 DEF Replaced
<1>9. ASSUME NEW a \in Agents, CloseStdin(a) PROVE WorkerInv'
  BY <1>t, <1>9 DEF CloseStdin
<1>10. ASSUME NEW a \in Agents, Terminate(a) PROVE WorkerInv'
  BY <1>t, <1>10 DEF Terminate, Die
<1>11. ASSUME NEW a \in Agents, Closed(a) PROVE WorkerInv'
  BY <1>t, <1>11 DEF Closed
<1>12. ASSUME NEW r \in Requests, Send(r) PROVE WorkerInv'
  BY <1>t, <1>12 DEF Send
<1>13. ASSUME NEW r \in Requests, SendFails(r) PROVE WorkerInv'
  BY <1>t, <1>13 DEF SendFails, Finish
<1>14. ASSUME NEW r \in Requests, Receive(r) PROVE WorkerInv'
  BY <1>t, <1>14 DEF Receive, Finish
<1>15. ASSUME NEW r \in Requests, ReceiveExit(r) PROVE WorkerInv'
  BY <1>t, <1>15 DEF ReceiveExit, Finish
<1>16. ASSUME NEW r \in Requests, Timeout(r) PROVE WorkerInv'
  BY <1>t, <1>16 DEF Timeout
<1>17. ASSUME NEW r \in Requests, Abandoned(r) PROVE WorkerInv'
  BY <1>t, <1>17 DEF Abandoned, Finish
<1>18. ASSUME NEW r \in Requests, RunOneShot(r) PROVE WorkerInv'
  BY <1>t, <1>18 DEF RunOneShot
<1>19. ASSUME NEW r \in Requests, CollectOneShot(r) PROVE WorkerInv'
  BY <1>t, <1>19 DEF CollectOneShot, Finish
<1>20. ASSUME NEW r \in Requests, TimeoutOneShot(r) PROVE WorkerInv'
  BY <1>t, <1>20 DEF TimeoutOneShot, Finish, Die
<1>21. ASSUME NEW w \in Requests, ExitAtEof(w) PROVE WorkerInv'
  BY <1>t, <1>21 DEF ExitAtEof, Die
<1>22. ASSUME NEW w \in Requests, Crash(w) PROVE WorkerInv'
  BY <1>t, <1>22 DEF Crash, Die
<1>23. CASE LifespanSweep
  BY <1>t, <1>23 DEF LifespanSweep, Sweep
<1>24. CASE AtexitSweep
  BY <1>t, <1>24 DEF AtexitSweep, Sweep
<1>25. CASE Exit
  BY <1>t, <1>25 DEF Exit
<1>26. CASE UNCHANGED <<pc, want, worker, proc, stale>>
  BY <1>t, <1>26
<1> HIDE DEF BirthInv, Early, Agents, Talking, WorkerInv, ModuleOf, Alive, StaleInv
<1> QED BY <1>1, <1>2, <1>3, <1>4, <1>5, <1>6, <1>7, <1>8, <1>9, <1>10, <1>11, <1>12, <1>13,
     <1>14, <1>15, <1>16, <1>17, <1>18, <1>19, <1>20, <1>21, <1>22, <1>23, <1>24, <1>25,
     <1>26 DEF Next, Admin, Handle, Thread, Close, Process, Shutdown, Agents, vars, Finish,
     Die, Sweep, UpdatePluginState, EditDisk, LoadModule, Answer, Stop, LifespanSwept,
     Halted

(* A step keeps each lock with the one request in a call to that worker.   *)
LEMMA LockInvStep ==
  ASSUME ConstantsAssumption, IInv, [Next]_vars
  PROVE  LockInv'
<1>t. /\ pc \in [Requests -> {"idle", "queued", "done"} \cup InThread]
      /\ lock \in [Requests -> Requests \cup {None}]
      /\ worker \in [Requests -> Requests \cup {None}]
      /\ None \notin Requests
      /\ WorkerInv
      /\ LockInv
  BY ConstantsAssumption DEF IInv, TypeOK, ConstantsAssumption
<1> USE DEF LockInv, WorkerInv, Talking
<1>1. ASSUME NEW r \in Requests, NEW m \in Modules, RejectDisabled(r, m) PROVE LockInv'
  BY <1>t, <1>1 DEF RejectDisabled, Finish
<1>2. ASSUME NEW r \in Requests, NEW m \in Modules, Enqueue(r, m) PROVE LockInv'
  BY <1>t, <1>2 DEF Enqueue
<1>3. ASSUME NEW r \in Requests, Refuse(r) PROVE LockInv'
  BY <1>t, <1>3 DEF Refuse, Finish
<1>4. ASSUME NEW r \in Requests, Begin(r) PROVE LockInv'
  BY <1>t, <1>4 DEF Begin
<1>5. ASSUME NEW r \in Requests, ReuseWorker(r) PROVE LockInv'
  BY <1>t, <1>5 DEF ReuseWorker, Hits
<1>6. ASSUME NEW r \in Requests, ReplaceWorker(r) PROVE LockInv'
  BY <1>t, <1>6 DEF ReplaceWorker, Hits, Superseded
<1>7. ASSUME NEW r \in Requests, SpawnFails(r) PROVE LockInv'
  BY <1>t, <1>7 DEF SpawnFails, Hits, Superseded, Finish
<1>8. ASSUME NEW r \in Requests, Replaced(r) PROVE LockInv'
  BY <1>t, <1>8 DEF Replaced
<1>9. ASSUME NEW r \in Requests, Send(r) PROVE LockInv'
  BY <1>t, <1>9 DEF Send
<1>10. ASSUME NEW r \in Requests, SendFails(r) PROVE LockInv'
  BY <1>t, <1>10 DEF SendFails, Finish
<1>11. ASSUME NEW r \in Requests, Receive(r) PROVE LockInv'
  BY <1>t, <1>11 DEF Receive, Finish
<1>12. ASSUME NEW r \in Requests, ReceiveExit(r) PROVE LockInv'
  BY <1>t, <1>12 DEF ReceiveExit, Finish
<1>13. ASSUME NEW r \in Requests, Timeout(r) PROVE LockInv'
  BY <1>t, <1>13 DEF Timeout
<1>14. ASSUME NEW r \in Requests, Abandoned(r) PROVE LockInv'
  BY <1>t, <1>14 DEF Abandoned, Finish
<1>15. ASSUME NEW r \in Requests, RunOneShot(r) PROVE LockInv'
  BY <1>t, <1>15 DEF RunOneShot
<1>16. ASSUME NEW r \in Requests, CollectOneShot(r) PROVE LockInv'
  BY <1>t, <1>16 DEF CollectOneShot, Finish
<1>17. ASSUME NEW r \in Requests, TimeoutOneShot(r) PROVE LockInv'
  BY <1>t, <1>17 DEF TimeoutOneShot, Finish, Die
<1>18. CASE UNCHANGED <<pc, worker, lock>>
  BY <1>t, <1>18
<1> HIDE DEF LockInv, WorkerInv, Talking
<1> QED BY <1>1, <1>2, <1>3, <1>4, <1>5, <1>6, <1>7, <1>8, <1>9, <1>10, <1>11, <1>12, <1>13,
     <1>14, <1>15, <1>16, <1>17, <1>18 DEF Next, Admin, Handle, Thread, Close, Process,
     Shutdown, Agents, vars, Finish, Die, Sweep, UpdatePluginState, EditDisk, CloseStdin,
     Terminate, Closed, LoadModule, Answer, ExitAtEof, Crash, Stop, LifespanSweep,
     LifespanSwept, AtexitSweep, Exit, Halted

(* A step keeps at most one line in the pipes of a process: a line is only *)
(* written under a lock that was free, and the pipes were empty then.      *)
LEMMA PipeInvStep ==
  ASSUME ConstantsAssumption, IInv, [Next]_vars
  PROVE  PipeInv'
<1>t. /\ pc \in [Requests -> {"idle", "queued", "done"} \cup InThread]
      /\ proc \in [Requests -> {"none", "up", "closing", "dead"}]
      /\ inbox \in [Requests -> Seq(Requests)]
      /\ outbox \in [Requests -> Seq(Line)]
      /\ lock \in [Requests -> Requests \cup {None}]
      /\ worker \in [Requests -> Requests \cup {None}]
      /\ BirthInv
      /\ PipeInv
  BY ConstantsAssumption DEF IInv, TypeOK, ConstantsAssumption
<1>w. \A r \in Requests : pc[r] \in Talking =>
        worker[r] \in Requests /\ proc[worker[r]] # "none"
  BY DEF IInv, WorkerInv
<1>x. \A r \in Requests : pc[r] = "abandoning" /\ stale[r] = {} => proc[worker[r]] = "dead"
  BY DEF IInv, WorkerInv
<1> USE DEF PipeInv, BirthInv, Early, Alive, Talking
<1>1. ASSUME NEW r \in Requests, ReplaceWorker(r) PROVE PipeInv'
  BY <1>t, <1>w, <1>1 DEF ReplaceWorker, Hits, Superseded
<1>2. ASSUME NEW a \in Agents, CloseStdin(a) PROVE PipeInv'
  BY <1>t, <1>w, <1>2 DEF CloseStdin
<1>3. ASSUME NEW a \in Agents, Terminate(a) PROVE PipeInv'
  BY <1>t, <1>w, <1>3 DEF Terminate, Die
<1>4. ASSUME NEW r \in Requests, Send(r) PROVE PipeInv'
  <2>1. worker[r] \in Requests
    BY <1>w, <1>4 DEF Send
  <2>2. inbox[worker[r]] = <<>> /\ outbox[worker[r]] = <<>>
    BY <1>t, <2>1, <1>4 DEF Send
  <2>3. Append(inbox[worker[r]], r) = <<r>>
    BY <2>2
  <2>4. /\ inbox'[worker[r]] = <<r>>
        /\ outbox' = outbox
        /\ proc' = proc
        /\ lock'[worker[r]] = r
        /\ r # None
        /\ \A w \in Requests \ {worker[r]} : inbox'[w] = inbox[w] /\ lock'[w] = lock[w]
    BY <1>t, <2>1, <2>3, ConstantsAssumption, <1>4 DEF Send, ConstantsAssumption
  <2> QED BY <1>t, <2>1, <2>2, <2>4
<1>5. ASSUME NEW r \in Requests, Receive(r) PROVE PipeInv'
  BY <1>t, <1>w, <1>5 DEF Receive, Finish
<1>6. ASSUME NEW r \in Requests, ReceiveExit(r) PROVE PipeInv'
  BY <1>t, <1>w, <1>6 DEF ReceiveExit, Finish
<1>7. ASSUME NEW r \in Requests, Abandoned(r) PROVE PipeInv'
  BY <1>t, <1>w, <1>x, <1>7 DEF Abandoned, Finish
<1>8. ASSUME NEW r \in Requests, RunOneShot(r) PROVE PipeInv'
  BY <1>t, <1>w, <1>8 DEF RunOneShot
<1>9. ASSUME NEW r \in Requests, CollectOneShot(r) PROVE PipeInv'
  <2>1. worker[r] \in Requests
    BY <1>w, <1>9 DEF CollectOneShot
  <2>2. CASE outbox[worker[r]] = <<>>
    BY <1>t, <2>1, <2>2, <1>9 DEF CollectOneShot, Finish
  <2>3. CASE outbox[worker[r]] # <<>>
    <3>1. /\ got' = [got EXCEPT ![r] = Head(outbox[worker[r]]).req]
          /\ outbox' = [outbox EXCEPT ![worker[r]] = Tail(@)]
          /\ UNCHANGED <<adminVars, want, worker, poolVars, proc, inbox, loaded, lock, server>>
      BY <2>3, <1>9 DEF CollectOneShot
    <3>2. PICK how \in {"result", "error"} : Finish(r, how)
      BY <2>3, <1>9 DEF CollectOneShot
    <3>3. inbox[worker[r]] = <<>> /\ Tail(outbox[worker[r]]) = <<>>
      <4>1. PICK l \in Line : outbox[worker[r]] = <<l>> /\ inbox[worker[r]] = <<>>
        BY <1>t, <2>1, <2>3
      <4> QED BY <4>1
    <3> QED BY <1>t, <2>1, <2>3, <3>1, <3>3, <3>2 DEF Finish
  <2> QED BY <2>2, <2>3
<1>10. ASSUME NEW r \in Requests, TimeoutOneShot(r) PROVE PipeInv'
  BY <1>t, <1>w, <1>10 DEF TimeoutOneShot, Finish, Die
<1>11. ASSUME NEW w \in Requests, NEW ok \in BOOLEAN, Answer(w, ok) PROVE PipeInv'
  <2>1. PICK q \in Requests : inbox[w] = <<q>>
    BY <1>t, <1>11 DEF Answer
  <2>2. outbox[w] = <<>>
    BY <1>t, <1>11 DEF Answer
  <2>3. /\ Tail(inbox[w]) = <<>>
        /\ Head(inbox[w]) = q
        /\ Append(outbox[w], [req |-> q, ok |-> ok]) = <<[req |-> q, ok |-> ok]>>
    BY <2>1, <2>2
  <2>4. [req |-> q, ok |-> ok] \in Line
    BY <2>1 DEF Line
  <2>5. /\ inbox'[w] = <<>>
        /\ outbox'[w] = <<[req |-> q, ok |-> ok]>>
        /\ \A v \in Requests \ {w} : inbox'[v] = inbox[v] /\ outbox'[v] = outbox[v]
        /\ proc' = proc /\ lock' = lock
    BY <1>t, <2>3, <1>11 DEF Answer
  <2>6. ~(proc[w] = "up" /\ lock[w] = None)
    BY <1>t, <1>11 DEF Answer
  <2> QED BY <1>t, <2>4, <2>5, <2>6
<1>12. ASSUME NEW w \in Requests, ExitAtEof(w) PROVE PipeInv'
  BY <1>t, <1>w, <1>12 DEF ExitAtEof, Die
<1>13. ASSUME NEW w \in Requests, Crash(w) PROVE PipeInv'
  BY <1>t, <1>w, <1>13 DEF Crash, Die
<1>14. CASE Exit
  BY <1>t, <1>w, <1>14 DEF Exit
<1>15. CASE UNCHANGED <<proc, inbox, outbox, lock>>
  BY <1>t, <1>w, <1>15
<1> HIDE DEF PipeInv, BirthInv, Early, Alive, Talking
<1> QED BY <1>1, <1>2, <1>3, <1>4, <1>5, <1>6, <1>7, <1>8, <1>9, <1>10, <1>11, <1>12, <1>13,
     <1>14, <1>15 DEF Next, Admin, Handle, Thread, Close, Process, Shutdown, Agents, vars,
     Finish, Die, Sweep, UpdatePluginState, EditDisk, RejectDisabled, Enqueue, Refuse,
     Begin, ReuseWorker, SpawnFails, Replaced, Closed, SendFails, Timeout, LoadModule, Stop,
     LifespanSweep, LifespanSwept, AtexitSweep, Halted

(* A step keeps the line in the pipes with the request that waits for it: a*)
(* timed-out caller lets the lock go only after its worker has ended.      *)
LEMMA OwnLineInvStep ==
  ASSUME ConstantsAssumption, IInv, [Next]_vars
  PROVE  OwnLineInv'
<1>t. /\ pc \in [Requests -> {"idle", "queued", "done"} \cup InThread]
      /\ inbox \in [Requests -> Seq(Requests)]
      /\ outbox \in [Requests -> Seq(Line)]
      /\ lock \in [Requests -> Requests \cup {None}]
      /\ worker \in [Requests -> Requests \cup {None}]
      /\ None \notin Requests
      /\ proc \in [Requests -> {"none", "up", "closing", "dead"}]
      /\ BirthInv
      /\ LockInv
      /\ PipeInv
      /\ OwnLineInv
  BY ConstantsAssumption DEF IInv, TypeOK, ConstantsAssumption
<1>w. \A r \in Requests : pc[r] \in Talking =>
        worker[r] \in Requests /\ proc[worker[r]] # "none"
  BY DEF IInv, WorkerInv
<1>x. /\ \A r \in Requests : pc[r] = "oneshot" => worker[r] = r /\ ModuleOf(r) \in OneShot
      /\ \A r \in Requests : pc[r] \in {"request", "waiting", "abandoning"} => ModuleOf(worker[r]) \notin OneShot
  BY DEF IInv, WorkerInv, ModuleOf, Talking
<1>y. \A r \in Requests : pc[r] \in Early => proc[r] = "none" /\ inbox[r] = <<>> /\ outbox[r] = <<>>
  BY DEF IInv, BirthInv
<1> USE DEF OwnLineInv, Talking
<1>1. ASSUME NEW r \in Requests, NEW m \in Modules, RejectDisabled(r, m) PROVE OwnLineInv'
  BY <1>t, <1>1 DEF RejectDisabled, Finish
<1>2. ASSUME NEW r \in Requests, NEW m \in Modules, Enqueue(r, m) PROVE OwnLineInv'
  BY <1>t, <1>2 DEF Enqueue
<1>3. ASSUME NEW r \in Requests, Refuse(r) PROVE OwnLineInv'
  BY <1>t, <1>3 DEF Refuse, Finish
<1>4. ASSUME NEW r \in Requests, Begin(r) PROVE OwnLineInv'
  BY <1>t, <1>4 DEF Begin
<1>5. ASSUME NEW r \in Requests, ReuseWorker(r) PROVE OwnLineInv'
  BY <1>t, <1>5 DEF ReuseWorker, Hits
<1>6. ASSUME NEW r \in Requests, ReplaceWorker(r) PROVE OwnLineInv'
  BY <1>t, <1>6 DEF ReplaceWorker, Hits, Superseded
<1>7. ASSUME NEW r \in Requests, SpawnFails(r) PROVE OwnLineInv'
  BY <1>t, <1>7 DEF SpawnFails, Hits, Superseded, Finish
<1>8. ASSUME NEW r \in Requests, Replaced(r) PROVE OwnLineInv'
  BY <1>t, <1>8 DEF Replaced
<1>9. ASSUME NEW a \in Agents, Terminate(a) PROVE OwnLineInv'
  BY <1>t, <1>9 DEF Terminate, Die
<1>10. ASSUME NEW r \in Requests, Send(r) PROVE OwnLineInv'
  <2>1. worker[r] \in Requests
    BY <1>w, <1>10 DEF Send
  <2>2. inbox[worker[r]] = <<>> /\ outbox[worker[r]] = <<>>
    BY <1>t, <2>1, <1>10 DEF Send, PipeInv
  <2>3. Append(inbox[worker[r]], r) = <<r>>
    BY <2>2
  <2>4. \A s \in Requests \ {r} :
          pc[s] \in {"waiting", "abandoning", "oneshot"} => worker[s] # worker[r]
    BY <1>t, <1>x, <2>1, <1>10 DEF Send, LockInv
  <2>5. \A s \in Requests \ {r} : pc'[s] = pc[s] /\ worker'[s] = worker[s]
    BY <1>t, <1>10 DEF Send
  <2>6. /\ inbox'[worker[r]] = <<r>>
        /\ worker' = worker
        /\ outbox' = outbox
        /\ \A w \in Requests \ {worker[r]} : inbox'[w] = inbox[w]
    <3>1. /\ inbox \in [Requests -> Seq(Requests)]
          /\ inbox' = [inbox EXCEPT ![worker[r]] = Append(inbox[worker[r]], r)]
          /\ worker' = worker
          /\ outbox' = outbox
      BY <1>t, <1>10 DEF Send
    <3> QED BY <2>1, <2>3, <3>1
  <2>7. ASSUME NEW s \in Requests, pc'[s] \in {"waiting", "abandoning", "oneshot"}
        PROVE  /\ inbox'[worker'[s]] \in {<<>>, <<s>>}
               /\ outbox'[worker'[s]] # <<>> => Head(outbox'[worker'[s]]).req = s
    <3>1. CASE s = r
      BY <2>2, <2>6, <3>1
    <3>2. CASE s # r
      <4>1. /\ pc[s] \in {"waiting", "abandoning", "oneshot"}
            /\ worker[s] \in Requests
            /\ worker[s] # worker[r]
        BY <1>w, <2>4, <2>5, <2>7, <3>2
      <4>2. inbox'[worker[s]] = inbox[worker[s]]
        BY <2>6, <4>1
      <4> QED BY <1>t, <2>6, <4>1, <4>2
    <3> QED BY <3>1, <3>2
  <2> QED BY <2>7
<1>11. ASSUME NEW r \in Requests, SendFails(r) PROVE OwnLineInv'
  BY <1>t, <1>11 DEF SendFails, Finish
<1>12. ASSUME NEW r \in Requests, Receive(r) PROVE OwnLineInv'
  BY <1>t, <1>12 DEF Receive, Finish
<1>13. ASSUME NEW r \in Requests, ReceiveExit(r) PROVE OwnLineInv'
  BY <1>t, <1>13 DEF ReceiveExit, Finish
<1>14. ASSUME NEW r \in Requests, Timeout(r) PROVE OwnLineInv'
  BY <1>t, <1>14 DEF Timeout
<1>15. ASSUME NEW r \in Requests, Abandoned(r) PROVE OwnLineInv'
  BY <1>t, <1>15 DEF Abandoned, Finish
<1>16. ASSUME NEW r \in Requests, RunOneShot(r) PROVE OwnLineInv'
  <2>1. proc[r] = "none" /\ outbox[r] = <<>>
    BY <1>y, <1>16 DEF RunOneShot, Early
  <2>2. \A s \in Requests : pc[s] \in Talking => worker[s] # r
    BY <1>w, <2>1
  <2> QED BY <1>t, <2>1, <2>2, <1>16 DEF RunOneShot
<1>17. ASSUME NEW r \in Requests, CollectOneShot(r) PROVE OwnLineInv'
  <2>1. worker[r] \in Requests
    BY <1>w, <1>17 DEF CollectOneShot
  <2>2. CASE outbox[worker[r]] = <<>>
    BY <1>t, <2>1, <2>2, <1>17 DEF CollectOneShot, Finish
  <2>3. CASE outbox[worker[r]] # <<>>
    <3>1. /\ got' = [got EXCEPT ![r] = Head(outbox[worker[r]]).req]
          /\ outbox' = [outbox EXCEPT ![worker[r]] = Tail(@)]
          /\ UNCHANGED <<adminVars, want, worker, poolVars, proc, inbox, loaded, lock, server>>
      BY <2>3, <1>17 DEF CollectOneShot
    <3>2. PICK how \in {"result", "error"} : Finish(r, how)
      BY <2>3, <1>17 DEF CollectOneShot
    <3>3. Tail(outbox[worker[r]]) = <<>>
      <4>1. PICK l \in Line : outbox[worker[r]] = <<l>>
        BY <1>t, <2>1, <2>3 DEF PipeInv
      <4> QED BY <4>1
    <3> QED BY <1>t, <2>1, <3>1, <3>2, <3>3 DEF Finish
  <2> QED BY <2>2, <2>3
<1>18. ASSUME NEW r \in Requests, TimeoutOneShot(r) PROVE OwnLineInv'
  BY <1>t, <1>18 DEF TimeoutOneShot, Finish, Die
<1>19. ASSUME NEW w \in Requests, NEW ok \in BOOLEAN, Answer(w, ok) PROVE OwnLineInv'
  <2>1. PICK q \in Requests : inbox[w] = <<q>>
    BY <1>t, <1>19 DEF Answer, PipeInv
  <2>2. outbox[w] = <<>>
    BY <1>t, <1>19 DEF Answer, PipeInv
  <2>3. /\ Tail(inbox[w]) = <<>>
        /\ Head(inbox[w]) = q
        /\ Head(Append(outbox[w], [req |-> q, ok |-> ok])).req = q
    BY <2>1, <2>2
  <2>4. \A s \in Requests :
          pc[s] \in {"waiting", "abandoning", "oneshot"} /\ worker[s] = w => s = q
    <3>1. <<q>> # <<>> /\ \A s \in Requests : <<q>> = <<s>> => s = q
      OBVIOUS
    <3> QED BY <1>t, <2>1, <3>1
  <2> QED BY <1>t, <2>3, <2>4, <1>19 DEF Answer
<1>20. ASSUME NEW w \in Requests, ExitAtEof(w) PROVE OwnLineInv'
  BY <1>t, <1>20 DEF ExitAtEof, Die
<1>21. ASSUME NEW w \in Requests, Crash(w) PROVE OwnLineInv'
  BY <1>t, <1>21 DEF Crash, Die
<1>22. CASE UNCHANGED <<pc, worker, inbox, outbox>>
  BY <1>t, <1>22
<1> HIDE DEF OwnLineInv, Talking
<1> QED BY <1>1, <1>2, <1>3, <1>4, <1>5, <1>6, <1>7, <1>8, <1>9, <1>10, <1>11, <1>12, <1>13,
     <1>14, <1>15, <1>16, <1>17, <1>18, <1>19, <1>20, <1>21, <1>22 DEF Next, Admin, Handle,
     Thread, Close, Process, Shutdown, Agents, vars, Finish, Die, Sweep, UpdatePluginState,
     EditDisk, CloseStdin, Closed, LoadModule, Stop, LifespanSweep, LifespanSwept,
     AtexitSweep, Exit, Halted

(* A step keeps what a process imported at least as new as its key.        *)
LEMMA LoadInvStep ==
  ASSUME ConstantsAssumption, IInv, [Next]_vars
  PROVE  LoadInv'
<1>t. /\ pc \in [Requests -> {"idle", "queued", "done"} \cup InThread]
      /\ proc \in [Requests -> {"none", "up", "closing", "dead"}]
      /\ want \in [Requests -> Keys \cup {None}]
      /\ outbox \in [Requests -> Seq(Line)]
      /\ loaded \in [Requests -> 0..MaxDisk]
      /\ worker \in [Requests -> Requests \cup {None}]
      /\ disk \in [Modules -> 1..MaxDisk]
      /\ BirthInv
      /\ KeyInv
      /\ PipeInv
      /\ LoadInv
  BY ConstantsAssumption DEF IInv, TypeOK, ConstantsAssumption
<1>w. \A r \in Requests : pc[r] \in Talking =>
        worker[r] \in Requests /\ proc[worker[r]] # "none"
  BY DEF IInv, WorkerInv
<1> USE DEF LoadInv, BirthInv, KeyInv, Early, Alive, ModuleOf, Talking
<1>1. ASSUME NEW r \in Requests, NEW m \in Modules, RejectDisabled(r, m) PROVE LoadInv'
  BY <1>t, <1>w, <1>1 DEF RejectDisabled, Finish
<1>2. ASSUME NEW r \in Requests, NEW m \in Modules, Enqueue(r, m) PROVE LoadInv'
  BY <1>t, <1>w, <1>2 DEF Enqueue
<1>3. ASSUME NEW r \in Requests, Begin(r) PROVE LoadInv'
  BY <1>t, <1>w, <1>3 DEF Begin
<1>4. ASSUME NEW r \in Requests, Receive(r) PROVE LoadInv'
  <2>1. worker[r] \in Requests
    BY <1>w, <1>4 DEF Receive
  <2>2. PICK l \in Line : outbox[worker[r]] = <<l>>
    BY <1>t, <2>1, <1>4 DEF Receive, PipeInv
  <2>3. Tail(outbox[worker[r]]) = <<>>
    BY <2>2
  <2> QED BY <1>t, <2>1, <2>3, <1>4 DEF Receive
<1>5. ASSUME NEW r \in Requests, CollectOneShot(r) PROVE LoadInv'
  <2>1. worker[r] \in Requests
    BY <1>w, <1>5 DEF CollectOneShot
  <2>2. CASE outbox[worker[r]] = <<>>
    BY <1>t, <2>1, <2>2, <1>5 DEF CollectOneShot, Finish
  <2>3. CASE outbox[worker[r]] # <<>>
    <3>1. /\ got' = [got EXCEPT ![r] = Head(outbox[worker[r]]).req]
          /\ outbox' = [outbox EXCEPT ![worker[r]] = Tail(@)]
          /\ UNCHANGED <<adminVars, want, worker, poolVars, proc, inbox, loaded, lock, server>>
      BY <2>3, <1>5 DEF CollectOneShot
    <3>2. PICK how \in {"result", "error"} : Finish(r, how)
      BY <2>3, <1>5 DEF CollectOneShot
    <3>3. Tail(outbox[worker[r]]) = <<>>
      <4>1. PICK l \in Line : outbox[worker[r]] = <<l>>
        BY <1>t, <2>1, <2>3 DEF PipeInv
      <4> QED BY <4>1
    <3> QED BY <1>t, <2>1, <3>1, <3>3 DEF Finish
  <2> QED BY <2>2, <2>3
<1>6. ASSUME NEW w \in Requests, LoadModule(w) PROVE LoadInv'
  BY <1>t, <1>w, <1>6 DEF LoadModule
<1>7. ASSUME NEW w \in Requests, NEW ok \in BOOLEAN, Answer(w, ok) PROVE LoadInv'
  <2>1. outbox[w] = <<>>
    BY <1>t, <1>7 DEF Answer, PipeInv
  <2>2. Head(Append(outbox[w], [req |-> Head(inbox[w]), ok |-> ok])).ok = ok
    BY <2>1
  <2> QED BY <1>t, <2>2, <1>7 DEF Answer
<1>8. CASE UNCHANGED <<want, outbox, loaded>>
  BY <1>t, <1>w, <1>8
<1> HIDE DEF LoadInv, BirthInv, KeyInv, Early, Alive, ModuleOf, Talking
<1> QED BY <1>1, <1>2, <1>3, <1>4, <1>5, <1>6, <1>7, <1>8 DEF Next, Admin, Handle, Thread,
     Close, Process, Shutdown, Agents, vars, Finish, Die, Sweep, UpdatePluginState,
     EditDisk, Refuse, ReuseWorker, ReplaceWorker, SpawnFails, Replaced, CloseStdin,
     Terminate, Closed, Send, SendFails, ReceiveExit, Timeout, Abandoned, RunOneShot,
     TimeoutOneShot, ExitAtEof, Crash, Stop, LifespanSweep, LifespanSwept, AtexitSweep,
     Exit, Halted

(* A step keeps what has been answered: results are own, and the process   *)
(* that gave one keeps its key and its module.                             *)
LEMMA ResultInvStep ==
  ASSUME ConstantsAssumption, IInv, [Next]_vars
  PROVE  ResultInv'
<1>t. /\ pc \in [Requests -> {"idle", "queued", "done"} \cup InThread]
      /\ outcome \in [Requests -> {"none", "disabled", "refused", "error", "timeout", "result"}]
      /\ got \in [Requests -> Requests \cup {None}]
      /\ worker \in [Requests -> Requests \cup {None}]
      /\ proc \in [Requests -> {"none", "up", "closing", "dead"}]
      /\ want \in [Requests -> Keys \cup {None}]
      /\ loaded \in [Requests -> 0..MaxDisk]
      /\ None \notin Requests
      /\ BirthInv
      /\ LoadInv
      /\ WorkerInv
      /\ OwnLineInv
      /\ ResultInv
  BY ConstantsAssumption DEF IInv, TypeOK, ConstantsAssumption
<1> USE DEF ResultInv, BirthInv, Early, Talking
<1>1. ASSUME NEW r \in Requests, NEW m \in Modules, RejectDisabled(r, m) PROVE ResultInv'
  BY <1>t, <1>1 DEF RejectDisabled, Finish
<1>2. ASSUME NEW r \in Requests, NEW m \in Modules, Enqueue(r, m) PROVE ResultInv'
  BY <1>t, <1>2 DEF Enqueue
<1>3. ASSUME NEW r \in Requests, Refuse(r) PROVE ResultInv'
  BY <1>t, <1>3 DEF Refuse, Finish
<1>4. ASSUME NEW r \in Requests, Begin(r) PROVE ResultInv'
  BY <1>t, <1>4 DEF Begin
<1>5. ASSUME NEW r \in Requests, ReuseWorker(r) PROVE ResultInv'
  BY <1>t, <1>5 DEF ReuseWorker, Hits
<1>6. ASSUME NEW r \in Requests, ReplaceWorker(r) PROVE ResultInv'
  BY <1>t, <1>6 DEF ReplaceWorker, Hits, Superseded
<1>7. ASSUME NEW r \in Requests, SpawnFails(r) PROVE ResultInv'
  BY <1>t, <1>7 DEF SpawnFails, Hits, Superseded, Finish
<1>8. ASSUME NEW r \in Requests, Replaced(r) PROVE ResultInv'
  BY <1>t, <1>8 DEF Replaced
<1>9. ASSUME NEW a \in Agents, CloseStdin(a) PROVE ResultInv'
  BY <1>t, <1>9 DEF CloseStdin
<1>10. ASSUME NEW a \in Agents, Terminate(a) PROVE ResultInv'
  BY <1>t, <1>10 DEF Terminate, Die
<1>11. ASSUME NEW r \in Requests, Send(r) PROVE ResultInv'
  BY <1>t, <1>11 DEF Send
<1>12. ASSUME NEW r \in Requests, SendFails(r) PROVE ResultInv'
  BY <1>t, <1>12 DEF SendFails, Finish
<1>13. ASSUME NEW r \in Requests, Receive(r) PROVE ResultInv'
  <2>1. /\ worker[r] \in Requests
        /\ proc[worker[r]] # "none"
        /\ want[worker[r]] = want[r]
    BY <1>t, <1>13 DEF Receive, WorkerInv
  <2>2. Head(outbox[worker[r]]).req = r
    BY <1>t, <1>13 DEF Receive, OwnLineInv
  <2>3. Head(outbox[worker[r]]).ok => loaded[worker[r]] # 0
    BY <1>t, <2>1, <1>13 DEF Receive, LoadInv
  <2> QED BY <1>t, <2>1, <2>2, <2>3, <1>13 DEF Receive, Finish
<1>14. ASSUME NEW r \in Requests, ReceiveExit(r) PROVE ResultInv'
  BY <1>t, <1>14 DEF ReceiveExit, Finish
<1>15. ASSUME NEW r \in Requests, Timeout(r) PROVE ResultInv'
  BY <1>t, <1>15 DEF Timeout
<1>16. ASSUME NEW r \in Requests, Abandoned(r) PROVE ResultInv'
  BY <1>t, <1>16 DEF Abandoned, Finish
<1>17. ASSUME NEW r \in Requests, RunOneShot(r) PROVE ResultInv'
  BY <1>t, <1>17 DEF RunOneShot
<1>18. ASSUME NEW r \in Requests, CollectOneShot(r) PROVE ResultInv'
  <2>1. /\ worker[r] \in Requests
        /\ proc[worker[r]] # "none"
        /\ want[worker[r]] = want[r]
        /\ ModuleOf(worker[r]) \in OneShot
    BY <1>t, <1>18 DEF CollectOneShot, WorkerInv, ModuleOf
  <2>2. CASE outbox[worker[r]] = <<>>
    BY <1>t, <2>2, <1>18 DEF CollectOneShot, Finish
  <2>3. CASE outbox[worker[r]] # <<>>
    <3>1. /\ got' = [got EXCEPT ![r] = Head(outbox[worker[r]]).req]
          /\ UNCHANGED <<want, worker, proc, loaded>>
      BY <2>3, <1>18 DEF CollectOneShot
    <3>2. PICK how \in {"result", "error"} : Finish(r, how)
      BY <2>3, <1>18 DEF CollectOneShot
    <3>3. Head(outbox[worker[r]]).req = r
      BY <1>t, <2>3, <1>18 DEF CollectOneShot, OwnLineInv
    <3>4. loaded[worker[r]] # 0
      BY <1>t, <2>1, <2>3 DEF LoadInv
    <3> QED BY <1>t, <2>1, <3>1, <3>2, <3>3, <3>4 DEF Finish
  <2> QED BY <2>2, <2>3
<1>19. ASSUME NEW r \in Requests, TimeoutOneShot(r) PROVE ResultInv'
  BY <1>t, <1>19 DEF TimeoutOneShot, Finish, Die
<1>20. ASSUME NEW w \in Requests, LoadModule(w) PROVE ResultInv'
  BY <1>t, <1>20 DEF LoadModule
<1>21. ASSUME NEW w \in Requests, ExitAtEof(w) PROVE ResultInv'
  BY <1>t, <1>21 DEF ExitAtEof, Die
<1>22. ASSUME NEW w \in Requests, Crash(w) PROVE ResultInv'
  BY <1>t, <1>22 DEF Crash, Die
<1>23. CASE Exit
  BY <1>t, <1>23 DEF Exit
<1>24. CASE UNCHANGED <<pc, outcome, got, worker, proc, loaded, want>>
  BY <1>t, <1>24
<1> HIDE DEF ResultInv, BirthInv, Early, Talking
<1> QED BY <1>1, <1>2, <1>3, <1>4, <1>5, <1>6, <1>7, <1>8, <1>9, <1>10, <1>11, <1>12, <1>13,
     <1>14, <1>15, <1>16, <1>17, <1>18, <1>19, <1>20, <1>21, <1>22, <1>23, <1>24 DEF Next,
     Admin, Handle, Thread, Close, Process, Shutdown, Agents, vars, Finish, Die, Sweep,
     UpdatePluginState, EditDisk, Closed, Answer, Stop, LifespanSweep, LifespanSwept,
     AtexitSweep, Halted

(* A step keeps the pool at rest once the last sweep has begun.            *)
LEMMA ServerInvStep ==
  ASSUME ConstantsAssumption, IInv, [Next]_vars
  PROVE  ServerInv'
<1>t. /\ pc \in [Requests -> {"idle", "queued", "done"} \cup InThread]
      /\ ServerInv
  BY ConstantsAssumption DEF IInv, TypeOK, ConstantsAssumption
<1> USE DEF ServerInv
<1>1. ASSUME NEW r \in Requests, NEW m \in Modules, RejectDisabled(r, m) PROVE ServerInv'
  BY <1>t, <1>1 DEF RejectDisabled, Finish
<1>2. ASSUME NEW r \in Requests, NEW m \in Modules, Enqueue(r, m) PROVE ServerInv'
  BY <1>t, <1>2 DEF Enqueue
<1>3. ASSUME NEW r \in Requests, Refuse(r) PROVE ServerInv'
  BY <1>t, <1>3 DEF Refuse, Finish
<1>4. ASSUME NEW r \in Requests, Begin(r) PROVE ServerInv'
  BY <1>t, <1>4 DEF Begin
<1>5. ASSUME NEW r \in Requests, ReuseWorker(r) PROVE ServerInv'
  BY <1>t, <1>5 DEF ReuseWorker, Hits
<1>6. ASSUME NEW r \in Requests, ReplaceWorker(r) PROVE ServerInv'
  BY <1>t, <1>6 DEF ReplaceWorker, Hits, Superseded
<1>7. ASSUME NEW r \in Requests, SpawnFails(r) PROVE ServerInv'
  BY <1>t, <1>7 DEF SpawnFails, Hits, Superseded, Finish
<1>8. ASSUME NEW r \in Requests, Replaced(r) PROVE ServerInv'
  BY <1>t, <1>8 DEF Replaced
<1>9. ASSUME NEW r \in Requests, Send(r) PROVE ServerInv'
  BY <1>t, <1>9 DEF Send
<1>10. ASSUME NEW r \in Requests, SendFails(r) PROVE ServerInv'
  BY <1>t, <1>10 DEF SendFails, Finish
<1>11. ASSUME NEW r \in Requests, Receive(r) PROVE ServerInv'
  BY <1>t, <1>11 DEF Receive, Finish
<1>12. ASSUME NEW r \in Requests, ReceiveExit(r) PROVE ServerInv'
  BY <1>t, <1>12 DEF ReceiveExit, Finish
<1>13. ASSUME NEW r \in Requests, Timeout(r) PROVE ServerInv'
  BY <1>t, <1>13 DEF Timeout
<1>14. ASSUME NEW r \in Requests, Abandoned(r) PROVE ServerInv'
  BY <1>t, <1>14 DEF Abandoned, Finish
<1>15. ASSUME NEW r \in Requests, RunOneShot(r) PROVE ServerInv'
  BY <1>t, <1>15 DEF RunOneShot
<1>16. ASSUME NEW r \in Requests, CollectOneShot(r) PROVE ServerInv'
  BY <1>t, <1>16 DEF CollectOneShot, Finish
<1>17. ASSUME NEW r \in Requests, TimeoutOneShot(r) PROVE ServerInv'
  BY <1>t, <1>17 DEF TimeoutOneShot, Finish, Die
<1>18. CASE Stop
  BY <1>t, <1>18 DEF Stop
<1>19. CASE LifespanSweep
  BY <1>t, <1>19 DEF LifespanSweep, Sweep
<1>20. CASE LifespanSwept
  BY <1>t, <1>20 DEF LifespanSwept
<1>21. CASE AtexitSweep
  BY <1>t, <1>21 DEF AtexitSweep, Sweep
<1>22. CASE Exit
  BY <1>t, <1>22 DEF Exit
<1>23. CASE UNCHANGED <<pc, cache, server>>
  BY <1>t, <1>23
<1> HIDE DEF ServerInv
<1> QED BY <1>1, <1>2, <1>3, <1>4, <1>5, <1>6, <1>7, <1>8, <1>9, <1>10, <1>11, <1>12, <1>13,
     <1>14, <1>15, <1>16, <1>17, <1>18, <1>19, <1>20, <1>21, <1>22, <1>23 DEF Next, Admin,
     Handle, Thread, Close, Process, Shutdown, Agents, vars, Finish, Die, Sweep,
     UpdatePluginState, EditDisk, CloseStdin, Terminate, Closed, LoadModule, Answer,
     ExitAtEof, Crash, Halted

(* A step keeps one process per module: ReplaceWorker first takes out every*)
(* entry of the module.                                                    *)
LEMMA OneWorkerPerModuleStep ==
  ASSUME ConstantsAssumption, IInv, [Next]_vars
  PROVE  OneWorkerPerModule'
<1>t. /\ pc \in [Requests -> {"idle", "queued", "done"} \cup InThread]
      /\ proc \in [Requests -> {"none", "up", "closing", "dead"}]
      /\ want \in [Requests -> Keys \cup {None}]
      /\ cache \subseteq Requests
      /\ BirthInv
      /\ CacheInv
      /\ OneWorkerPerModule
  BY ConstantsAssumption DEF IInv, TypeOK, ConstantsAssumption
<1> USE DEF OneWorkerPerModule, BirthInv, CacheInv, Early, ModuleOf
<1>1. ASSUME NEW r \in Requests, NEW m \in Modules, RejectDisabled(r, m) PROVE OneWorkerPerModule'
  BY <1>t, <1>1 DEF RejectDisabled, Finish
<1>2. ASSUME NEW r \in Requests, NEW m \in Modules, Enqueue(r, m) PROVE OneWorkerPerModule'
  BY <1>t, <1>2 DEF Enqueue
<1>3. ASSUME NEW r \in Requests, Begin(r) PROVE OneWorkerPerModule'
  BY <1>t, <1>3 DEF Begin
<1>4. ASSUME NEW r \in Requests, ReplaceWorker(r) PROVE OneWorkerPerModule'
  BY <1>t, <1>4 DEF ReplaceWorker, Hits, Superseded
<1>5. ASSUME NEW r \in Requests, SpawnFails(r) PROVE OneWorkerPerModule'
  BY <1>t, <1>5 DEF SpawnFails, Hits, Superseded, Finish
<1>6. CASE LifespanSweep
  BY <1>t, <1>6 DEF LifespanSweep, Sweep
<1>7. CASE AtexitSweep
  BY <1>t, <1>7 DEF AtexitSweep, Sweep
<1>8. CASE UNCHANGED <<want, cache>>
  BY <1>t, <1>8
<1> HIDE DEF OneWorkerPerModule, BirthInv, CacheInv, Early, ModuleOf
<1> QED BY <1>1, <1>2, <1>3, <1>4, <1>5, <1>6, <1>7, <1>8 DEF Next, Admin, Handle, Thread,
     Close, Process, Shutdown, Agents, vars, Finish, Die, Sweep, UpdatePluginState,
     EditDisk, Refuse, ReuseWorker, Replaced, CloseStdin, Terminate, Closed, Send,
     SendFails, Receive, ReceiveExit, Timeout, Abandoned, RunOneShot, CollectOneShot,
     TimeoutOneShot, LoadModule, Answer, ExitAtEof, Crash, Stop, LifespanSwept, Exit, Halted

(* A step keeps a replacing thread to the entries it took out: they were   *)
(* born before it, and an ended one stays ended.                           *)
LEMMA StaleIsSupersededStep ==
  ASSUME ConstantsAssumption, IInv, [Next]_vars
  PROVE  StaleIsSuperseded'
<1>t. /\ pc \in [Requests -> {"idle", "queued", "done"} \cup InThread]
      /\ proc \in [Requests -> {"none", "up", "closing", "dead"}]
      /\ want \in [Requests -> Keys \cup {None}]
      /\ stale \in [Agents -> SUBSET Requests]
      /\ cache \subseteq Requests
      /\ Server \notin Requests
      /\ BirthInv
      /\ CacheInv
      /\ StaleInv
      /\ StaleIsSuperseded
  BY ConstantsAssumption DEF IInv, TypeOK, ConstantsAssumption
<1> USE DEF StaleIsSuperseded, BirthInv, StaleInv, Early, ModuleOf, Alive, Agents
<1>1. ASSUME NEW r \in Requests, NEW m \in Modules, RejectDisabled(r, m) PROVE StaleIsSuperseded'
  BY <1>t, <1>1 DEF RejectDisabled, Finish
<1>2. ASSUME NEW r \in Requests, NEW m \in Modules, Enqueue(r, m) PROVE StaleIsSuperseded'
  BY <1>t, <1>2 DEF Enqueue
<1>3. ASSUME NEW r \in Requests, Refuse(r) PROVE StaleIsSuperseded'
  BY <1>t, <1>3 DEF Refuse, Finish
<1>4. ASSUME NEW r \in Requests, Begin(r) PROVE StaleIsSuperseded'
  BY <1>t, <1>4 DEF Begin
<1>5. ASSUME NEW r \in Requests, ReuseWorker(r) PROVE StaleIsSuperseded'
  BY <1>t, <1>5 DEF ReuseWorker, Hits
<1>6. ASSUME NEW r \in Requests, ReplaceWorker(r) PROVE StaleIsSuperseded'
  BY <1>t, <1>6 DEF ReplaceWorker, Hits, Superseded, CacheInv
<1>7. ASSUME NEW r \in Requests, SpawnFails(r) PROVE StaleIsSuperseded'
  BY <1>t, <1>7 DEF SpawnFails, Hits, Superseded, Finish
<1>8. ASSUME NEW r \in Requests, Replaced(r) PROVE StaleIsSuperseded'
  BY <1>t, <1>8 DEF Replaced
<1>9. ASSUME NEW a \in Agents, CloseStdin(a) PROVE StaleIsSuperseded'
  BY <1>t, <1>9 DEF CloseStdin
<1>10. ASSUME NEW a \in Agents, Terminate(a) PROVE StaleIsSuperseded'
  BY <1>t, <1>10 DEF Terminate, Die
<1>11. ASSUME NEW a \in Agents, Closed(a) PROVE StaleIsSuperseded'
  BY <1>t, <1>11 DEF Closed
<1>12. ASSUME NEW r \in Requests, Send(r) PROVE StaleIsSuperseded'
  BY <1>t, <1>12 DEF Send
<1>13. ASSUME NEW r \in Requests, SendFails(r) PROVE StaleIsSuperseded'
  BY <1>t, <1>13 DEF SendFails, Finish
<1>14. ASSUME NEW r \in Requests, Receive(r) PROVE StaleIsSuperseded'
  BY <1>t, <1>14 DEF Receive, Finish
<1>15. ASSUME NEW r \in Requests, ReceiveExit(r) PROVE StaleIsSuperseded'
  BY <1>t, <1>15 DEF ReceiveExit, Finish
<1>16. ASSUME NEW r \in Requests, Timeout(r) PROVE StaleIsSuperseded'
  BY <1>t, <1>16 DEF Timeout
<1>17. ASSUME NEW r \in Requests, Abandoned(r) PROVE StaleIsSuperseded'
  BY <1>t, <1>17 DEF Abandoned, Finish
<1>18. ASSUME NEW r \in Requests, RunOneShot(r) PROVE StaleIsSuperseded'
  BY <1>t, <1>18 DEF RunOneShot
<1>19. ASSUME NEW r \in Requests, CollectOneShot(r) PROVE StaleIsSuperseded'
  BY <1>t, <1>19 DEF CollectOneShot, Finish
<1>20. ASSUME NEW r \in Requests, TimeoutOneShot(r) PROVE StaleIsSuperseded'
  BY <1>t, <1>20 DEF TimeoutOneShot, Finish, Die
<1>21. ASSUME NEW w \in Requests, ExitAtEof(w) PROVE StaleIsSuperseded'
  BY <1>t, <1>21 DEF ExitAtEof, Die
<1>22. ASSUME NEW w \in Requests, Crash(w) PROVE StaleIsSuperseded'
  BY <1>t, <1>22 DEF Crash, Die
<1>23. CASE LifespanSweep
  BY <1>t, <1>23 DEF LifespanSweep, Sweep
<1>24. CASE AtexitSweep
  BY <1>t, <1>24 DEF AtexitSweep, Sweep
<1>25. CASE Exit
  BY <1>t, <1>25 DEF Exit
<1>26. CASE UNCHANGED <<pc, want, proc, stale>>
  BY <1>t, <1>26
<1> HIDE DEF StaleIsSuperseded, BirthInv, StaleInv, Early, ModuleOf, Alive, Agents
<1> QED BY <1>1, <1>2, <1>3, <1>4, <1>5, <1>6, <1>7, <1>8, <1>9, <1>10, <1>11, <1>12, <1>13,
     <1>14, <1>15, <1>16, <1>17, <1>18, <1>19, <1>20, <1>21, <1>22, <1>23, <1>24, <1>25,
     <1>26 DEF Next, Admin, Handle, Thread, Close, Process, Shutdown, Agents, vars, Finish,
     Die, Sweep, UpdatePluginState, EditDisk, LoadModule, Answer, Stop, LifespanSwept,
     Halted

(* A step forgets no running process: what leaves _WORKERS is on a list,   *)
(* and the list it is put on was empty.                                    *)
LEMMA NoOrphanStep ==
  ASSUME ConstantsAssumption, IInv, [Next]_vars
  PROVE  NoOrphan'
<1>t. /\ pc \in [Requests -> {"idle", "queued", "done"} \cup InThread]
      /\ proc \in [Requests -> {"none", "up", "closing", "dead"}]
      /\ stale \in [Agents -> SUBSET Requests]
      /\ spawnFaults \in Nat
      /\ cache \subseteq Requests
      /\ Server \notin Requests
      /\ BirthInv
      /\ StaleInv
      /\ NoOrphan
  BY ConstantsAssumption DEF IInv, TypeOK, ConstantsAssumption
<1>w. \A r \in Requests : pc[r] = "oneshot" => worker[r] = r
  BY DEF IInv, WorkerInv
<1> USE DEF NoOrphan, BirthInv, StaleInv, Early, Alive, Agents
<1>1. ASSUME NEW r \in Requests, NEW m \in Modules, RejectDisabled(r, m) PROVE NoOrphan'
  BY <1>t, <1>1 DEF RejectDisabled, Finish
<1>2. ASSUME NEW r \in Requests, NEW m \in Modules, Enqueue(r, m) PROVE NoOrphan'
  BY <1>t, <1>2 DEF Enqueue
<1>3. ASSUME NEW r \in Requests, Refuse(r) PROVE NoOrphan'
  BY <1>t, <1>3 DEF Refuse, Finish
<1>4. ASSUME NEW r \in Requests, Begin(r) PROVE NoOrphan'
  BY <1>t, <1>4 DEF Begin
<1>5. ASSUME NEW r \in Requests, ReuseWorker(r) PROVE NoOrphan'
  BY <1>t, <1>5 DEF ReuseWorker, Hits
<1>6. ASSUME NEW r \in Requests, ReplaceWorker(r) PROVE NoOrphan'
  BY <1>t, <1>6 DEF ReplaceWorker, Hits, Superseded
<1>7. ASSUME NEW r \in Requests, SpawnFails(r) PROVE NoOrphan'
  BY <1>t, <1>7 DEF SpawnFails, Hits, Superseded, Finish
<1>8. ASSUME NEW r \in Requests, Replaced(r) PROVE NoOrphan'
  BY <1>t, <1>8 DEF Replaced
<1>9. ASSUME NEW a \in Agents, CloseStdin(a) PROVE NoOrphan'
  BY <1>t, <1>9 DEF CloseStdin
<1>10. ASSUME NEW a \in Agents, Terminate(a) PROVE NoOrphan'
  BY <1>t, <1>10 DEF Terminate, Die
<1>11. ASSUME NEW a \in Agents, Closed(a) PROVE NoOrphan'
  BY <1>t, <1>11 DEF Closed
<1>12. ASSUME NEW r \in Requests, Send(r) PROVE NoOrphan'
  BY <1>t, <1>12 DEF Send
<1>13. ASSUME NEW r \in Requests, SendFails(r) PROVE NoOrphan'
  BY <1>t, <1>13 DEF SendFails, Finish
<1>14. ASSUME NEW r \in Requests, Receive(r) PROVE NoOrphan'
  BY <1>t, <1>14 DEF Receive, Finish
<1>15. ASSUME NEW r \in Requests, ReceiveExit(r) PROVE NoOrphan'
  BY <1>t, <1>15 DEF ReceiveExit, Finish
<1>16. ASSUME NEW r \in Requests, Timeout(r) PROVE NoOrphan'
  BY <1>t, <1>16 DEF Timeout
<1>17. ASSUME NEW r \in Requests, Abandoned(r) PROVE NoOrphan'
  BY <1>t, <1>17 DEF Abandoned, Finish
<1>18. ASSUME NEW r \in Requests, RunOneShot(r) PROVE NoOrphan'
  BY <1>t, <1>18 DEF RunOneShot
<1>19. ASSUME NEW r \in Requests, CollectOneShot(r) PROVE NoOrphan'
  <2>1. pc'[r] = "done" /\ \A s \in Requests \ {r} : pc'[s] = pc[s]
    <3>1. PICK how \in {"result", "error"} : Finish(r, how)
      BY <1>19 DEF CollectOneShot
    <3> QED BY <1>t, <3>1 DEF Finish
  <2>2. /\ ~Alive(r)
        /\ UNCHANGED <<proc, cache, stale, spawnFaults>>
    BY <1>w, <1>19 DEF CollectOneShot
  <2> QED BY <1>t, <2>1, <2>2
<1>20. ASSUME NEW r \in Requests, TimeoutOneShot(r) PROVE NoOrphan'
  BY <1>t, <1>w, <1>20 DEF TimeoutOneShot, Finish, Die
<1>21. ASSUME NEW w \in Requests, ExitAtEof(w) PROVE NoOrphan'
  BY <1>t, <1>21 DEF ExitAtEof, Die
<1>22. ASSUME NEW w \in Requests, Crash(w) PROVE NoOrphan'
  BY <1>t, <1>22 DEF Crash, Die
<1>23. CASE LifespanSweep
  BY <1>t, <1>23 DEF LifespanSweep, Sweep
<1>24. CASE AtexitSweep
  BY <1>t, <1>24 DEF AtexitSweep, Sweep
<1>25. CASE Exit
  BY <1>t, <1>25 DEF Exit
<1>26. CASE UNCHANGED <<pc, proc, cache, stale, spawnFaults>>
  BY <1>t, <1>26
<1> HIDE DEF NoOrphan, BirthInv, StaleInv, Early, Alive, Agents
<1> QED BY <1>1, <1>2, <1>3, <1>4, <1>5, <1>6, <1>7, <1>8, <1>9, <1>10, <1>11, <1>12, <1>13,
     <1>14, <1>15, <1>16, <1>17, <1>18, <1>19, <1>20, <1>21, <1>22, <1>23, <1>24, <1>25,
     <1>26 DEF Next, Admin, Handle, Thread, Close, Process, Shutdown, Agents, vars, Finish,
     Die, Sweep, UpdatePluginState, EditDisk, LoadModule, Answer, Stop, LifespanSwept,
     Halted

-----------------------------------------------------------------------------
(* The server starts in a state of the invariant.                          *)
LEMMA InitIInv ==
  ASSUME ConstantsAssumption, Init
  PROVE  IInv
<1>1. TypeOK
  BY DEF ConstantsAssumption, Init, TypeOK
<1>2. KeyInv /\ BirthInv /\ CacheInv /\ StaleInv
  BY DEF Init, KeyInv, BirthInv, CacheInv, StaleInv, Agents, Early
<1>3. WorkerInv /\ LockInv
  BY DEF ConstantsAssumption, Init, WorkerInv, LockInv, Talking
<1>4. PipeInv /\ OwnLineInv /\ LoadInv
  BY DEF Init, PipeInv, OwnLineInv, LoadInv
<1>5. ResultInv /\ ServerInv
  BY DEF Init, ResultInv, ServerInv
<1>6. OneWorkerPerModule /\ StaleIsSuperseded /\ NoOrphan
  BY DEF Init, OneWorkerPerModule, StaleIsSuperseded, NoOrphan, Alive, Agents
<1> QED BY <1>1, <1>2, <1>3, <1>4, <1>5, <1>6 DEF IInv

(* Every step of the server, its threads and its processes keeps every     *)
(* part of the invariant.                                                  *)
LEMMA StepIInv ==
  ASSUME ConstantsAssumption, IInv, [Next]_vars
  PROVE  IInv'
<1>1. TypeOK' /\ KeyInv' /\ BirthInv' /\ CacheInv' /\ StaleInv'
  BY TypeOKStep, KeyInvStep, BirthInvStep, CacheInvStep, StaleInvStep
<1>2. WorkerInv' /\ LockInv' /\ PipeInv' /\ OwnLineInv' /\ LoadInv'
  BY WorkerInvStep, LockInvStep, PipeInvStep, OwnLineInvStep, LoadInvStep
<1>3. ResultInv' /\ ServerInv'
  BY ResultInvStep, ServerInvStep
<1>4. OneWorkerPerModule' /\ StaleIsSuperseded' /\ NoOrphan'
  BY OneWorkerPerModuleStep, StaleIsSupersededStep, NoOrphanStep
<1> QED BY <1>1, <1>2, <1>3, <1>4 DEF IInv

(* IInv holds of every behaviour of the pool.                              *)
THEOREM Invariant == Spec => []IInv
<1>1. Init => IInv
  BY ConstantsAssumption, InitIInv
<1>2. IInv /\ [Next]_vars => IInv'
  BY ConstantsAssumption, StepIInv
<1> QED BY <1>1, <1>2, PTL DEF Spec

-----------------------------------------------------------------------------
(* The variables of the pool keep their types.                             *)
THEOREM TypeCorrect == Spec => []TypeOK
<1>1. IInv => TypeOK
  BY DEF IInv
<1> QED BY <1>1, Invariant, PTL

(* However many requests share a process, and however late its answers     *)
(* are, request() never takes another request's line.                      *)
THEOREM AnswersAreOwn == Spec => []AnswerIsOwn
<1>1. IInv => AnswerIsOwn
  BY DEF IInv, ResultInv, AnswerIsOwn
<1> QED BY <1>1, Invariant, PTL

(* A result comes from a process with the request's own key, that imported *)
(* the module no earlier than the request read its modification time.      *)
THEOREM ResultsAreAsGranted == Spec => []ServedAsGranted
<1>1. IInv => ServedAsGranted
  BY DEF IInv, ResultInv, LoadInv, ServedAsGranted
<1> QED BY <1>1, Invariant, PTL

(* _WORKERS holds at most one process of a module.                         *)
THEOREM WorkersAreUnique == Spec => []OneWorkerPerModule
<1>1. IInv => OneWorkerPerModule
  BY DEF IInv
<1> QED BY <1>1, Invariant, PTL

(* Replacing a process closes only superseded processes of its module.     *)
THEOREM ReplacesOnlySuperseded == Spec => []StaleIsSuperseded
<1>1. IInv => StaleIsSuperseded
  BY DEF IInv
<1> QED BY <1>1, Invariant, PTL

(* Unless Popen has raised, no running process is forgotten.               *)
THEOREM NothingIsOrphaned == Spec => []NoOrphan
<1>1. IInv => NoOrphan
  BY DEF IInv
<1> QED BY <1>1, Invariant, PTL

(* A server that has exited without a failed Popen left no process behind: *)
(* the last sweep finds the threads joined, and nothing starts after it.   *)
THEOREM ExitIsClean == Spec => []CleanExit
<1>1. ASSUME IInv, server = "exited", spawnFaults = 0, NEW w \in Requests
      PROVE  ~Alive(w)
  <2>1. cache = {} /\ \A r \in Requests : pc[r] \in {"idle", "done"}
    BY <1>1 DEF IInv, ServerInv
  <2>2. \A a \in Agents : stale[a] = {}
    BY <1>1, <2>1 DEF IInv, StaleInv, Agents
  <2> QED BY <1>1, <2>1, <2>2 DEF IInv, NoOrphan
<1>2. IInv => CleanExit
  BY <1>1 DEF CleanExit
<1> QED BY <1>2, Invariant, PTL

-----------------------------------------------------------------------------
(* Nobody waits for ever on somebody who waits.                            *)

(* A process that close() is at can be closed, terminated or struck off.   *)
CanClose(a) == \E w \in stale[a] : Alive(w) \/ proc[w] = "dead"

(* The guards of Thread(r): what its next step needs is there.  A lookup   *)
(* uses a process, starts one or reports that it cannot; who waits for a   *)
(* line takes it, finds the process gone or gives up.                      *)
CanRun(r) ==
  \/ pc[r] = "queued" /\ PoolFree
  \/ pc[r] \in {"lookup", "waiting"}
  \/ pc[r] \in {"replacing", "abandoning"} /\ (stale[r] = {} \/ CanClose(r))
  \/ pc[r] = "request" /\ lock[worker[r]] = None
  \/ pc[r] = "oneshot" /\ (Alive(worker[r]) \/ proc[worker[r]] = "dead")

SweepCanRun == server = "sweeping" /\ (stale[Server] = {} \/ CanClose(Server))

HolderCanRun(r) == lock[worker[r]] \in Requests /\ CanRun(lock[worker[r]])

(* A thread waits for another only where request() takes a worker's lock,  *)
(* and then the holder has a step of its own to take; a call waits for a   *)
(* thread only while the executor is full of such threads, or the sweep    *)
(* has the last of them, and it has a step to take too.                    *)
NobodyStuck == \A r \in Requests :
  /\ pc[r] \in InThread \ {"request"} => CanRun(r)
  /\ pc[r] = "request" => CanRun(r) \/ HolderCanRun(r)
  /\ pc[r] = "queued" =>
       CanRun(r) \/ SweepCanRun \/ \E q \in Requests : pc[q] \in InThread

LEMMA ClosingGoesOn ==
  ASSUME IInv, NEW a \in Agents
  PROVE  stale[a] = {} \/ CanClose(a)
<1>1. \A w \in stale[a] : w \in Requests /\ proc[w] # "none"
  BY DEF IInv, TypeOK, StaleInv
<1>2. \A w \in Requests : proc[w] \in {"none", "up", "closing", "dead"}
  BY DEF IInv, TypeOK
<1> QED  BY <1>1, <1>2 DEF CanClose, Alive

(* The pool has no deadlock: the locks of _PersistentPluginWorker, the     *)
(* threads of the executor and the closing of processes never wait on each *)
(* other in a circle, with any number of requests and of threads.  That    *)
(* each thread which can run does run then ends every request.             *)
THEOREM PoolHasNoDeadlock == Spec => []NobodyStuck
<1>1. ASSUME IInv, NEW r \in Requests
      PROVE  /\ pc[r] \in InThread \ {"request"} => CanRun(r)
             /\ pc[r] = "request" => CanRun(r) \/ HolderCanRun(r)
             /\ pc[r] = "queued" =>
                  CanRun(r) \/ SweepCanRun \/ \E q \in Requests : pc[q] \in InThread
  <2> USE <1>1
  <2>1. ASSUME NEW q \in Requests, pc[q] \in InThread \ {"request"}
        PROVE  CanRun(q)
    <3>1. CASE pc[q] \in {"lookup", "waiting"}
      BY <3>1 DEF CanRun
    <3>2. CASE pc[q] \in {"replacing", "abandoning"}
      <4>1. stale[q] = {} \/ CanClose(q)
        BY ClosingGoesOn DEF Agents
      <4> QED  BY <3>2, <4>1 DEF CanRun
    <3>3. CASE pc[q] = "oneshot"
      <4>1. worker[q] \in Requests /\ proc[worker[q]] # "none"
        BY <3>3 DEF IInv, WorkerInv, Talking
      <4>2. Alive(worker[q]) \/ proc[worker[q]] = "dead"
        BY <4>1 DEF IInv, TypeOK, Alive
      <4> QED  BY <3>3, <4>2 DEF CanRun
    <3> QED  BY <2>1, <3>1, <3>2, <3>3 DEF InThread
  <2>2. CASE pc[r] = "request"
    <3>1. worker[r] \in Requests
      BY <2>2 DEF IInv, WorkerInv, Talking
    <3>2. CASE lock[worker[r]] = None
      BY <2>2, <3>2 DEF CanRun, InThread
    <3>3. CASE lock[worker[r]] # None
      <4>1. lock[worker[r]] \in Requests
        BY <3>1, <3>3 DEF IInv, TypeOK
      <4>2. pc[lock[worker[r]]] \in {"waiting", "abandoning"}
        BY <3>1, <4>1 DEF IInv, LockInv
      <4>3. CanRun(lock[worker[r]])
        BY <2>1, <4>1, <4>2 DEF InThread
      <4> QED  BY <2>2, <4>1, <4>3 DEF HolderCanRun, InThread
    <3> QED  BY <2>2, <3>2, <3>3
  <2>3. CASE pc[r] = "queued"
    <3>1. CASE {q \in Requests : pc[q] \in InThread} = {} /\ server # "sweeping"
      <4>1. Cardinality({q \in Requests : pc[q] \in InThread}) = 0
        BY <3>1, FS_EmptySet
      <4>2. PoolFree
        BY <3>1, <4>1, ConstantsAssumption DEF PoolFree
      <4> QED  BY <2>3, <4>2 DEF CanRun, InThread
    <3>2. CASE \E q \in Requests : pc[q] \in InThread
      BY <2>3, <3>2 DEF InThread
    <3>3. CASE server = "sweeping"
      <4>1. SweepCanRun
        BY <3>3, ClosingGoesOn DEF Agents, SweepCanRun
      <4> QED  BY <2>3, <4>1 DEF InThread
    <3> QED  BY <3>1, <3>2, <3>3
  <2> QED  BY <2>1, <2>2, <2>3
<1>2. IInv => NobodyStuck
  BY <1>1 DEF NobodyStuck
<1> QED BY <1>2, Invariant, PTL

-----------------------------------------------------------------------------
(***************************************************************************)
(* PluginWorkers implements PluginService: each step of the server, its    *)
(* threads and its processes is a step of the service or changes nothing a *)
(* browser can see.  A request's steps between being asked and being       *)
(* answered are stutters; what they must not disturb are the replies that  *)
(* were already given, whose processes may be closed but keep their keys.  *)
(***************************************************************************)

(* The groups of variables are abbreviations throughout.                   *)
USE DEF adminVars, threadVars, poolVars, procVars

Pending == InThread \cup {"queued"}

(* What the service shows of a request s is what it showed before.         *)
Unseen(s) ==
  /\ PhaseOf(s)' = PhaseOf(s)
  /\ UnderOf(s)' = UnderOf(s)
  /\ ReplyOf(s)' = ReplyOf(s)

(* A state of the pool that no request's eye can tell from the last one.   *)
LEMMA StutterStep ==
  ASSUME \A s \in Requests : Unseen(s)
  PROVE  UNCHANGED Service!vars
BY DEF Unseen, Service!vars

(* One request fails, and the others see nothing.                          *)
LEMMA FailStep ==
  ASSUME NEW r \in Requests,
         PhaseOf(r) = "pending", PhaseOf(r)' = "done",
         UnderOf(r)' = UnderOf(r), ReplyOf(r)' = ReplyOf(r),
         \A s \in Requests \ {r} : Unseen(s)
  PROVE  Service!Next
<1>1. /\ [s \in Requests |-> PhaseOf(s)]' = [[s \in Requests |-> PhaseOf(s)] EXCEPT ![r] = "done"]
      /\ UNCHANGED <<[s \in Requests |-> UnderOf(s)], [s \in Requests |-> ReplyOf(s)]>>
  BY DEF Unseen
<1> QED BY <1>1 DEF Service!Next, Service!Fail

(* What every step of the pool keeps of an answered request: who it asked, *)
(* what it was told and the key of the process that told it.               *)
LEMMA AnsweredStays ==
  ASSUME ConstantsAssumption, IInv, NEW s \in Requests, outcome[s] = "result",
         worker'[s] = worker[s], outcome'[s] = outcome[s], got'[s] = got[s],
         \A w \in Requests : pc[w] \notin {"idle", "queued"} => want'[w] = want[w]
  PROVE  ReplyOf(s)' = ReplyOf(s)
<1>1. worker[s] \in Requests /\ proc[worker[s]] # "none"
  BY DEF IInv, ResultInv
<1>2. want'[worker[s]] = want[worker[s]]
  BY <1>1 DEF IInv, BirthInv, Early
<1> QED BY <1>2 DEF ReplyOf

(* A step that ends no request and changes neither keys nor answers is     *)
(* unseen: a request that moves on stays pending.                          *)
LEMMA QuietStep ==
  ASSUME ConstantsAssumption, IInv,
         UNCHANGED <<want, outcome, got>>,
         \A s \in Requests : PhaseOf(s)' = PhaseOf(s),
         \A s \in Requests : outcome[s] = "result" => worker'[s] = worker[s]
  PROVE  UNCHANGED Service!vars
<1>1. ASSUME NEW s \in Requests PROVE Unseen(s)
  <2>1. UnderOf(s)' = UnderOf(s)
    BY DEF UnderOf, PhaseOf
  <2>2. ReplyOf(s)' = ReplyOf(s)
    <3>1. CASE outcome[s] = "result"
      BY <3>1, AnsweredStays
    <3>2. CASE outcome[s] # "result"
      BY <3>2 DEF ReplyOf
    <3> QED BY <3>1, <3>2
  <2> QED BY <2>1, <2>2 DEF Unseen
<1> QED BY <1>1, StutterStep

(* A request that ends without a result fails, whatever it took from the   *)
(* queue of its worker.                                                    *)
LEMMA FinishStep ==
  ASSUME ConstantsAssumption, IInv, NEW r \in Requests,
         NEW how \in {"refused", "error", "timeout"},
         pc[r] \in Pending, Finish(r, how), UNCHANGED <<want, worker>>,
         \A s \in Requests \ {r} : got'[s] = got[s]
  PROVE  Service!Next
<1>t. /\ pc \in [Requests -> Pending \cup {"idle", "done"}]
      /\ outcome \in [Requests -> {"none", "disabled", "refused", "error", "timeout", "result"}]
      /\ outcome[r] = "none"
  BY DEF IInv, TypeOK, ResultInv, Pending, InThread
<1>1. PhaseOf(r) = "pending" /\ PhaseOf(r)' = "done"
  BY <1>t DEF PhaseOf, Finish, Pending, InThread
<1>2. UnderOf(r)' = UnderOf(r) /\ ReplyOf(r)' = ReplyOf(r)
  BY <1>t DEF UnderOf, ReplyOf, Finish, Pending, InThread
<1>3. ASSUME NEW s \in Requests \ {r} PROVE Unseen(s)
  <2>1. pc'[s] = pc[s] /\ outcome'[s] = outcome[s] /\ got'[s] = got[s]
    BY <1>t DEF Finish
  <2>2. CASE outcome[s] = "result"
    BY <2>1, <2>2, AnsweredStays DEF Unseen, PhaseOf, UnderOf
  <2>3. CASE outcome[s] # "result"
    BY <2>1, <2>3 DEF Unseen, PhaseOf, UnderOf, ReplyOf
  <2> QED BY <2>2, <2>3
<1> QED BY <1>1, <1>2, <1>3, FailStep

(* A request that ends with a result is replied to: with its own answer,   *)
(* by a process that has its key.                                          *)
LEMMA ResultStep ==
  ASSUME ConstantsAssumption, IInv, NEW r \in Requests,
         pc[r] \in Talking, Finish(r, "result"), UNCHANGED <<want, worker>>,
         got' = [got EXCEPT ![r] = r]
  PROVE  Service!Next
<1>t. /\ pc \in [Requests -> Pending \cup {"idle", "done"}]
      /\ outcome \in [Requests -> {"none", "disabled", "refused", "error", "timeout", "result"}]
      /\ got \in [Requests -> Requests \cup {None}]
  BY DEF IInv, TypeOK, Pending, InThread
<1>1. /\ want[r] \in Keys
      /\ want[worker[r]] = want[r]
      /\ None \notin Requests
  BY DEF IInv, KeyInv, WorkerInv, Talking, ConstantsAssumption
<1>2. PhaseOf(r) = "pending" /\ PhaseOf(r)' = "done"
  BY <1>t DEF PhaseOf, Finish, Talking
<1>3. ASSUME NEW s \in Requests \ {r} PROVE Unseen(s)
  <2>1. pc'[s] = pc[s] /\ outcome'[s] = outcome[s] /\ got'[s] = got[s]
    BY <1>t DEF Finish
  <2>2. CASE outcome[s] = "result"
    BY <2>1, <2>2, AnsweredStays DEF Unseen, PhaseOf, UnderOf
  <2>3. CASE outcome[s] # "result"
    BY <2>1, <2>3 DEF Unseen, PhaseOf, UnderOf, ReplyOf
  <2> QED BY <2>2, <2>3
<1>4. ReplyOf(r)' = [to |-> r, grant |-> want[r].grant]
  BY <1>t, <1>1 DEF ReplyOf, Finish
<1>5. UnderOf(r) = want[r].grant /\ UnderOf(r)' = UnderOf(r)
  BY <1>t DEF UnderOf, Finish, Talking
<1> DEFINE P == [s \in Requests |-> PhaseOf(s)]
           U == [s \in Requests |-> UnderOf(s)]
           R == [s \in Requests |-> ReplyOf(s)]
<1>6. /\ P[r] = "pending"
      /\ P' = [P EXCEPT ![r] = "done"]
      /\ R' = [R EXCEPT ![r] = [to |-> r, grant |-> U[r]]]
      /\ U' = U
  BY <1>2, <1>3, <1>4, <1>5 DEF Unseen
<1> QED BY <1>6 DEF Service!Next, Service!Reply

-----------------------------------------------------------------------------
(* Every step of the pool, seen through the mapping.  What is asked for is *)
(* Ask or Decline, what ends is Reply or Fail, and the rest is not seen.   *)
LEMMA MappedStep ==
  ASSUME ConstantsAssumption, IInv, Next
  PROVE  [Service!Next]_(Service!vars)
<1>t. /\ pc \in [Requests -> Pending \cup {"idle", "done"}]
      /\ want \in [Requests -> Keys \cup {None}]
      /\ worker \in [Requests -> Requests \cup {None}]
      /\ outcome \in [Requests -> {"none", "disabled", "refused", "error", "timeout", "result"}]
      /\ got \in [Requests -> Requests \cup {None}]
      /\ \A r \in Requests : pc[r] # "done" => outcome[r] = "none"
  BY DEF IInv, TypeOK, ResultInv, Pending, InThread
<1> USE DEF Pending, InThread, PhaseOf
<1>1. ASSUME NEW m \in Modules, NEW e \in BOOLEAN, NEW g \in Grants, UpdatePluginState(m, e, g)
      PROVE  [Service!Next]_(Service!vars)
  BY <1>t, <1>1, QuietStep DEF UpdatePluginState
<1>2. ASSUME NEW m \in Modules, EditDisk(m)
      PROVE  [Service!Next]_(Service!vars)
  BY <1>t, <1>2, QuietStep DEF EditDisk
<1>3. ASSUME NEW r \in Requests, NEW m \in Modules, RejectDisabled(r, m)
      PROVE  [Service!Next]_(Service!vars)
  <2>1. ASSUME NEW s \in Requests \ {r} PROVE Unseen(s)
    <3>1. /\ pc'[s] = pc[s] /\ want'[s] = want[s] /\ worker'[s] = worker[s]
          /\ outcome'[s] = outcome[s] /\ got'[s] = got[s]
          /\ \A w \in Requests : pc[w] \notin {"idle", "queued"} => want'[w] = want[w]
      BY <1>t, <1>3 DEF RejectDisabled, Finish
    <3>2. CASE outcome[s] = "result"
      BY <3>1, <3>2, AnsweredStays DEF Unseen, UnderOf
    <3>3. CASE outcome[s] # "result"
      BY <3>1, <3>3 DEF Unseen, UnderOf, ReplyOf
    <3> QED BY <3>2, <3>3
  <2>2. /\ PhaseOf(r) = "idle" /\ PhaseOf(r)' = "done"
        /\ UnderOf(r)' = grant[m]
        /\ ReplyOf(r)' = ReplyOf(r)
        /\ grant[m] \in Grants
    <3>1. want'[r] = [module |-> m, grant |-> grant[m], disk |-> 0]
      BY <1>t, <1>3 DEF RejectDisabled
    <3>2. want'[r].grant = grant[m]
      BY <3>1
    <3>3. grant[m] \in Grants
      BY DEF IInv, TypeOK
    <3> QED BY <1>t, <3>2, <3>3, <1>3 DEF RejectDisabled, Finish, UnderOf, ReplyOf
  <2> DEFINE P == [s \in Requests |-> PhaseOf(s)]
             U == [s \in Requests |-> UnderOf(s)]
             R == [s \in Requests |-> ReplyOf(s)]
  <2>3. /\ P[r] = "idle"
        /\ P' = [P EXCEPT ![r] = "done"]
        /\ U' = [U EXCEPT ![r] = grant[m]]
        /\ R' = R
    BY <2>1, <2>2 DEF Unseen
  <2> QED BY <2>2, <2>3 DEF Service!Next, Service!Decline
<1>4. ASSUME NEW r \in Requests, NEW m \in Modules, Enqueue(r, m)
      PROVE  [Service!Next]_(Service!vars)
  <2>1. ASSUME NEW s \in Requests \ {r} PROVE Unseen(s)
    <3>1. /\ pc'[s] = pc[s] /\ want'[s] = want[s] /\ worker'[s] = worker[s]
          /\ outcome'[s] = outcome[s] /\ got'[s] = got[s]
          /\ \A w \in Requests : pc[w] \notin {"idle", "queued"} => want'[w] = want[w]
      BY <1>t, <1>4 DEF Enqueue
    <3>2. CASE outcome[s] = "result"
      BY <3>1, <3>2, AnsweredStays DEF Unseen, UnderOf
    <3>3. CASE outcome[s] # "result"
      BY <3>1, <3>3 DEF Unseen, UnderOf, ReplyOf
    <3> QED BY <3>2, <3>3
  <2>2. /\ PhaseOf(r) = "idle" /\ PhaseOf(r)' = "pending"
        /\ UnderOf(r)' = grant[m]
        /\ ReplyOf(r)' = ReplyOf(r)
        /\ grant[m] \in Grants
    <3>1. want'[r] = [module |-> m, grant |-> grant[m], disk |-> 0]
      BY <1>t, <1>4 DEF Enqueue
    <3>2. want'[r].grant = grant[m]
      BY <3>1
    <3>3. grant[m] \in Grants
      BY DEF IInv, TypeOK
    <3> QED BY <1>t, <3>2, <3>3, <1>4 DEF Enqueue, UnderOf, ReplyOf
  <2> DEFINE P == [s \in Requests |-> PhaseOf(s)]
             U == [s \in Requests |-> UnderOf(s)]
             R == [s \in Requests |-> ReplyOf(s)]
  <2>3. /\ P[r] = "idle"
        /\ P' = [P EXCEPT ![r] = "pending"]
        /\ U' = [U EXCEPT ![r] = grant[m]]
        /\ R' = R
    BY <2>1, <2>2 DEF Unseen
  <2> QED BY <2>2, <2>3 DEF Service!Next, Service!Ask
<1>5. ASSUME NEW r \in Requests, Refuse(r)
      PROVE  [Service!Next]_(Service!vars)
  BY <1>t, <1>5, FinishStep DEF Refuse
<1>6. ASSUME NEW r \in Requests, Begin(r)
      PROVE  [Service!Next]_(Service!vars)
  <2>1. ASSUME NEW s \in Requests \ {r} PROVE Unseen(s)
    <3>1. /\ pc'[s] = pc[s] /\ want'[s] = want[s] /\ worker'[s] = worker[s]
          /\ outcome'[s] = outcome[s] /\ got'[s] = got[s]
          /\ \A w \in Requests : pc[w] \notin {"idle", "queued"} => want'[w] = want[w]
      BY <1>t, <1>6 DEF Begin
    <3>2. CASE outcome[s] = "result"
      BY <3>1, <3>2, AnsweredStays DEF Unseen, UnderOf
    <3>3. CASE outcome[s] # "result"
      BY <3>1, <3>3 DEF Unseen, UnderOf, ReplyOf
    <3> QED BY <3>2, <3>3
  <2>2. want'[r].grant = want[r].grant
    <3>1. want[r] \in Keys
      BY <1>6 DEF Begin, IInv, KeyInv
    <3>2. want'[r] = [want[r] EXCEPT !.disk = disk[ModuleOf(r)]]
      BY <1>t, <1>6 DEF Begin
    <3> QED BY <3>1, <3>2 DEF Keys
  <2>3. Unseen(r)
    BY <1>t, <2>2, <1>6 DEF Begin, Unseen, UnderOf, ReplyOf
  <2> QED BY <2>1, <2>3, StutterStep
<1>7. ASSUME NEW r \in Requests, ReuseWorker(r)
      PROVE  [Service!Next]_(Service!vars)
  BY <1>t, <1>7, QuietStep DEF ReuseWorker
<1>8. ASSUME NEW r \in Requests, ReplaceWorker(r)
      PROVE  [Service!Next]_(Service!vars)
  BY <1>t, <1>8, QuietStep DEF ReplaceWorker
<1>9. ASSUME NEW r \in Requests, SpawnFails(r)
      PROVE  [Service!Next]_(Service!vars)
  BY <1>t, <1>9, FinishStep DEF SpawnFails
<1>10. ASSUME NEW r \in Requests, Replaced(r)
      PROVE  [Service!Next]_(Service!vars)
  BY <1>t, <1>10, QuietStep DEF Replaced
<1>11. ASSUME NEW a \in Agents, CloseStdin(a)
      PROVE  [Service!Next]_(Service!vars)
  BY <1>t, <1>11, QuietStep DEF CloseStdin
<1>12. ASSUME NEW a \in Agents, Terminate(a)
      PROVE  [Service!Next]_(Service!vars)
  BY <1>t, <1>12, QuietStep DEF Terminate, Die
<1>13. ASSUME NEW a \in Agents, Closed(a)
      PROVE  [Service!Next]_(Service!vars)
  BY <1>t, <1>13, QuietStep DEF Closed
<1>14. ASSUME NEW r \in Requests, Send(r)
      PROVE  [Service!Next]_(Service!vars)
  BY <1>t, <1>14, QuietStep DEF Send
<1>15. ASSUME NEW r \in Requests, SendFails(r)
      PROVE  [Service!Next]_(Service!vars)
  BY <1>t, <1>15, FinishStep DEF SendFails
<1>16. ASSUME NEW r \in Requests, Receive(r)
      PROVE  [Service!Next]_(Service!vars)
  <2>1. /\ worker[r] \in Requests
        /\ Head(outbox[worker[r]]).req = r
    BY <1>16 DEF Receive, IInv, OwnLineInv, WorkerInv, Talking
  <2>2. /\ UNCHANGED <<want, worker>>
        /\ got' = [got EXCEPT ![r] = r]
        /\ pc[r] = "waiting"
    BY <2>1, <1>16 DEF Receive
  <2>3. CASE Head(outbox[worker[r]]).ok
    <3>1. Finish(r, "result")
      BY <2>3, <1>16 DEF Receive
    <3> QED BY <2>2, <3>1, ResultStep DEF Talking
  <2>4. CASE ~Head(outbox[worker[r]]).ok
    <3>1. Finish(r, "error")
      BY <2>4, <1>16 DEF Receive
    <3> QED BY <1>t, <2>2, <3>1, FinishStep
  <2> QED BY <2>3, <2>4
<1>17. ASSUME NEW r \in Requests, ReceiveExit(r)
      PROVE  [Service!Next]_(Service!vars)
  BY <1>t, <1>17, FinishStep DEF ReceiveExit
<1>18. ASSUME NEW r \in Requests, Timeout(r)
      PROVE  [Service!Next]_(Service!vars)
  BY <1>t, <1>18, QuietStep DEF Timeout
<1>19. ASSUME NEW r \in Requests, Abandoned(r)
      PROVE  [Service!Next]_(Service!vars)
  BY <1>t, <1>19, FinishStep DEF Abandoned
<1>20. ASSUME NEW r \in Requests, RunOneShot(r)
      PROVE  [Service!Next]_(Service!vars)
  BY <1>t, <1>20, QuietStep DEF RunOneShot
<1>21. ASSUME NEW r \in Requests, CollectOneShot(r)
      PROVE  [Service!Next]_(Service!vars)
  <2>1. pc[r] = "oneshot" /\ UNCHANGED <<want, worker>>
    BY <1>21 DEF CollectOneShot
  <2>2. CASE outbox[worker[r]] = <<>>
    <3>1. Finish(r, "error") /\ got' = got
      BY <2>2, <1>21 DEF CollectOneShot
    <3> QED BY <2>1, <3>1, FinishStep
  <2>3. CASE outbox[worker[r]] # <<>>
    <3>1. PICK how \in {"result", "error"} : Finish(r, how)
      BY <2>3, <1>21 DEF CollectOneShot
    <3>2. Head(outbox[worker[r]]).req = r
      BY <2>1, <2>3 DEF IInv, OwnLineInv
    <3>3. got' = [got EXCEPT ![r] = r]
      BY <2>3, <3>2, <1>21 DEF CollectOneShot
    <3>4. CASE how = "result"
      BY <2>1, <3>1, <3>3, <3>4, ResultStep DEF Talking
    <3>5. CASE how = "error"
      BY <1>t, <2>1, <3>1, <3>3, <3>5, FinishStep
    <3> QED BY <3>4, <3>5
  <2> QED BY <2>2, <2>3
<1>22. ASSUME NEW r \in Requests, TimeoutOneShot(r)
      PROVE  [Service!Next]_(Service!vars)
  BY <1>t, <1>22, FinishStep DEF TimeoutOneShot
<1>23. ASSUME NEW w \in Requests, LoadModule(w)
      PROVE  [Service!Next]_(Service!vars)
  BY <1>t, <1>23, QuietStep DEF LoadModule
<1>24. ASSUME NEW w \in Requests, NEW ok \in BOOLEAN, Answer(w, ok)
      PROVE  [Service!Next]_(Service!vars)
  BY <1>t, <1>24, QuietStep DEF Answer
<1>25. ASSUME NEW w \in Requests, ExitAtEof(w)
      PROVE  [Service!Next]_(Service!vars)
  BY <1>t, <1>25, QuietStep DEF ExitAtEof, Die
<1>26. ASSUME NEW w \in Requests, Crash(w)
      PROVE  [Service!Next]_(Service!vars)
  BY <1>t, <1>26, QuietStep DEF Crash, Die
<1>27. CASE Stop
  BY <1>t, <1>27, QuietStep DEF Stop
<1>28. CASE LifespanSweep
  BY <1>t, <1>28, QuietStep DEF LifespanSweep, Sweep
<1>29. CASE LifespanSwept
  BY <1>t, <1>29, QuietStep DEF LifespanSwept
<1>30. CASE AtexitSweep
  BY <1>t, <1>30, QuietStep DEF AtexitSweep, Sweep
<1>31. CASE Exit
  BY <1>t, <1>31, QuietStep DEF Exit
<1>32. CASE Halted
  BY <1>t, <1>32, QuietStep DEF Halted, vars
<1> QED BY <1>1, <1>2, <1>3, <1>4, <1>5, <1>6, <1>7, <1>8, <1>9, <1>10, <1>11, <1>12, <1>13,
     <1>14, <1>15, <1>16, <1>17, <1>18, <1>19, <1>20, <1>21, <1>22, <1>23, <1>24, <1>25,
     <1>26, <1>27, <1>28, <1>29, <1>30, <1>31, <1>32 DEF Next, Admin, Handle, Thread, Close,
     Process, Shutdown, Agents

-----------------------------------------------------------------------------
(* Every behaviour of the pool, whatever its size, is one of the service:  *)
(* a request is answered at most once, with its own result, computed under *)
(* the approvals and secrets it was asked with.                            *)
THEOREM PoolImplementsService == Spec => ImplementsService
<1>1. Init => Service!Init
  BY DEF Init, Service!Init, PhaseOf, UnderOf, ReplyOf
<1>2. IInv /\ [Next]_vars => [Service!Next]_(Service!vars)
  <2>1. ASSUME IInv, UNCHANGED vars PROVE UNCHANGED Service!vars
    BY <2>1 DEF vars, Service!vars, PhaseOf, UnderOf, ReplyOf
  <2> QED BY <2>1, MappedStep, ConstantsAssumption
<1> QED BY <1>1, <1>2, Invariant, PTL DEF Spec, ImplementsService, Service!Spec
=============================================================================

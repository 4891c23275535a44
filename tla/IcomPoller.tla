------------------------------ MODULE IcomPoller ------------------------------
(* The IC-705 plugin's SharedRadioPoller inside one persistent plugin process.  *)
(* The process's main thread renders one request at a time: it makes sure that  *)
(* a polling thread with the request's settings runs, then shows the snapshot   *)
(* the polling thread keeps.  A thread that is told to stop may be in the       *)
(* middle of a dozen radio commands, so the render waits for it only so long.   *)
EXTENDS FiniteSets

CONSTANTS
  Settings,      \* fingerprints of the settings a request can carry
  None,          \* no settings yet, no measurements yet
  Threads,       \* polling threads; one that has ended can stand for a new one
  NoThread       \* no thread was made yet

ASSUME ConstantsAssumption == None \notin Settings /\ NoThread \notin Threads

VARIABLES
  caller,        \* where the main thread is
  want,          \* the settings of the last request
  late,          \* that request gave up waiting for the previous thread
  shown,         \* the settings its answer's measurements were taken with
  thread,        \* _thread
  force,         \* _config, as its fingerprint
  pc,            \* where each polling thread is
  config,        \* the settings each was started with
  stop,          \* the threads whose stop event is set
  state,         \* _snapshot["state"]; "connected" there is this being "connected"
  data           \* the settings the snapshot's measurements were taken with

vars == <<caller, want, late, shown, thread, force, pc, config, stop, state, data>>
request == <<want, late, shown>>
poller == <<thread, force, config, stop>>

Alive(t) == t \in Threads /\ pc[t] # "ended"

TypeOK ==
  /\ caller \in {"idle", "ensure", "join", "gaveup", "start", "read", "stopping", "gone"}
  /\ want \in Settings \union {None} /\ shown \in Settings \union {None}
  /\ late \in BOOLEAN
  /\ thread \in Threads \union {NoThread}
  /\ force \in Settings \union {None}
  /\ pc \in [Threads -> {"ended", "launched", "running", "connecting", "connected",
                          "polling", "closing", "failing", "ending"}]
  /\ config \in [Threads -> Settings \union {None}]
  /\ stop \in SUBSET Threads
  /\ state \in {"idle", "starting", "restarting", "connecting", "connected", "error",
                "stopped"}
  /\ data \in Settings \union {None}

Init ==
  /\ caller = "idle" /\ want = None /\ late = FALSE /\ shown = None
  /\ thread = NoThread /\ force = None
  /\ pc = [t \in Threads |-> "ended"] /\ config = [t \in Threads |-> None] /\ stop = {}
  /\ state = "idle" /\ data = None

-------------------------------------------------------------------------------
(* The main thread: render, then shutdown *)

Render(s) ==
  /\ caller = "idle" /\ caller' = "ensure"
  /\ want' = s /\ late' = FALSE /\ shown' = None
  /\ UNCHANGED <<thread, force, pc, config, stop, state, data>>

\* a slip: any thread will do
AnyThreadServes == Alive(thread)

\* ensure_started finds the thread it needs
Serves == force = want /\ Alive(thread)

\* the first block under the lock: keep the thread, or tell it to stop, or go on
KeepThread ==
  /\ caller = "ensure" /\ Serves /\ caller' = "read"
  /\ UNCHANGED <<request, poller, pc, state, data>>

\* a slip: the thread is waited for and not told
WaitOnly ==
  /\ caller = "ensure" /\ ~Serves /\ Alive(thread) /\ caller' = "join"
  /\ UNCHANGED <<request, poller, pc, state, data>>

StopThread ==
  /\ caller = "ensure" /\ ~Serves /\ Alive(thread)
  /\ stop' = stop \union {thread} /\ caller' = "join"
  /\ UNCHANGED <<request, thread, force, pc, config, state, data>>

NoThreadRuns ==
  /\ caller = "ensure" /\ ~Alive(thread) /\ caller' = "start"
  /\ UNCHANGED <<request, poller, pc, state, data>>

\* old_thread.join(timeout=3.0) and the is_alive() that follows
Joined ==
  /\ caller = "join" /\ ~Alive(thread) /\ caller' = "start"
  /\ UNCHANGED <<request, poller, pc, state, data>>

\* slips: a join without a timeout; a start whatever became of the join
JoinForever == FALSE /\ UNCHANGED vars

GoOnAnyway ==
  /\ caller = "join" /\ Alive(thread) /\ caller' = "start"
  /\ UNCHANGED <<request, poller, pc, state, data>>

JoinTimesOut ==
  /\ caller = "join" /\ Alive(thread) /\ caller' = "gaveup" /\ late' = TRUE
  /\ UNCHANGED <<want, shown, poller, pc, state, data>>

\* the thread may have written anything, or have ended, before this update
TellWaiting ==
  /\ caller = "gaveup" /\ caller' = "read" /\ state' = "restarting"
  /\ UNCHANGED <<request, poller, pc, data>>

\* a slip: the snapshot is updated and keeps its measurements
InstallOverOld(t) ==
  /\ caller = "start" /\ pc[t] = "ended"
  /\ thread' = t /\ force' = want /\ config' = [config EXCEPT ![t] = want]
  /\ stop' = stop \ {t}
  /\ state' = "starting"
  /\ UNCHANGED <<request, data>>

\* the second block under the lock; _empty_snapshot has no measurements
Install(t) ==
  /\ caller = "start" /\ pc[t] = "ended"
  /\ thread' = t /\ force' = want /\ config' = [config EXCEPT ![t] = want]
  /\ stop' = stop \ {t}
  /\ state' = "starting" /\ data' = None
  /\ UNCHANGED request

Start(t) == Install(t) /\ pc' = [pc EXCEPT ![t] = "launched"] /\ caller' = "read"

\* Thread.start() raises: the render answers with the error
StartFails(t) == Install(t) /\ UNCHANGED pc /\ caller' = "idle"

\* snapshot() and _render_widget
Show ==
  /\ caller = "read" /\ caller' = "idle" /\ shown' = data
  /\ UNCHANGED <<want, late, poller, pc, state, data>>

\* a slip: with no thread yet, the event of no thread
ShutdownNothing ==
  /\ caller = "idle" /\ caller' = "stopping"
  /\ stop' = stop \union {thread}
  /\ UNCHANGED <<request, thread, force, pc, config, state, data>>

\* the input of the process has ended: shutdown, and stop's join of at most 4 s
Shutdown ==
  /\ caller = "idle" /\ caller' = "stopping"
  /\ stop' = stop \union ({thread} \ {NoThread})
  /\ UNCHANGED <<request, thread, force, pc, config, state, data>>

\* the threads are daemons: they end with the process
Gone ==
  /\ caller' = "gone" /\ pc' = [t \in Threads |-> "ended"]
  /\ UNCHANGED <<request, poller, state, data>>

Leave == caller = "stopping" /\ Gone

\* the pool kills the process
Kill == caller # "gone" /\ Gone

Main ==
  \/ \E s \in Settings : Render(s)
  \/ KeepThread \/ StopThread \/ NoThreadRuns
  \/ Joined \/ JoinTimesOut \/ TellWaiting
  \/ \E t \in Threads : Start(t) \/ StartFails(t)
  \/ Show \/ Leave

-------------------------------------------------------------------------------
(* A polling thread: _run.  Its two sleeps are part of the step before them.   *)

Goes(t, from, to) ==
  /\ pc[t] = from /\ pc' = [pc EXCEPT ![t] = to]
  /\ UNCHANGED <<caller, request, poller>>

\* asyncio.run begins; one that raises, now or at its end, is an error too
Launch(t) == Goes(t, "launched", "running") /\ UNCHANGED <<state, data>>

Crashes(t) ==
  /\ Goes(t, "launched", "ended") \/ Goes(t, "ending", "ended")
  /\ state' = "error" /\ UNCHANGED data

\* the outer loop
Connect(t) ==
  /\ Goes(t, "running", "connecting") /\ t \notin stop
  /\ state' = "connecting" /\ UNCHANGED data

\* a slip: the thread ends without a last update
StopsSilently(t) ==
  /\ Goes(t, "running", "ending") /\ t \in stop /\ UNCHANGED <<state, data>>

Stopped(t) ==
  /\ Goes(t, "running", "ending") /\ t \in stop
  /\ state' = "stopped" /\ UNCHANGED data

Connected(t) ==
  /\ Goes(t, "connecting", "connected") /\ state' = "connected" /\ UNCHANGED data

ConnectFails(t) ==
  /\ Goes(t, "connecting", "running") /\ state' = "error" /\ UNCHANGED data

\* the inner loop, which also ends when the radio says it is not connected
Poll(t) ==
  /\ Goes(t, "connected", "polling") /\ t \notin stop /\ UNCHANGED <<state, data>>

LeaveLoop(t) == Goes(t, "connected", "closing") /\ UNCHANGED <<state, data>>

\* _poll_once's update at its end, whether or not the thread is to stop
Polled(t) ==
  /\ Goes(t, "polling", "connected")
  /\ state' = "connected" /\ data' = config[t]

\* a required command fails: the connection is closed first, then the update
PollFails(t) == Goes(t, "polling", "failing") /\ UNCHANGED <<state, data>>

Closed(t) == Goes(t, "closing", "running") /\ UNCHANGED <<state, data>>

CloseFails(t) ==
  /\ Goes(t, "closing", "running") /\ state' = "error" /\ UNCHANGED data

Failed(t) ==
  /\ Goes(t, "failing", "running") /\ state' = "error" /\ UNCHANGED data

\* asyncio.run closes its loop
Ended(t) == Goes(t, "ending", "ended") /\ UNCHANGED <<state, data>>

Poller(t) ==
  \/ Launch(t) \/ Connect(t) \/ Stopped(t)
  \/ Connected(t) \/ ConnectFails(t)
  \/ Poll(t) \/ LeaveLoop(t) \/ Polled(t) \/ PollFails(t)
  \/ Closed(t) \/ CloseFails(t) \/ Failed(t)
  \/ Ended(t) \/ Crashes(t)

Next == Main \/ Shutdown \/ Kill \/ \E t \in Threads : Poller(t)

Spec == Init /\ [][Next]_vars

\* the main thread goes on, and the pages that show the cards ask again
FairSpec == Spec /\ WF_vars(Main)

-------------------------------------------------------------------------------
(* The radio accepts one remote user: a second thread is never made while one   *)
(* lives, however long that one needs to end, and the one that lives is the one *)
(* a stop would reach.                                                          *)
OneConnection == \A t \in Threads : Alive(t) => t = thread

(* The snapshot's measurements were taken with the settings in force: nothing a *)
(* former thread wrote outlives the change of settings, and no former thread    *)
(* writes after it.                                                             *)
SnapshotIsInForce == data \in {None, force}

(* A card shows measurements taken with other settings than its own only when   *)
(* it gave up waiting for the thread that took them.                            *)
ShownIsRequested == caller = "idle" /\ ~late => shown \in {None, want}

(* A snapshot that says connected has a thread behind it that is past           *)
(* connecting and has not left its loop for good, unless the process is gone:   *)
(* a thread's way out always goes through an update.                            *)
ConnectedIsBacked ==
  state = "connected" /\ caller # "gone" =>
    \E t \in Threads : pc[t] \in {"connected", "polling", "closing", "failing", "running"}

(* Every render, and the shutdown, ends even when the backend's calls never     *)
(* return: only the main thread is assumed to go on.                            *)
EveryRenderEnds == caller \notin {"idle", "gone"} ~> caller \in {"idle", "gone"}

(* When renders keep asking for one fingerprint and the radio's calls return,   *)
(* its settings come into force for good under a thread that nobody told to     *)
(* stop, whatever changes came before.                                          *)
SettingsTakeHold ==
  (\A t \in Threads : WF_vars(Poller(t))) =>
    \A s \in Settings :
      <>[](want = s /\ caller \notin {"stopping", "gone"})
        => <>[](force = s /\ thread \notin stop)
=============================================================================

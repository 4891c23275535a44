--------------------------- MODULE IcomPollerProofs ---------------------------
(* The safety properties of IcomPoller, for any settings and number of threads. *)
EXTENDS IcomPoller, Naturals, TLAPS

(* The thread that lives is _thread, and it was started with the settings in    *)
(* force: what it writes is what the snapshot may hold.                         *)
ThreadInv == \A t \in Threads : Alive(t) => t = thread /\ config[t] = force

(* A thread is only made when none lives, a render that waited for none reads   *)
(* under its own settings, and before it reads it has nothing to show.          *)
CallerInv ==
  /\ caller = "start" => \A t \in Threads : ~Alive(t)
  /\ caller = "read" /\ ~late => force = want
  /\ caller = "gaveup" => late
  /\ caller \in {"ensure", "join", "gaveup", "start", "read"} => shown = None

IInv ==
  /\ TypeOK /\ ThreadInv /\ CallerInv
  /\ SnapshotIsInForce /\ ShownIsRequested /\ ConnectedIsBacked

LEMMA InitInv == Init => IInv
BY DEF Init, IInv, TypeOK, ThreadInv, CallerInv, SnapshotIsInForce, ShownIsRequested,
       ConnectedIsBacked, Alive

(* A step of a polling thread: only the thread itself and the snapshot change.  *)
LEMMA PollerInv ==
  ASSUME IInv, NEW t \in Threads, Poller(t)
  PROVE  IInv'
<1> USE DEF IInv, Alive, Goes, request, poller
<1> DEFINE Backing == {"connected", "polling", "closing", "failing", "running"}
<1>1. /\ pc[t] # "ended"
      /\ \E to \in {"ended", "running", "connecting", "connected", "polling", "closing",
                    "failing", "ending"} : pc' = [pc EXCEPT ![t] = to]
      /\ state' \in {"connecting", "connected", "error", "stopped", state}
      /\ data' \in {data, config[t]}
      /\ UNCHANGED <<caller, want, late, shown, thread, force, config, stop>>
  BY DEF Poller, TypeOK, Launch, Crashes, Connect, Stopped, Connected, ConnectFails, Poll,
         LeaveLoop, Polled, PollFails, Closed, CloseFails, Failed, Ended
<1>2. t = thread /\ config[t] = force
  BY <1>1 DEF ThreadInv
<1>3. TypeOK'
  BY <1>1 DEF TypeOK
<1>4. ThreadInv'
  BY <1>1, <1>2 DEF ThreadInv, TypeOK
<1>5. CallerInv'
  BY <1>1 DEF CallerInv, TypeOK
<1>6. SnapshotIsInForce' /\ ShownIsRequested'
  BY <1>1, <1>2 DEF SnapshotIsInForce, ShownIsRequested
<1>7. ConnectedIsBacked'
  <2> SUFFICES ASSUME state' = "connected", caller # "gone"
               PROVE  \E u \in Threads : pc'[u] \in Backing
    BY <1>1 DEF ConnectedIsBacked
  <2>1. state = "connected" => pc[t] \in Backing
    BY <1>1, <1>2 DEF ConnectedIsBacked, ThreadInv, TypeOK
  <2>2. pc'[t] \in Backing
    BY <2>1 DEF Poller, TypeOK, Launch, Crashes, Connect, Stopped, Connected, ConnectFails,
                Poll, LeaveLoop, Polled, PollFails, Closed, CloseFails, Failed, Ended
  <2> QED
    BY <2>2
<1> QED
  BY <1>3, <1>4, <1>5, <1>6, <1>7

(* A step of the main thread, or the end of the process.                        *)
LEMMA MainInv ==
  ASSUME IInv, Main \/ Shutdown \/ Kill
  PROVE  IInv'
<1> USE DEF IInv, Alive, request, poller
<1>1. ASSUME NEW s \in Settings, Render(s) PROVE IInv'
  BY <1>1 DEF Render, TypeOK, ThreadInv, CallerInv, SnapshotIsInForce, ShownIsRequested,
              ConnectedIsBacked
<1>2. CASE KeepThread
  BY <1>2 DEF KeepThread, Serves, TypeOK, ThreadInv, CallerInv, SnapshotIsInForce,
              ShownIsRequested, ConnectedIsBacked
<1>3. CASE StopThread
  BY <1>3 DEF StopThread, TypeOK, ThreadInv, CallerInv, SnapshotIsInForce,
              ShownIsRequested, ConnectedIsBacked
<1>4. CASE NoThreadRuns \/ Joined
  BY <1>4 DEF NoThreadRuns, Joined, TypeOK, ThreadInv, CallerInv, SnapshotIsInForce,
              ShownIsRequested, ConnectedIsBacked
<1>5. CASE JoinTimesOut \/ TellWaiting
  BY <1>5 DEF JoinTimesOut, TellWaiting, TypeOK, ThreadInv, CallerInv,
              SnapshotIsInForce, ShownIsRequested, ConnectedIsBacked
<1>6. ASSUME NEW t \in Threads, Start(t) \/ StartFails(t) PROVE IInv'
  <2> USE <1>6 DEF Start, StartFails, Install
  <2>1. want \in Settings \union {None} /\ \A u \in Threads : pc[u] = "ended"
    BY DEF TypeOK, CallerInv
  <2>2. TypeOK' /\ ThreadInv'
    BY <2>1 DEF TypeOK, ThreadInv
  <2>3. CallerInv' /\ SnapshotIsInForce' /\ ConnectedIsBacked'
    BY DEF CallerInv, SnapshotIsInForce, ConnectedIsBacked
  <2>4. ShownIsRequested'
    BY DEF ShownIsRequested, CallerInv
  <2> QED
    BY <2>2, <2>3, <2>4
<1>7. CASE Show
  BY <1>7 DEF Show, TypeOK, ThreadInv, CallerInv, SnapshotIsInForce, ShownIsRequested,
              ConnectedIsBacked
<1>8. CASE Shutdown
  BY <1>8 DEF Shutdown, TypeOK, ThreadInv, CallerInv, SnapshotIsInForce,
              ShownIsRequested, ConnectedIsBacked
<1>9. CASE Leave \/ Kill
  BY <1>9 DEF Leave, Kill, Gone, TypeOK, ThreadInv, CallerInv, SnapshotIsInForce,
              ShownIsRequested, ConnectedIsBacked
<1> QED
  BY <1>1, <1>2, <1>3, <1>4, <1>5, <1>6, <1>7, <1>8, <1>9 DEF Main

LEMMA Invariance == Spec => []IInv
<1>1. IInv /\ [Next]_vars => IInv'
  <2> SUFFICES ASSUME IInv, [Next]_vars PROVE IInv'
    OBVIOUS
  <2>1. CASE Next
    BY <2>1, PollerInv, MainInv DEF Next
  <2>2. CASE UNCHANGED vars
    BY <2>2 DEF vars, IInv, TypeOK, ThreadInv, CallerInv, SnapshotIsInForce,
                ShownIsRequested, ConnectedIsBacked, Alive
  <2> QED
    BY <2>1, <2>2
<1> QED
  BY InitInv, <1>1, PTL DEF Spec

(* The poller's variables keep their types.                                     *)
THEOREM TypeCorrect == Spec => []TypeOK
<1>1. IInv => TypeOK
  BY DEF IInv
<1> QED
  BY <1>1, Invariance, PTL

(* ensure_started never has two polling threads alive, however its renders, its *)
(* joins that time out and its threads that fail to start follow one another.   *)
THEOREM OneThread == Spec => []OneConnection
<1>1. IInv => OneConnection
  BY DEF IInv, ThreadInv, OneConnection
<1> QED
  BY <1>1, Invariance, PTL

(* The snapshot never holds what was measured under settings no longer in force.*)
THEOREM MeasurementsInForce == Spec => []SnapshotIsInForce
<1>1. IInv => SnapshotIsInForce
  BY DEF IInv
<1> QED
  BY <1>1, Invariance, PTL

(* A render that did not give up waiting shows measurements of its own settings.*)
THEOREM CardsShowOwn == Spec => []ShownIsRequested
<1>1. IInv => ShownIsRequested
  BY DEF IInv
<1> QED
  BY <1>1, Invariance, PTL

(* While the process runs, a snapshot that says connected has its thread.       *)
THEOREM ConnectedHasThread == Spec => []ConnectedIsBacked
<1>1. IInv => ConnectedIsBacked
  BY DEF IInv
<1> QED
  BY <1>1, Invariance, PTL

-------------------------------------------------------------------------------
(* How settings take hold.  The ones the last render asked for do when a thread *)
(* with them was made and nobody told it to stop.                               *)
Held == force = want /\ thread \notin stop

\* how many more of its own steps a thread that was told to stop takes at most
StepsLeft ==
  [ended |-> 0, ending |-> 1, running |-> 2, launched |-> 3, closing |-> 3, failing |-> 3,
   connected |-> 4, connecting |-> 5, polling |-> 5]

(* A render of new settings leaves them in force, or has told the thread in the *)
(* way to stop, also when it gave up waiting (ensure_started).                  *)
ToldOrForced == caller = "idle" /\ want # None => force = want \/ thread \in stop

(* A thread that was told to stop stays told until it has ended, and each step  *)
(* brings it nearer to that (_run's two loops).  A render that finds none       *)
(* leaves its settings held, and while no other settings are asked for they     *)
(* stay so, whether the thread polls, fails or crashes (ensure_started, _run).  *)
HoldsOn ==
  [][/\ \A t \in stop : Alive(t) =>
          t \in stop' /\ (pc'[t] # pc[t] => StepsLeft[pc'[t]] < StepsLeft[pc[t]])
     /\ caller = "start" /\ caller' \in {"read", "idle"} => Held'
     /\ Held /\ want' = want /\ caller' \notin {"stopping", "gone"} => Held']_vars

TellInv ==
  /\ caller \in {"join", "gaveup"} => thread \in stop
  /\ caller = "read" => force = want \/ thread \in stop
  /\ ToldOrForced

LEMMA TellStep == IInv /\ TellInv /\ [Next]_vars => TellInv'
<1> SUFFICES ASSUME IInv, TellInv, [Next]_vars PROVE TellInv'
  OBVIOUS
<1> USE DEF TellInv, ToldOrForced, request, poller
<1>1. CASE UNCHANGED <<caller, want, thread, force, stop>>
  BY <1>1
<1>2. ASSUME NEW t \in Threads, Poller(t) PROVE TellInv'
  <2>1. UNCHANGED <<caller, want, thread, force, stop>>
    BY <1>2 DEF Poller, Goes, Launch, Crashes, Connect, Stopped, Connected, ConnectFails, Poll,
                LeaveLoop, Polled, PollFails, Closed, CloseFails, Failed, Ended
  <2> QED
    BY <1>1, <2>1
<1>3. CASE (\E s \in Settings : Render(s)) \/ Shutdown \/ Leave \/ Kill
  BY <1>3 DEF Render, Shutdown, Leave, Kill, Gone
<1>4. CASE KeepThread \/ StopThread \/ NoThreadRuns
  BY <1>4 DEF KeepThread, Serves, StopThread, NoThreadRuns
<1>5. CASE Joined \/ JoinTimesOut \/ TellWaiting \/ Show
  BY <1>5 DEF Joined, JoinTimesOut, TellWaiting, Show
<1>6. CASE \E t \in Threads : Start(t) \/ StartFails(t)
  BY <1>6 DEF Start, StartFails, Install
<1> QED
  BY <1>1, <1>2, <1>3, <1>4, <1>5, <1>6 DEF Next, Main, vars

LEMMA TellInvariance == Spec => [](IInv /\ TellInv)
<1>1. Init => TellInv
  BY DEF Init, TellInv, ToldOrForced
<1> QED
  BY <1>1, TellStep, Invariance, PTL DEF Spec

\* a thread that was told to stop goes towards its end
LEMMA Nearer ==
  ASSUME IInv, NEW t \in stop, NEW u \in Threads, Poller(u), pc'[t] # pc[t]
  PROVE  StepsLeft[pc'[t]] < StepsLeft[pc[t]]
<1>1. t = u /\ pc[t] \in DOMAIN StepsLeft
  BY DEF IInv, TypeOK, StepsLeft, Poller, Goes, Launch, Crashes, Connect, Stopped, Connected,
         ConnectFails, Poll, LeaveLoop, Polled, PollFails, Closed, CloseFails, Failed, Ended
<1>2. \/ pc[t] = "launched" /\ pc'[t] \in {"running", "ended"}
      \/ pc[t] = "running" /\ pc'[t] = "ending"
      \/ pc[t] = "connecting" /\ pc'[t] \in {"connected", "running"}
      \/ pc[t] = "connected" /\ pc'[t] = "closing"
      \/ pc[t] = "polling" /\ pc'[t] \in {"connected", "failing"}
      \/ pc[t] \in {"closing", "failing"} /\ pc'[t] = "running"
      \/ pc[t] = "ending" /\ pc'[t] = "ended"
  BY <1>1 DEF IInv, TypeOK, Poller, Goes, Launch, Crashes, Connect, Stopped, Connected,
              ConnectFails, Poll, LeaveLoop, Polled, PollFails, Closed, CloseFails, Failed, Ended
<1> QED
  BY <1>2 DEF StepsLeft

(* What SettingsTakeHold rests on besides fairness.                             *)
THEOREM SettingsHold == Spec => []ToldOrForced /\ HoldsOn
<1>1. ASSUME IInv, Next, NEW t \in stop, Alive(t)
      PROVE  t \in stop' /\ (pc'[t] # pc[t] => StepsLeft[pc'[t]] < StepsLeft[pc[t]])
  <2>1. pc[t] # "ended" /\ pc[t] \in DOMAIN StepsLeft
    BY <1>1 DEF IInv, TypeOK, Alive, StepsLeft
  <2>2. CASE \E u \in Threads : Poller(u)
    <3>1. stop' = stop
      BY <2>2 DEF Poller, Goes, Launch, Crashes, Connect, Stopped, Connected, ConnectFails, Poll,
                  LeaveLoop, Polled, PollFails, Closed, CloseFails, Failed, Ended, poller
    <3> QED
      BY <1>1, <2>2, <3>1, Nearer
  <2>3. CASE \E u \in Threads : Start(u) \/ StartFails(u)
    BY <1>1, <2>3 DEF Start, StartFails, IInv, CallerInv, Install, Alive
  <2>4. CASE Leave \/ Kill
    <3>1. stop' = stop /\ pc'[t] = "ended"
      BY <1>1, <2>4 DEF Leave, Kill, Gone, poller, Alive
    <3> QED
      BY <2>1, <3>1 DEF StepsLeft
  <2>5. CASE (\E s \in Settings : Render(s)) \/ KeepThread \/ StopThread \/ NoThreadRuns
             \/ Joined \/ JoinTimesOut \/ TellWaiting \/ Show \/ Shutdown
    BY <2>5 DEF Render, KeepThread, StopThread, NoThreadRuns, Joined, JoinTimesOut, TellWaiting,
                Show, Shutdown, poller
  <2> QED
    BY <1>1, <2>2, <2>3, <2>4, <2>5 DEF Next, Main
<1>2. ASSUME Next, caller = "start", caller' \in {"read", "idle"}
      PROVE  Held'
  <2>1. \E t \in Threads : Start(t) \/ StartFails(t)
    BY <1>2 DEF Next, Main, Render, KeepThread, StopThread, NoThreadRuns, Joined, JoinTimesOut,
                TellWaiting, Show, Leave, Gone, Shutdown, Kill, Poller, Goes, Launch, Crashes,
                Connect, Stopped, Connected, ConnectFails, Poll, LeaveLoop, Polled, PollFails,
                Closed, CloseFails, Failed, Ended
  <2> QED
    BY <2>1 DEF Start, StartFails, Install, Held, request
<1>3. ASSUME Next, Held, want' = want, caller' \notin {"stopping", "gone"}
      PROVE  Held'
  <2>1. CASE \E u \in Threads : Poller(u)
    BY <1>3, <2>1 DEF Poller, Goes, Launch, Crashes, Connect, Stopped, Connected, ConnectFails,
                      Poll, LeaveLoop, Polled, PollFails, Closed, CloseFails, Failed, Ended,
                      poller, Held
  <2>2. CASE Main
    BY <1>3, <2>2 DEF Main, Render, KeepThread, StopThread, Serves, NoThreadRuns, Joined,
                      JoinTimesOut, TellWaiting, Start, StartFails, Install, Show, Leave, Gone,
                      poller, request, Held
  <2> QED
    BY <1>3, <2>1, <2>2 DEF Next, Shutdown, Kill, Gone
<1>4. IInv /\ [Next]_vars =>
        [/\ \A t \in stop : Alive(t) =>
              t \in stop' /\ (pc'[t] # pc[t] => StepsLeft[pc'[t]] < StepsLeft[pc[t]])
         /\ caller = "start" /\ caller' \in {"read", "idle"} => Held'
         /\ Held /\ want' = want /\ caller' \notin {"stopping", "gone"} => Held']_vars
  BY <1>1, <1>2, <1>3
<1>5. TellInv => ToldOrForced
  BY DEF TellInv
<1> QED
  BY <1>4, <1>5, TellInvariance, PTL DEF Spec, HoldsOn
=============================================================================

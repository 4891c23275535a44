---------------------------- MODULE LiveUpdates ----------------------------
(* How browsers hear of changes: ConnectionManager's set of WebSockets, the    *)
(* broadcasts over a copy of it that overlap while sockets come and go, the    *)
(* heartbeat, and the dashboard page, which loads, connects and loads again    *)
(* whenever it is told that the configuration changed.                         *)
(*                                                                             *)
(* The configuration is a number that goes up with each change.  A route that  *)
(* changes it commits and takes the copy without an await in between.  The     *)
(* page's rotation and its reload button only load again: they are left out.   *)
EXTENDS Naturals, FiniteSets

CONSTANTS
  Pages,       \* browsers that show a dashboard
  Sockets,     \* names of WebSockets; a name is used again when it is forgotten
  Nobody,      \* no page, no socket
  MaxConfig    \* bound: changes

ASSUME ConstantsAssumption == MaxConfig \in Nat /\ Nobody \notin Pages \union Sockets

Casts == 0..MaxConfig   \* the heartbeat's broadcast, and one for each change

VARIABLES
  config,    \* the configuration in the database
  active,    \* active_connections
  cast,      \* each broadcast: the sockets it has yet to send to, those that failed
  endpoint,  \* each socket's websocket_endpoint: "none", "accepted" or "serving"
  owner,     \* the page that opened the socket
  open,      \* the sockets that are open
  inbox,     \* configuration_changed messages under way to the page
  page,      \* "loading", "connecting" or "live"
  asked,     \* loads of the page that the server has not answered
  answers,   \* answers under way
  shown,     \* the configuration on the screen
  missed     \* history: the page lost a message, or old news overtook new

server == <<config, active, cast, endpoint>>
sockets == <<owner, open, inbox>>
page_ == <<page, asked, answers, shown, missed>>
vars == <<server, sockets, page_>>

Quiet == [left |-> {}, failed |-> {}]

TypeOK ==
  /\ config \in 0..MaxConfig /\ active \subseteq Sockets
  /\ cast \in [Casts -> [left : SUBSET Sockets, failed : SUBSET Sockets]]
  /\ endpoint \in [Sockets -> {"none", "accepted", "serving"}]
  /\ owner \in [Sockets -> Pages \union {Nobody}] /\ open \subseteq Sockets
  /\ inbox \in [Sockets -> Nat]
  /\ page \in [Pages -> {"loading", "connecting", "live"}]
  /\ missed \in [Pages -> BOOLEAN]
  /\ asked \in [Pages -> Nat] /\ answers \in [Pages -> SUBSET (0..MaxConfig)]
  /\ shown \in [Pages -> 0..MaxConfig]

Init ==
  /\ config = 0 /\ active = {} /\ cast = [v \in Casts |-> Quiet]
  /\ endpoint = [k \in Sockets |-> "none"] /\ owner = [k \in Sockets |-> Nobody]
  /\ open = {} /\ inbox = [k \in Sockets |-> 0]
  /\ page = [p \in Pages |-> "loading"]
  /\ asked = [p \in Pages |-> 1] /\ answers = [p \in Pages |-> {}]
  /\ shown = [p \in Pages |-> 0] /\ missed = [p \in Pages |-> FALSE]

-----------------------------------------------------------------------------
(* Broadcasts *)

Hears(p) == \E k \in active \cap open : owner[k] = p

\* whoever cannot be reached now misses it
Change ==
  /\ config < MaxConfig /\ config' = config + 1
  /\ cast' = [cast EXCEPT ![config'] = [left |-> active, failed |-> {}]]
  /\ missed' = [p \in Pages |-> missed[p] \/ ~Hears(p)]
  /\ UNCHANGED <<active, endpoint, sockets, page, asked, answers, shown>>

Heartbeat ==
  /\ cast[0] = Quiet /\ active # {}
  /\ cast' = [cast EXCEPT ![0].left = active]
  /\ UNCHANGED <<config, active, endpoint, sockets, page_>>

Send(v, k) ==
  /\ k \in cast[v].left \cap open
  /\ cast' = [cast EXCEPT ![v].left = @ \ {k}]
  /\ inbox' = [inbox EXCEPT ![k] = IF v = 0 THEN @ ELSE @ + 1]
  /\ UNCHANGED <<config, active, endpoint, owner, open, page_>>

\* a slip: the first failure ends the broadcast
SendStops(v, k) ==
  /\ k \in cast[v].left \ open
  /\ cast' = [cast EXCEPT ![v] = [left |-> {}, failed |-> {k}]]
  /\ UNCHANGED <<config, active, endpoint, sockets, page_>>

SendFails(v, k) ==
  /\ k \in cast[v].left \ open
  /\ cast' = [cast EXCEPT ![v] = [left |-> @.left \ {k}, failed |-> @.failed \union {k}]]
  /\ UNCHANGED <<config, active, endpoint, sockets, page_>>

\* a slip: connections are known by their browser
DropsBrowser(v, k) ==
  /\ cast[v].left = {} /\ k \in cast[v].failed
  /\ cast' = [cast EXCEPT ![v].failed = @ \ {k}]
  /\ active' = {j \in active : owner[j] # owner[k]}
  /\ UNCHANGED <<config, endpoint, sockets, page_>>

DropStale(v, k) ==
  /\ cast[v].left = {} /\ k \in cast[v].failed
  /\ cast' = [cast EXCEPT ![v].failed = @ \ {k}]
  /\ active' = active \ {k}
  /\ UNCHANGED <<config, endpoint, sockets, page_>>

-----------------------------------------------------------------------------
(* A socket: accepted, then listed, then read until it is closed *)

Known(k) == endpoint[k] # "none" \/ \E v \in Casts : k \in cast[v].left \union cast[v].failed

Accept(p, k) ==
  /\ page[p] = "connecting" /\ owner[k] = Nobody
  /\ page' = [page EXCEPT ![p] = "live"]
  /\ owner' = [owner EXCEPT ![k] = p] /\ open' = open \union {k}
  /\ endpoint' = [endpoint EXCEPT ![k] = "accepted"]
  /\ UNCHANGED <<config, active, cast, inbox, asked, answers, shown, missed>>

Register(k) ==
  /\ endpoint[k] = "accepted" /\ endpoint' = [endpoint EXCEPT ![k] = "serving"]
  /\ active' = active \union {k}
  /\ UNCHANGED <<config, cast, sockets, page_>>

\* receive_text raises WebSocketDisconnect
Disconnect(k) ==
  /\ endpoint[k] = "serving" /\ k \notin open
  /\ endpoint' = [endpoint EXCEPT ![k] = "none"] /\ active' = active \ {k}
  /\ UNCHANGED <<config, cast, sockets, page_>>

Forget(k) ==
  /\ owner[k] # Nobody /\ k \notin open /\ ~Known(k)
  /\ owner' = [owner EXCEPT ![k] = Nobody]
  /\ UNCHANGED <<server, open, inbox, page_>>

\* the connection is lost, with what was under way; the page connects again
\* three seconds later, and does not load
Close(k) ==
  LET p == owner[k] IN
    /\ k \in open /\ open' = open \ {k}
    /\ inbox' = [inbox EXCEPT ![k] = 0]
    /\ page' = [page EXCEPT ![p] = "connecting"]
    /\ missed' = [missed EXCEPT ![p] =
         @ \/ inbox[k] > 0 \/ \E v \in Casts \ {0} : k \in cast[v].left]
    /\ UNCHANGED <<server, owner, asked, answers, shown>>

-----------------------------------------------------------------------------
(* The page *)

\* onmessage; in layout mode, as the page may be at any time, nothing is done
Receive(k, layoutMode) ==
  LET p == owner[k] IN
    /\ k \in open /\ inbox[k] > 0 /\ inbox' = [inbox EXCEPT ![k] = @ - 1]
    /\ asked' = [asked EXCEPT ![p] = IF layoutMode THEN @ ELSE @ + 1]
    /\ missed' = [missed EXCEPT ![p] = @ \/ layoutMode]
    /\ UNCHANGED <<server, owner, open, page, answers, shown>>

Receives(k) == \E layoutMode \in BOOLEAN : Receive(k, layoutMode)

Answer(p) ==
  /\ asked[p] > 0 /\ asked' = [asked EXCEPT ![p] = @ - 1]
  /\ answers' = [answers EXCEPT ![p] = @ \union {config}]
  /\ UNCHANGED <<server, sockets, page, shown, missed>>

\* showFatal; the first load's failure leaves the page without a connection
LoadFails(p) ==
  /\ asked[p] > 0 /\ page[p] # "loading"
  /\ asked' = [asked EXCEPT ![p] = @ - 1] /\ missed' = [missed EXCEPT ![p] = TRUE]
  /\ UNCHANGED <<server, sockets, page, answers, shown>>

\* answers come in any order
Apply(p) ==
  \E v \in answers[p] :
    /\ answers' = [answers EXCEPT ![p] = @ \ {v}] /\ shown' = [shown EXCEPT ![p] = v]
    /\ missed' = [missed EXCEPT ![p] = v # config /\ (@ \/ v < shown[p])]
    /\ page' = [page EXCEPT ![p] = IF @ = "loading" THEN "connecting" ELSE @]
    /\ UNCHANGED <<server, sockets, asked>>

-----------------------------------------------------------------------------
Sends(v, k) == Send(v, k) \/ SendFails(v, k) \/ DropStale(v, k)

Serves(k) == Register(k) \/ Disconnect(k) \/ Forget(k)

Next ==
  \/ Change \/ Heartbeat \/ \E v \in Casts, k \in Sockets : Sends(v, k)
  \/ \E p \in Pages, k \in Sockets : Accept(p, k)
  \/ \E k \in Sockets : Serves(k) \/ Close(k) \/ Receives(k)
  \/ \E p \in Pages : Answer(p) \/ LoadFails(p) \/ Apply(p)

Spec == Init /\ [][Next]_vars

\* broadcasts, messages, requests and answers get on
FairSpec ==
  /\ Spec
  /\ \A v \in Casts : WF_vars(\E k \in Sockets : Sends(v, k))
  /\ WF_vars(\E k \in Sockets : Receives(k))
  /\ WF_vars(\E p \in Pages : Answer(p) \/ Apply(p))

-----------------------------------------------------------------------------
(* A connection that is open and served is in the list, whatever broadcasts    *)
(* over older copies of the list found out meanwhile: cleaning up after a dead *)
(* connection never takes a live one along, not even its own page's next.      *)
LiveAreListed == \A k \in open : endpoint[k] = "serving" => k \in active

(* Every page that could be reached comes to show the last change: only a page *)
(* that had no connection, was in layout mode, failed to load or saw an older  *)
(* answer overtake a newer one may stay behind.  Others' dead connections are  *)
(* no reason.                                                                  *)
PagesCatchUp == \A p \in Pages : <>[](shown[p] = config \/ missed[p])
=============================================================================

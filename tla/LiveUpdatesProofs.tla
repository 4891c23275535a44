--------------------------- MODULE LiveUpdatesProofs ---------------------------
(* The list of connections and the pages that hear of changes through it, for  *)
(* any pages, sockets and number of changes.                                   *)
EXTENDS LiveUpdates, TLAPS

Pending(v) == cast[v].left \union cast[v].failed

(* What keeps a dead connection's clean-up away from the page's next one: a    *)
(* broadcast that still holds a socket keeps its name from being used again,   *)
(* and what failed once never is open again under that name.                   *)
SocketInv ==
  /\ \A v \in Casts : \A k \in Pending(v) : owner[k] # Nobody
  /\ \A v \in Casts : cast[v].failed \intersect open = {}
  /\ \A k \in Sockets : endpoint[k] # "none" => owner[k] # Nobody
  /\ \A k \in open : owner[k] # Nobody
  /\ \A k \in active : endpoint[k] = "serving"

IInv == TypeOK /\ SocketInv /\ LiveAreListed

LEMMA InitInv == Init => IInv
<1> SUFFICES ASSUME Init PROVE IInv
  OBVIOUS
<1> USE ConstantsAssumption DEF Init
<1>1. 0 \in 0..MaxConfig
  OBVIOUS
<1>2. TypeOK
  BY <1>1 DEF TypeOK, Quiet
<1>3. SocketInv /\ LiveAreListed
  BY DEF SocketInv, LiveAreListed, Pending, Quiet
<1> QED  BY <1>2, <1>3 DEF IInv

-----------------------------------------------------------------------------
(* Broadcasts: each step changes one of them, and the list only where a        *)
(* connection that failed is dropped.                                          *)

LEMMA ChangeInv ==
  ASSUME IInv, Change
  PROVE  IInv'
<1> USE DEF IInv, Change, sockets
<1>1. config + 1 \in 0..MaxConfig /\ config + 1 \in Casts
  BY ConstantsAssumption DEF TypeOK, Casts
<1>2. TypeOK'
  BY <1>1 DEF TypeOK, Hears
<1>3. \A v \in Casts : cast'[v] = cast[v] \/ cast'[v] = [left |-> active, failed |-> {}]
  BY <1>1 DEF TypeOK
<1>4. \A k \in active : k \in Sockets /\ owner[k] # Nobody
  BY DEF TypeOK, SocketInv
<1>5. SocketInv' /\ LiveAreListed'
  BY <1>3, <1>4 DEF SocketInv, LiveAreListed, Pending
<1> QED  BY <1>2, <1>5

LEMMA HeartbeatInv ==
  ASSUME IInv, Heartbeat
  PROVE  IInv'
<1> USE DEF IInv, Heartbeat, sockets, page_
<1>1. 0 \in Casts
  BY ConstantsAssumption DEF Casts
<1>2. cast' = [cast EXCEPT ![0] = [left |-> active, failed |-> {}]]
  <2>1. [cast[0] EXCEPT !.left = active] = [left |-> active, failed |-> {}]
    BY DEF Quiet
  <2> QED  BY <2>1
<1>3. TypeOK'
  BY <1>1, <1>2 DEF TypeOK
<1>4. \A v \in Casts : cast'[v] = cast[v] \/ cast'[v] = [left |-> active, failed |-> {}]
  BY <1>1, <1>2 DEF TypeOK
<1>5. \A k \in active : k \in Sockets /\ owner[k] # Nobody
  BY DEF TypeOK, SocketInv
<1>6. SocketInv' /\ LiveAreListed'
  BY <1>4, <1>5 DEF SocketInv, LiveAreListed, Pending
<1> QED  BY <1>3, <1>6

LEMMA SendsInv ==
  ASSUME IInv, NEW v \in Casts, NEW k \in Sockets, Sends(v, k)
  PROVE  IInv'
<1> USE DEF IInv, sockets, page_
<1>0. cast[v] \in [left : SUBSET Sockets, failed : SUBSET Sockets]
  BY DEF TypeOK
<1>1. PICK L \in SUBSET Sockets, F \in SUBSET Sockets :
        /\ cast' = [cast EXCEPT ![v] = [left |-> L, failed |-> F]]
        /\ L \union F \subseteq Pending(v)
        /\ F \subseteq cast[v].failed \union {k} /\ (k \in F => k \notin open)
        /\ active' = active \/ (active' = active \ {k} /\ k \notin open)
        /\ inbox' \in [Sockets -> Nat]
        /\ UNCHANGED <<config, endpoint, owner, open, page_>>
  <2>1. CASE Send(v, k)
    <3>1. cast' = [cast EXCEPT ![v] = [left |-> cast[v].left \ {k}, failed |-> cast[v].failed]]
      <4>1. [cast[v] EXCEPT !.left = @ \ {k}] = [left |-> cast[v].left \ {k}, failed |-> cast[v].failed]
        BY <1>0
      <4> QED  BY <2>1, <4>1 DEF Send
    <3>2. inbox' \in [Sockets -> Nat]
      BY <2>1 DEF Send, TypeOK
    <3>3. k \in open /\ cast[v].failed \intersect open = {}
      BY <2>1 DEF Send, SocketInv
    <3> QED  BY <1>0, <2>1, <3>1, <3>2, <3>3 DEF Send, Pending
  <2>2. CASE SendFails(v, k)
    <3>1. cast' = [cast EXCEPT ![v] = [left |-> cast[v].left \ {k}, failed |-> cast[v].failed \union {k}]]
      BY <1>0, <2>2 DEF SendFails, TypeOK
    <3>2. inbox' \in [Sockets -> Nat] /\ k \in cast[v].left \ open
      BY <2>2 DEF SendFails, TypeOK
    <3>3. cast[v].left \ {k} \in SUBSET Sockets /\ cast[v].failed \union {k} \in SUBSET Sockets
      BY <1>0
    <3>4. (cast[v].left \ {k}) \union (cast[v].failed \union {k}) \subseteq Pending(v)
      BY <3>2 DEF Pending
    <3> QED  BY <2>2, <3>1, <3>2, <3>3, <3>4 DEF SendFails
  <2>3. CASE DropStale(v, k)
    <3>1. cast' = [cast EXCEPT ![v] = [left |-> cast[v].left, failed |-> cast[v].failed \ {k}]]
      <4>1. [cast[v] EXCEPT !.failed = @ \ {k}] = [left |-> cast[v].left, failed |-> cast[v].failed \ {k}]
        BY <1>0
      <4> QED  BY <2>3, <4>1 DEF DropStale
    <3>2. k \notin open
      BY <2>3 DEF DropStale, SocketInv
    <3>3. inbox' \in [Sockets -> Nat] /\ active' = active \ {k}
      BY <2>3 DEF DropStale, TypeOK
    <3>4. cast[v].left \in SUBSET Sockets /\ cast[v].failed \ {k} \in SUBSET Sockets
      BY <1>0
    <3>5. cast[v].left \union (cast[v].failed \ {k}) \subseteq Pending(v)
      BY DEF Pending
    <3> QED  BY <2>3, <3>1, <3>2, <3>3, <3>4, <3>5 DEF DropStale
  <2> QED  BY <2>1, <2>2, <2>3 DEF Sends
<1>2. TypeOK'
  BY <1>1 DEF TypeOK
<1>3. /\ cast'[v] = [left |-> L, failed |-> F]
      /\ \A u \in Casts \ {v} : cast'[u] = cast[u]
  BY <1>1 DEF TypeOK
<1>4. /\ \A u \in Casts : Pending(u)' \subseteq Pending(u)
      /\ \A u \in Casts : cast'[u].failed \intersect open = {}
  BY <1>1, <1>3 DEF SocketInv, Pending
<1>5. SocketInv' /\ LiveAreListed'
  BY <1>1, <1>4 DEF SocketInv, LiveAreListed
<1> QED  BY <1>2, <1>5

-----------------------------------------------------------------------------
(* A socket's life.                                                            *)

LEMMA AcceptInv ==
  ASSUME IInv, NEW p \in Pages, NEW k \in Sockets, Accept(p, k)
  PROVE  IInv'
<1> USE DEF IInv, Accept
<1>1. TypeOK'
  BY DEF TypeOK
<1>2. /\ owner'[k] = p /\ p # Nobody /\ \A j \in Sockets \ {k} : owner'[j] = owner[j]
      /\ endpoint'[k] = "accepted" /\ \A j \in Sockets \ {k} : endpoint'[j] = endpoint[j]
  BY ConstantsAssumption DEF TypeOK
<1>3. /\ k \notin active
      /\ \A v \in Casts : k \notin Pending(v)
  BY DEF SocketInv, TypeOK
<1>4. \A v \in Casts : Pending(v) \subseteq Sockets /\ cast[v].failed \subseteq Pending(v)
  BY DEF TypeOK, Pending
<1>5. SocketInv'
  <2>1. \A v \in Casts : Pending(v)' = Pending(v)
    BY DEF Pending
  <2>2. \A v \in Casts : \A j \in Pending(v)' : owner'[j] # Nobody
    BY <1>2, <1>3, <1>4, <2>1 DEF SocketInv
  <2>3. \A v \in Casts : cast'[v].failed \intersect open' = {}
    BY <1>3, <1>4 DEF SocketInv
  <2>4. \A j \in Sockets : endpoint'[j] # "none" => owner'[j] # Nobody
    BY <1>2 DEF SocketInv
  <2>5. \A j \in open' : owner'[j] # Nobody
    BY <1>2 DEF SocketInv, TypeOK
  <2>6. \A j \in active' : endpoint'[j] = "serving"
    BY <1>2, <1>3 DEF SocketInv, TypeOK
  <2> QED  BY <2>2, <2>3, <2>4, <2>5, <2>6 DEF SocketInv
<1>6. LiveAreListed'
  BY <1>2 DEF LiveAreListed, TypeOK
<1> QED  BY <1>1, <1>5, <1>6

LEMMA ServesInv ==
  ASSUME IInv, NEW k \in Sockets, Serves(k)
  PROVE  IInv'
<1> USE DEF IInv, sockets, page_, server
<1>1. CASE Register(k)
  <2>1. TypeOK'
    BY <1>1 DEF Register, TypeOK
  <2>2. endpoint'[k] = "serving" /\ \A j \in Sockets \ {k} : endpoint'[j] = endpoint[j]
    BY <1>1 DEF Register, TypeOK
  <2>3. SocketInv' /\ LiveAreListed'
    BY <1>1, <2>2 DEF Register, SocketInv, LiveAreListed, Pending, TypeOK
  <2> QED  BY <2>1, <2>3
<1>2. CASE Disconnect(k)
  <2>1. TypeOK'
    BY <1>2 DEF Disconnect, TypeOK
  <2>2. endpoint'[k] = "none" /\ \A j \in Sockets \ {k} : endpoint'[j] = endpoint[j]
    BY <1>2 DEF Disconnect, TypeOK
  <2>3. SocketInv' /\ LiveAreListed'
    BY <1>2, <2>2 DEF Disconnect, SocketInv, LiveAreListed, Pending, TypeOK
  <2> QED  BY <2>1, <2>3
<1>3. CASE Forget(k)
  <2>1. TypeOK'
    BY <1>3 DEF Forget, TypeOK
  <2>2. \A j \in Sockets \ {k} : owner'[j] = owner[j]
    BY <1>3 DEF Forget, TypeOK
  <2>3. endpoint[k] = "none" /\ k \notin open /\ \A v \in Casts : k \notin Pending(v)
    BY <1>3 DEF Forget, Known, Pending
  <2>4. \A v \in Casts : Pending(v)' = Pending(v) /\ Pending(v) \subseteq Sockets
    BY <1>3 DEF Forget, Pending, TypeOK
  <2>5. SocketInv' /\ LiveAreListed'
    BY <1>3, <2>2, <2>3, <2>4 DEF Forget, SocketInv, LiveAreListed, TypeOK
  <2> QED  BY <2>1, <2>5
<1> QED  BY <1>1, <1>2, <1>3 DEF Serves

LEMMA CloseInv ==
  ASSUME IInv, NEW k \in Sockets, Close(k)
  PROVE  IInv'
<1> USE DEF IInv, Close, server
<1>1. TypeOK'
  BY DEF TypeOK
<1>2. SocketInv' /\ LiveAreListed'
  BY DEF SocketInv, LiveAreListed, Pending
<1> QED  BY <1>1, <1>2

-----------------------------------------------------------------------------
(* The page: neither the sockets nor the list change.                          *)

LEMMA PageInv ==
  ASSUME IInv, NEW p \in Pages, Answer(p) \/ LoadFails(p) \/ Apply(p)
  PROVE  IInv'
<1> USE DEF IInv, sockets, server
<1>1. TypeOK'
  <2>1. CASE Answer(p)
    BY <2>1 DEF Answer, TypeOK
  <2>2. CASE LoadFails(p)
    BY <2>2 DEF LoadFails, TypeOK
  <2>3. CASE Apply(p)
    <3>1. PICK v \in answers[p] :
            /\ answers' = [answers EXCEPT ![p] = @ \ {v}] /\ shown' = [shown EXCEPT ![p] = v]
            /\ missed' = [missed EXCEPT ![p] = v # config /\ (@ \/ v < shown[p])]
            /\ page' = [page EXCEPT ![p] = IF @ = "loading" THEN "connecting" ELSE @]
            /\ UNCHANGED <<server, sockets, asked>>
      BY <2>3 DEF Apply
    <3>2. v \in 0..MaxConfig
      BY <3>1 DEF TypeOK
    <3>3. missed' \in [Pages -> BOOLEAN]
      BY <3>1 DEF TypeOK
    <3>4. page' \in [Pages -> {"loading", "connecting", "live"}]
      BY <3>1 DEF TypeOK
    <3>5. answers' \in [Pages -> SUBSET (0..MaxConfig)] /\ shown' \in [Pages -> 0..MaxConfig]
      BY <3>1, <3>2 DEF TypeOK
    <3> QED  BY <3>1, <3>3, <3>4, <3>5 DEF TypeOK
  <2> QED  BY <2>1, <2>2, <2>3
<1>2. UNCHANGED <<server, sockets>>
  BY DEF Answer, LoadFails, Apply
<1>3. SocketInv' /\ LiveAreListed'
  BY <1>2 DEF SocketInv, LiveAreListed, Pending
<1> QED  BY <1>1, <1>3

LEMMA ReceivesInv ==
  ASSUME IInv, NEW k \in Sockets, Receives(k)
  PROVE  IInv'
<1> USE DEF IInv, server
<1>1. PICK layoutMode \in BOOLEAN : Receive(k, layoutMode)
  BY DEF Receives
<1>2. inbox[k] \in Nat /\ inbox[k] - 1 \in Nat
  BY <1>1 DEF Receive, TypeOK
<1>3. TypeOK'
  <2>1. inbox' \in [Sockets -> Nat]
    BY <1>1, <1>2 DEF Receive, TypeOK
  <2>2. asked' \in [Pages -> Nat]
    <3> DEFINE A(n) == [asked EXCEPT ![owner[k]] = n]
    <3>1. asked' = A(asked[owner[k]]) \/ asked' = A(asked[owner[k]] + 1)
      BY <1>1 DEF Receive
    <3>2. owner[k] \in Pages
      BY <1>1 DEF Receive, SocketInv, TypeOK
    <3>3. asked[owner[k]] \in Nat /\ asked[owner[k]] + 1 \in Nat
      BY <3>2 DEF TypeOK
    <3>4. \A n \in Nat : A(n) \in [Pages -> Nat]
      BY DEF TypeOK
    <3> QED  BY <3>1, <3>3, <3>4
  <2>3. missed' \in [Pages -> BOOLEAN]
    <3> DEFINE M(b) == [missed EXCEPT ![owner[k]] = b]
    <3>1. \A b \in BOOLEAN : M(b) \in [Pages -> BOOLEAN]
      BY DEF TypeOK
    <3>2. (missed[owner[k]] \/ layoutMode) \in BOOLEAN
      OBVIOUS
    <3>3. missed' = M(missed[owner[k]] \/ layoutMode)
      BY <1>1 DEF Receive
    <3> QED  BY <3>1, <3>2, <3>3
  <2> QED  BY <1>1, <2>1, <2>2, <2>3 DEF Receive, TypeOK
<1>4. SocketInv' /\ LiveAreListed'
  BY <1>1 DEF Receive, SocketInv, LiveAreListed, Pending
<1> QED  BY <1>3, <1>4

-----------------------------------------------------------------------------
LEMMA NextInv == IInv /\ [Next]_vars => IInv'
<1> SUFFICES ASSUME IInv, [Next]_vars PROVE IInv'
  OBVIOUS
<1>1. CASE UNCHANGED vars
  BY <1>1 DEF IInv, TypeOK, SocketInv, LiveAreListed, Pending, vars, server, sockets, page_
<1>2. CASE Change \/ Heartbeat
  BY <1>2, ChangeInv, HeartbeatInv
<1>3. CASE \E v \in Casts, k \in Sockets : Sends(v, k)
  BY <1>3, SendsInv
<1>4. CASE \E p \in Pages, k \in Sockets : Accept(p, k)
  BY <1>4, AcceptInv
<1>5. CASE \E k \in Sockets : Serves(k) \/ Close(k) \/ Receives(k)
  BY <1>5, ServesInv, CloseInv, ReceivesInv
<1>6. CASE \E p \in Pages : Answer(p) \/ LoadFails(p) \/ Apply(p)
  BY <1>6, PageInv
<1> QED  BY <1>1, <1>2, <1>3, <1>4, <1>5, <1>6 DEF Next

(* Every reachable state of the server, its sockets and its pages is well      *)
(* typed, and the list holds connections that are served only.                 *)
THEOREM Invariance == Spec => []IInv
BY InitInv, NextInv, PTL DEF Spec

(* A connection that is open and served is in the list, for any number of      *)
(* broadcasts that overlap: ConnectionManager needs no more than its set.      *)
THEOREM ListedWhileLive == Spec => []LiveAreListed
<1>1. IInv => LiveAreListed
  BY DEF IInv
<1> QED  BY <1>1, Invariance, PTL

-----------------------------------------------------------------------------
(* No page is left behind.  Whatever fairness then delivers is under way: a    *)
(* page that shows an old configuration has missed something, or is being told *)
(* by an open connection of its own, or its server, or is about to load.       *)

\* a message to the page, or its turn in the broadcast of a change
OnItsWay(k) == inbox[k] > 0 \/ \E v \in Casts \ {0} : k \in cast[v].left

BeingTold(p) ==
  \/ asked[p] > 0
  \/ config \in answers[p]
  \/ \E k \in open : owner[k] = p /\ OnItsWay(k)

BehindIsTold == \A p \in Pages : shown[p] = config \/ missed[p] \/ BeingTold(p)

\* no page and no answer is ahead of the database
NewsInv == \A p \in Pages : shown[p] \in 0..config /\ answers[p] \subseteq 0..config

ToldInv == NewsInv /\ BehindIsTold

\* a connection that leads to a page leads to it after a step that leaves both
LEMMA StillTold ==
  ASSUME BehindIsTold, UNCHANGED page_, config' = config,
         \A k \in open : OnItsWay(k) => k \in open' /\ owner'[k] = owner[k] /\ OnItsWay(k)'
  PROVE  BehindIsTold'
<1> SUFFICES ASSUME NEW p \in Pages, ~(shown[p] = config \/ missed[p])
             PROVE  BeingTold(p)'
  BY DEF BehindIsTold, page_
<1>1. BeingTold(p)
  BY DEF BehindIsTold
<1>2. CASE asked[p] > 0 \/ config \in answers[p]
  BY <1>2 DEF BeingTold, page_
<1>3. CASE \E k \in open : owner[k] = p /\ OnItsWay(k)
  BY <1>3 DEF BeingTold
<1> QED  BY <1>1, <1>2, <1>3 DEF BeingTold

\* the broadcast of a change holds every connection that is open and listed
LEMMA ChangeTold ==
  ASSUME IInv, ToldInv, Change
  PROVE  ToldInv'
<1>1. config \in Nat /\ config' = config + 1 /\ config + 1 \in Casts \ {0}
  BY ConstantsAssumption DEF IInv, TypeOK, Change, Casts
<1>2. NewsInv'
  BY <1>1 DEF ToldInv, NewsInv, Change
<1>3. cast'[config + 1].left = active
  BY <1>1 DEF IInv, TypeOK, Change
<1>4. ASSUME NEW p \in Pages, ~missed'[p]
      PROVE  BeingTold(p)'
  <2>1. Hears(p)
    BY <1>4 DEF Change
  <2>2. PICK k \in active \intersect open : owner[k] = p
    BY <2>1 DEF Hears
  <2>3. k \in open' /\ owner'[k] = p /\ OnItsWay(k)'
    BY <1>1, <1>3, <2>2 DEF Change, sockets, OnItsWay
  <2> QED  BY <2>3 DEF BeingTold
<1> QED  BY <1>2, <1>4 DEF ToldInv, BehindIsTold

\* a turn becomes a message; only connections that are closed lose their turn
LEMMA SendsTold ==
  ASSUME IInv, ToldInv, NEW v \in Casts, NEW k \in Sockets, Sends(v, k)
  PROVE  ToldInv'
<1>1. UNCHANGED <<config, owner, open, page_>>
  BY DEF Sends, Send, SendFails, DropStale, sockets
<1>2. ASSUME NEW j \in open, OnItsWay(j)
      PROVE  OnItsWay(j)'
  <2>1. cast \in [Casts -> [left : SUBSET Sockets, failed : SUBSET Sockets]] /\ inbox \in [Sockets -> Nat]
    BY DEF IInv, TypeOK
  <2>2. CASE Send(v, k)
    <3>1. \A u \in Casts : cast'[u].left = IF u = v THEN cast[u].left \ {k} ELSE cast[u].left
      BY <2>1, <2>2 DEF Send
    <3>2. inbox' = [inbox EXCEPT ![k] = IF v = 0 THEN @ ELSE @ + 1]
      BY <2>2 DEF Send
    <3>3. CASE j # k \/ v = 0
      <4>1. inbox'[j] = inbox[j]
        BY <2>1, <3>2, <3>3
      <4>2. \A u \in Casts \ {0} : j \in cast[u].left => j \in cast'[u].left
        BY <3>1, <3>3
      <4> QED  BY <1>2, <4>1, <4>2 DEF OnItsWay
    <3>4. CASE j = k /\ v # 0
      <4>1. inbox'[j] = inbox[j] + 1 /\ inbox[j] \in Nat
        BY <2>1, <3>2, <3>4
      <4>2. inbox'[j] > 0
        BY <4>1
      <4> QED  BY <4>2 DEF OnItsWay
    <3> QED  BY <3>3, <3>4
  <2>3. CASE SendFails(v, k)
    <3>1. \A u \in Casts : cast'[u].left = IF u = v THEN cast[u].left \ {k} ELSE cast[u].left
      BY <2>1, <2>3 DEF SendFails
    <3>2. j # k /\ inbox' = inbox
      BY <2>3 DEF SendFails, sockets
    <3> QED  BY <1>2, <3>1, <3>2 DEF OnItsWay
  <2>4. CASE DropStale(v, k)
    <3>1. \A u \in Casts : cast'[u].left = cast[u].left
      BY <2>1, <2>4 DEF DropStale
    <3>2. inbox' = inbox
      BY <2>4 DEF DropStale, sockets
    <3> QED  BY <1>2, <3>1, <3>2 DEF OnItsWay
  <2> QED  BY <2>2, <2>3, <2>4 DEF Sends
<1>3. BehindIsTold'
  BY <1>1, <1>2, StillTold DEF ToldInv
<1> QED  BY <1>1, <1>3 DEF ToldInv, NewsInv, page_

LEMMA QuietTold ==
  ASSUME IInv, ToldInv,
         \/ Heartbeat
         \/ \E k \in Sockets : Serves(k)
         \/ UNCHANGED vars
  PROVE  ToldInv'
<1>1. UNCHANGED <<config, open, inbox, page_>>
  BY DEF Heartbeat, Serves, Register, Disconnect, Forget, sockets, server, vars
<1>2. \A j \in open : owner'[j] = owner[j]
  BY DEF Heartbeat, Serves, Register, Disconnect, Forget, sockets, server, vars, IInv, TypeOK
<1>3. \A u \in Casts \ {0} : cast'[u].left = cast[u].left
  <2>1. CASE Heartbeat
    <3>1. cast' = [cast EXCEPT ![0].left = active]
      BY <2>1 DEF Heartbeat
    <3>2. \A u \in Casts \ {0} : cast'[u] = cast[u]
      BY <3>1 DEF IInv, TypeOK
    <3> QED  BY <3>2
  <2>2. CASE (\E k \in Sockets : Serves(k)) \/ UNCHANGED vars
    <3>1. cast' = cast
      BY <2>2 DEF Serves, Register, Disconnect, Forget, server, vars
    <3> QED  BY <3>1
  <2> QED  BY <2>1, <2>2
<1>4. \A j \in open : OnItsWay(j) => OnItsWay(j)'
  BY <1>1, <1>3 DEF OnItsWay
<1>5. BehindIsTold'
  BY <1>1, <1>2, <1>4, StillTold DEF ToldInv
<1> QED  BY <1>1, <1>5 DEF ToldInv, NewsInv, page_

\* a new connection is nobody's before
LEMMA AcceptTold ==
  ASSUME IInv, ToldInv, NEW p \in Pages, NEW k \in Sockets, Accept(p, k)
  PROVE  ToldInv'
<1>1. UNCHANGED <<config, cast, inbox, asked, answers, shown, missed>>
  BY DEF Accept
<1>2. open \subseteq open' /\ \A j \in open : owner'[j] = owner[j]
  BY DEF Accept, IInv, SocketInv, TypeOK
<1>3. \A j \in open : OnItsWay(j) => OnItsWay(j)'
  BY <1>1 DEF OnItsWay
<1>4. \A q \in Pages : BeingTold(q) => BeingTold(q)'
  BY <1>1, <1>2, <1>3 DEF BeingTold
<1> QED  BY <1>1, <1>4 DEF ToldInv, NewsInv, BehindIsTold

\* what is lost with a connection is missed
LEMMA CloseTold ==
  ASSUME IInv, ToldInv, NEW k \in Sockets, Close(k)
  PROVE  ToldInv'
<1>1. UNCHANGED <<config, cast, owner, asked, answers, shown>>
  BY DEF Close, server
<1>2. k \in open /\ open' = open \ {k} /\ owner[k] \in Pages
  BY DEF Close, IInv, SocketInv, TypeOK
<1>3. \A j \in open \ {k} : inbox'[j] = inbox[j]
  BY DEF Close, IInv, TypeOK
<1>4. /\ \A q \in Pages : missed[q] => missed'[q]
      /\ OnItsWay(k) => missed'[owner[k]]
  BY <1>2 DEF Close, IInv, TypeOK, OnItsWay
<1>5. ASSUME NEW q \in Pages, BeingTold(q)
      PROVE  missed'[q] \/ BeingTold(q)'
  <2>1. CASE asked[q] > 0 \/ config \in answers[q]
    BY <1>1, <2>1 DEF BeingTold
  <2>2. CASE \E j \in open : owner[j] = q /\ OnItsWay(j)
    <3>1. PICK j \in open : owner[j] = q /\ OnItsWay(j)
      BY <2>2
    <3>2. CASE j = k
      BY <1>4, <3>1, <3>2
    <3>3. CASE j # k
      <4>1. j \in open' /\ owner'[j] = q /\ OnItsWay(j)'
        BY <1>1, <1>2, <1>3, <3>1, <3>3 DEF OnItsWay
      <4> QED  BY <4>1 DEF BeingTold
    <3> QED  BY <3>2, <3>3
  <2> QED  BY <1>5, <2>1, <2>2 DEF BeingTold
<1> QED  BY <1>1, <1>4, <1>5 DEF ToldInv, NewsInv, BehindIsTold

\* a message makes the page load, or finds it in layout mode
LEMMA ReceivesTold ==
  ASSUME IInv, ToldInv, NEW k \in Sockets, Receives(k)
  PROVE  ToldInv'
<1>1. PICK layoutMode \in BOOLEAN : Receive(k, layoutMode)
  BY DEF Receives
<1>2. UNCHANGED <<config, cast, owner, open, answers, shown>>
  BY <1>1 DEF Receive, server
<1>3. owner[k] \in Pages
  BY <1>1 DEF Receive, IInv, SocketInv, TypeOK
<1>4. asked \in [Pages -> Nat] /\ missed \in [Pages -> BOOLEAN] /\ inbox \in [Sockets -> Nat]
  BY DEF IInv, TypeOK
<1>5. missed'[owner[k]] \/ asked'[owner[k]] > 0
  <2>1. CASE layoutMode
    BY <1>1, <1>3, <1>4, <2>1 DEF Receive
  <2>2. CASE ~layoutMode
    <3>1. asked' = [asked EXCEPT ![owner[k]] = asked[owner[k]] + 1]
      BY <1>1, <2>2 DEF Receive
    <3>2. asked'[owner[k]] = asked[owner[k]] + 1 /\ asked[owner[k]] \in Nat
      BY <1>3, <1>4, <3>1
    <3> QED  BY <3>2
  <2> QED  BY <2>1, <2>2
<1>6. \A q \in Pages \ {owner[k]} : asked'[q] = asked[q] /\ missed'[q] = missed[q]
  BY <1>1, <1>4 DEF Receive
<1>7. \A j \in open \ {k} : inbox'[j] = inbox[j]
  BY <1>1, <1>4 DEF Receive, IInv, TypeOK
<1>8. ASSUME NEW q \in Pages \ {owner[k]}, BeingTold(q)
      PROVE  BeingTold(q)'
  <2>1. CASE asked[q] > 0 \/ config \in answers[q]
    BY <1>2, <1>6, <2>1 DEF BeingTold
  <2>2. CASE \E j \in open : owner[j] = q /\ OnItsWay(j)
    <3>1. PICK j \in open : owner[j] = q /\ OnItsWay(j)
      BY <2>2
    <3>2. j # k
      BY <3>1
    <3>3. j \in open' /\ owner'[j] = q /\ OnItsWay(j)'
      BY <1>2, <1>7, <3>1, <3>2 DEF OnItsWay
    <3> QED  BY <3>3 DEF BeingTold
  <2> QED  BY <1>8, <2>1, <2>2 DEF BeingTold
<1>9. BehindIsTold'
  BY <1>2, <1>5, <1>6, <1>8 DEF ToldInv, BehindIsTold, BeingTold
<1> QED  BY <1>2, <1>9 DEF ToldInv, NewsInv

\* the server answers with the configuration of that moment; an answer that is
\* older than what is shown counts as missed
LEMMA LoadTold ==
  ASSUME IInv, ToldInv, NEW p \in Pages, Answer(p) \/ LoadFails(p) \/ Apply(p)
  PROVE  ToldInv'
<1>1. UNCHANGED <<server, sockets>> /\ config \in Nat
  BY DEF Answer, LoadFails, Apply, IInv, TypeOK
<1>2. /\ shown \in [Pages -> 0..MaxConfig] /\ missed \in [Pages -> BOOLEAN]
      /\ asked \in [Pages -> Nat] /\ answers \in [Pages -> SUBSET (0..MaxConfig)]
  BY DEF IInv, TypeOK
<1>3. /\ config' = config
      /\ \A q \in Pages : (\E k \in open : owner[k] = q /\ OnItsWay(k)) =>
                          (\E k \in open' : owner'[k] = q /\ OnItsWay(k)')
  BY <1>1 DEF server, sockets, OnItsWay
<1>4. \A q \in Pages \ {p} :
        /\ shown'[q] = shown[q] /\ missed'[q] = missed[q]
        /\ asked'[q] = asked[q] /\ answers'[q] = answers[q]
  BY <1>2 DEF Answer, LoadFails, Apply
<1>5. /\ shown'[p] \in 0..config /\ answers'[p] \subseteq 0..config
      /\ shown'[p] = config \/ missed'[p] \/ BeingTold(p)'
  <2>1. CASE Answer(p)
    <3>1. answers'[p] = answers[p] \union {config} /\ shown' = shown
      BY <1>2, <2>1 DEF Answer
    <3> QED  BY <1>1, <1>3, <3>1 DEF ToldInv, NewsInv, BeingTold
  <2>2. CASE LoadFails(p)
    <3>1. missed'[p] /\ answers' = answers /\ shown' = shown
      BY <1>2, <2>2 DEF LoadFails
    <3> QED  BY <3>1 DEF ToldInv, NewsInv
  <2>3. CASE Apply(p)
    <3>1. PICK v \in answers[p] :
            /\ answers' = [answers EXCEPT ![p] = @ \ {v}] /\ shown' = [shown EXCEPT ![p] = v]
            /\ missed' = [missed EXCEPT ![p] = v # config /\ (@ \/ v < shown[p])]
            /\ asked' = asked
      BY <2>3 DEF Apply
    <3>2. /\ answers'[p] = answers[p] \ {v} /\ shown'[p] = v
          /\ missed'[p] <=> v # config /\ (missed[p] \/ v < shown[p])
      BY <1>2, <3>1
    <3>3. v \in 0..config /\ shown[p] \in 0..config /\ answers[p] \subseteq 0..config
      BY <3>1 DEF ToldInv, NewsInv
    <3>4. CASE v = config \/ missed[p]
      BY <3>2, <3>3, <3>4
    <3>5. CASE v # config /\ shown[p] = config
      <4>1. v < shown[p]
        BY <1>1, <3>3, <3>5
      <4> QED  BY <3>2, <3>3, <3>5, <4>1
    <3>6. CASE v # config /\ BeingTold(p)
      <4>1. BeingTold(p)'
        BY <1>3, <3>1, <3>2, <3>6 DEF BeingTold
      <4> QED  BY <3>2, <3>3, <4>1
    <3> QED  BY <3>4, <3>5, <3>6 DEF ToldInv, BehindIsTold
  <2> QED  BY <2>1, <2>2, <2>3
<1>6. NewsInv'
  BY <1>3, <1>4, <1>5 DEF ToldInv, NewsInv
<1>7. \A q \in Pages \ {p} : BeingTold(q) => BeingTold(q)'
  BY <1>3, <1>4 DEF BeingTold
<1>8. BehindIsTold'
  BY <1>3, <1>4, <1>5, <1>7 DEF ToldInv, BehindIsTold
<1> QED  BY <1>6, <1>8 DEF ToldInv

(* The safety half of PagesCatchUp, for any number of pages, connections and   *)
(* overlapping broadcasts: a page that shows an old configuration and has not  *)
(* missed a message is on someone's list - a load asked for or answered, a     *)
(* message under way or a broadcast that still holds its open connection.      *)
(* Nothing that happens to other connections takes it off (main.broadcast).    *)
THEOREM NoneLeftBehind == Spec => []BehindIsTold
<1>1. Init => ToldInv
  BY ConstantsAssumption DEF Init, ToldInv, NewsInv, BehindIsTold, BeingTold
<1>2. IInv /\ ToldInv /\ [Next]_vars => ToldInv'
  <2> SUFFICES ASSUME IInv, ToldInv, [Next]_vars PROVE ToldInv'
    OBVIOUS
  <2>1. CASE Change
    BY <2>1, ChangeTold
  <2>2. CASE \E v \in Casts, k \in Sockets : Sends(v, k)
    BY <2>2, SendsTold
  <2>3. CASE Heartbeat \/ (\E k \in Sockets : Serves(k)) \/ UNCHANGED vars
    BY <2>3, QuietTold
  <2>4. CASE \E p \in Pages, k \in Sockets : Accept(p, k)
    BY <2>4, AcceptTold
  <2>5. CASE \E k \in Sockets : Close(k) \/ Receives(k)
    BY <2>5, CloseTold, ReceivesTold
  <2>6. CASE \E p \in Pages : Answer(p) \/ LoadFails(p) \/ Apply(p)
    BY <2>6, LoadTold
  <2> QED  BY <2>1, <2>2, <2>3, <2>4, <2>5, <2>6 DEF Next
<1>3. ToldInv => BehindIsTold
  BY DEF ToldInv
<1> QED  BY <1>1, <1>2, <1>3, Invariance, PTL DEF Spec
=============================================================================

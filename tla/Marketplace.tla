---------------------------- MODULE Marketplace ----------------------------
(* Installing and removing one plugin of the exchange: the directory in        *)
(* user_plugins, its backup, and the rows beside them.  The routes are plain   *)
(* functions that the server runs in threads, so two requests may be anywhere  *)
(* in them at once; removing and copying a directory takes many calls, may     *)
(* raise in the middle, and the server may be killed at any point.  A plugin   *)
(* is added to a dashboard on the event loop meanwhile.                        *)
EXTENDS Naturals, FiniteSets

CONSTANTS
  Threads,      \* threads of the server's pool that run these routes
  Versions,     \* versions the index may offer
  None,         \* no row, no directory, no version
  MaxSources    \* bound: sources ever created (ids are never used again)

ASSUME ConstantsAssumption ==
  /\ None \notin Versions /\ "part" \notin Versions \union {None}
  /\ MaxSources \in Nat

VARIABLES
  pc,           \* where each thread is in its route
  mid,          \* the threads inside their rmtree or copytree
  spoilt,       \* those of them that met another one in the same directory
  item,         \* the version a thread installs
  source,       \* the source id a thread was asked to use
  sources,      \* marketplace_sources: id -> the version its index offers
  lastId,       \* the last id given to a source
  dir,          \* the plugin's directory and its backup
  row,          \* marketplace_installs: the version, if there is a row
  state,        \* plugin_states: "on" or "off", if there is a row
  cards,        \* whether a dashboard has a card of the plugin
  loop,         \* what the event loop writes next, having found the plugin
  overlap,      \* two requests that change the plugin overlap
  doubt         \* no whole copy is owed: see KeepsACopy

files == <<mid, spoilt, dir, doubt>>
rows == <<sources, lastId, row, state>>
vars == <<pc, item, source, files, rows, cards, loop, overlap>>

Places == {"target", "backup"}
\* "part" stands for a directory that lacks files, its manifest perhaps
Contents == Versions \union {None, "part"}

\* the directory each call removes or writes, and all those it goes through
Writes == [drop |-> "backup", save |-> "backup", clear |-> "target",
           copy |-> "target", erase |-> "target"]
Calls == DOMAIN Writes
Touches(c) == IF c = "save" THEN Places ELSE {Writes[c]}
Removals == {"drop", "clear", "erase"}

Working == Calls \union {"fetch", "look", "lookb", "record", "exists", "forget"}

TypeOK ==
  /\ pc \in [Threads -> Working \union {"idle", "sync"}]
  /\ mid \subseteq {t \in Threads : pc[t] \in Calls} /\ spoilt \subseteq mid
  /\ item \in [Threads -> Versions \union {None}]
  /\ source \in [Threads -> 0..MaxSources]
  /\ \E ids \in SUBSET (1..lastId) : sources \in [ids -> Versions \union {None}]
  /\ lastId \in 0..MaxSources
  /\ dir \in [Places -> Contents]
  /\ row \in Versions \union {None}
  /\ state \in {None, "on", "off"}
  /\ cards \in BOOLEAN /\ loop \in {"idle", "card", "on", "off"}
  /\ overlap \in BOOLEAN /\ doubt \in BOOLEAN

Init ==
  /\ pc = [t \in Threads |-> "idle"] /\ mid = {} /\ spoilt = {}
  /\ item = [t \in Threads |-> None] /\ source = [t \in Threads |-> 0]
  /\ sources = [i \in {} |-> None] /\ lastId = 0
  /\ dir = [p \in Places |-> None]
  /\ row = None /\ state = None /\ cards = FALSE /\ loop = "idle"
  /\ overlap = FALSE /\ doubt = FALSE

-----------------------------------------------------------------------------
(* Sources *)

CreateSource ==
  /\ lastId < MaxSources /\ lastId' = lastId + 1
  /\ sources' = [i \in DOMAIN sources \union {lastId'} |->
                   IF i \in DOMAIN sources THEN sources[i] ELSE None]
  /\ UNCHANGED <<pc, item, source, files, row, state, cards, loop, overlap>>

DeleteSource(i) ==
  /\ sources' = [j \in DOMAIN sources \ {i} |-> sources[j]]
  /\ UNCHANGED <<pc, item, source, files, lastId, row, state, cards, loop, overlap>>

Sync(t, i) ==
  /\ pc[t] = "idle" /\ pc' = [pc EXCEPT ![t] = "sync"]
  /\ source' = [source EXCEPT ![t] = i]
  /\ UNCHANGED <<item, files, rows, cards, loop, overlap>>

\* whatever the source publishes by now; a source deleted since has no row to
\* update.  A failed fetch only writes last_error.
Synced(t, v) ==
  /\ pc[t] = "sync" /\ pc' = [pc EXCEPT ![t] = "idle"]
  /\ sources' = [i \in DOMAIN sources |-> IF i = source[t] THEN v ELSE sources[i]]
  /\ UNCHANGED <<item, source, files, lastId, row, state, cards, loop, overlap>>

SyncFails(t) ==
  /\ pc[t] = "sync" /\ pc' = [pc EXCEPT ![t] = "idle"]
  /\ UNCHANGED <<item, source, files, rows, cards, loop, overlap>>

-----------------------------------------------------------------------------
(* What installing and uninstalling share *)

Busy(t) == \E u \in Threads \ {t} : pc[u] \in Working

\* a request begins
Enter(t, next) ==
  /\ pc[t] = "idle" /\ pc' = [pc EXCEPT ![t] = next]
  /\ overlap' = (overlap \/ Busy(t) \/ loop # "idle")
  /\ doubt' = (doubt \/ Busy(t))

Goto(t, next) ==
  /\ pc' = [pc EXCEPT ![t] = next]
  /\ overlap' = (overlap /\ (next # "idle" \/ Busy(t) \/ loop # "idle"))

\* what is to be removed is there; what is to be written is not
Startable(t) ==
  IF pc[t] \in Removals THEN dir[Writes[pc[t]]] # None
  ELSE dir[Writes[pc[t]]] = None /\ (pc[t] = "save" => dir["target"] # None)

Meets(t) == {u \in mid : Touches(pc[u]) \cap Touches(pc[t]) # {}}

Begin(t) ==
  /\ pc[t] \in Calls /\ t \notin mid /\ Startable(t)
  /\ mid' = mid \union {t}
  /\ spoilt' = IF Meets(t) = {} THEN spoilt ELSE spoilt \union Meets(t) \union {t}
  /\ dir' = [dir EXCEPT ![Writes[pc[t]]] = "part"]
  /\ doubt' = (doubt \/ pc[t] = "erase")
  /\ UNCHANGED <<pc, item, source, rows, cards, loop, overlap>>

\* two calls in one directory: files of either are missed or vanish
Outcomes(t) ==
  IF pc[t] \in Removals THEN {None}
  ELSE ({IF pc[t] = "save" THEN dir["target"] ELSE item[t]}
          \union (IF t \in spoilt THEN {"part"} ELSE {})) \ {None}

Following == [drop |-> "save", save |-> "clear", clear |-> "copy",
              copy |-> "record", erase |-> "forget"]

End(t) ==
  /\ t \in mid /\ dir[Writes[pc[t]]] # None
  /\ mid' = mid \ {t} /\ spoilt' = spoilt \ {t} /\ Goto(t, Following[pc[t]])
  /\ \E r \in Outcomes(t) :
       /\ dir' = [dir EXCEPT ![Writes[pc[t]]] = r]
       /\ doubt' = (doubt /\ ~(pc[t] = "copy" /\ r = item[t] /\ ~overlap))
  /\ UNCHANGED <<item, source, rows, cards, loop>>

\* the call raises, at once or in the middle: its part stays
Raises(t) ==
  /\ pc[t] \in Calls /\ Goto(t, "idle")
  /\ mid' = mid \ {t} /\ spoilt' = spoilt \ {t}
  /\ UNCHANGED <<item, source, dir, doubt, rows, cards, loop>>

\* a request that changes nothing in this step
Step(t, from, next) ==
  /\ pc[t] = from /\ Goto(t, next)
  /\ UNCHANGED <<item, source, mid, spoilt, dir, rows, cards, loop>>

-----------------------------------------------------------------------------
(* install_marketplace_item and install_plugin *)

Install(t, i) ==
  /\ i \in DOMAIN sources /\ sources[i] # None /\ Enter(t, "fetch")
  /\ item' = [item EXCEPT ![t] = sources[i]] /\ source' = [source EXCEPT ![t] = i]
  /\ UNCHANGED <<mid, spoilt, dir, rows, cards, loop>>

\* the package is what the index says, and its manifest too, or nothing happens
Fetched(t) == Step(t, "fetch", "look") /\ UNCHANGED doubt
FetchFails(t) == Step(t, "fetch", "idle") /\ UNCHANGED doubt

\* target.exists(), then backup.exists()
FindsTarget(t) ==
  /\ dir["target"] # None /\ Step(t, "look", "lookb")
  /\ doubt' = (doubt \/ dir["target"] = "part")
FindsNothing(t) == dir["target"] = None /\ Step(t, "look", "copy") /\ UNCHANGED doubt

\* slips: the former backup is copied over; there is none for a first upgrade
FindsOldBackup(t) == dir["backup"] # None /\ Step(t, "lookb", "save") /\ UNCHANGED doubt
ClearsAtOnce(t) == dir["backup"] = None /\ Step(t, "lookb", "clear") /\ UNCHANGED doubt

FindsBackup(t) == dir["backup"] # None /\ Step(t, "lookb", "drop") /\ UNCHANGED doubt
FindsNoBackup(t) == dir["backup"] = None /\ Step(t, "lookb", "save") /\ UNCHANGED doubt

\* a slip: the row says what the index offers by now
RecordIndex(t) ==
  /\ pc[t] = "record" /\ source[t] \in DOMAIN sources /\ Goto(t, "idle")
  /\ row' = sources[source[t]] /\ state' = IF state = None THEN "on" ELSE state
  /\ UNCHANGED <<item, source, files, sources, lastId, cards, loop>>

\* both rows in one transaction, which a source deleted meanwhile refuses
Record(t) ==
  /\ pc[t] = "record" /\ source[t] \in DOMAIN sources /\ Goto(t, "idle")
  /\ row' = item[t] /\ state' = IF state = None THEN "on" ELSE state
  /\ UNCHANGED <<item, source, files, sources, lastId, cards, loop>>

RecordFails(t) == Step(t, "record", "idle") /\ UNCHANGED doubt

-----------------------------------------------------------------------------
(* uninstall_marketplace_item and uninstall_plugin *)

\* a slip: the cards are not counted
UninstallAnyway(t) ==
  /\ row # None /\ Enter(t, "exists")
  /\ UNCHANGED <<item, source, mid, spoilt, dir, rows, cards, loop>>

\* the row and the cards, in a transaction of their own
Uninstall(t) ==
  /\ row # None /\ ~cards /\ Enter(t, "exists")
  /\ UNCHANGED <<item, source, mid, spoilt, dir, rows, cards, loop>>

FindsInstalled(t) == dir["target"] # None /\ Step(t, "exists", "erase") /\ UNCHANGED doubt
FindsGone(t) == dir["target"] = None /\ Step(t, "exists", "idle") /\ UNCHANGED doubt

Forget(t) ==
  /\ pc[t] = "forget" /\ Goto(t, "idle") /\ row' = None /\ state' = None
  /\ UNCHANGED <<item, source, files, sources, lastId, cards, loop>>

ForgetFails(t) == Step(t, "forget", "idle") /\ UNCHANGED doubt

-----------------------------------------------------------------------------
(* The event loop, and the end of the server *)

\* get_plugin finds it; a directory with a part missing may have its manifest
Finds(op) ==
  /\ loop = "idle" /\ loop' = op /\ dir["target"] # None
  /\ overlap' = (overlap \/ \E t \in Threads : pc[t] \in Working)
  /\ UNCHANGED <<pc, item, source, files, rows, cards>>

LoopDone ==
  /\ loop' = "idle" /\ overlap' = (overlap /\ \E t \in Threads : pc[t] \in Working)
  /\ UNCHANGED <<pc, item, source, files, sources, lastId, row>>

AddCard == loop = "card" /\ state # "off" /\ cards' = TRUE /\ LoopDone /\ UNCHANGED state

\* disabled, or its permissions are not approved
CardRefused == loop = "card" /\ LoopDone /\ UNCHANGED <<state, cards>>

\* create_tile and an import look at neither files nor state
CreateTile ==
  /\ cards' = TRUE /\ overlap' = (overlap \/ \E t \in Threads : pc[t] \in Working)
  /\ UNCHANGED <<pc, item, source, files, rows, loop>>

\* a slip: any request of the loop writes the plugin's row
PutAnyState == loop # "idle" /\ state' = loop /\ LoopDone /\ UNCHANGED cards

PutState == loop \in {"on", "off"} /\ state' = loop /\ LoopDone /\ UNCHANGED cards

\* the second get_plugin finds it no more
StateRefused ==
  /\ loop \in {"on", "off"} /\ dir["target"] \notin Versions
  /\ LoopDone /\ UNCHANGED <<state, cards>>

DeleteCard ==
  /\ cards' = FALSE
  /\ UNCHANGED <<pc, item, source, files, rows, loop, overlap>>

Kill ==
  /\ pc' = [t \in Threads |-> "idle"] /\ mid' = {} /\ spoilt' = {}
  /\ item' = [t \in Threads |-> None] /\ source' = [t \in Threads |-> 0]
  /\ loop' = "idle" /\ overlap' = FALSE
  /\ UNCHANGED <<dir, doubt, rows, cards>>

Installing(t) ==
  \/ \E i \in DOMAIN sources : Install(t, i)
  \/ Fetched(t) \/ FetchFails(t)
  \/ FindsTarget(t) \/ FindsNothing(t) \/ FindsBackup(t) \/ FindsNoBackup(t)
  \/ Record(t) \/ RecordFails(t)

Uninstalling(t) ==
  \/ Uninstall(t) \/ FindsInstalled(t) \/ FindsGone(t)
  \/ Forget(t) \/ ForgetFails(t)

Next ==
  \/ CreateSource
  \/ \E i \in DOMAIN sources : DeleteSource(i)
  \/ \E t \in Threads :
       \/ \E i \in DOMAIN sources : Sync(t, i)
       \/ \E v \in Versions \union {None} : Synced(t, v)
       \/ SyncFails(t)
       \/ Installing(t) \/ Uninstalling(t)
       \/ Begin(t) \/ End(t) \/ Raises(t)
  \/ \E op \in {"card", "on", "off"} : Finds(op)
  \/ AddCard \/ CardRefused \/ CreateTile \/ PutState \/ StateRefused \/ DeleteCard
  \/ Kill

Spec == Init /\ [][Next]_vars

-----------------------------------------------------------------------------
(* A plugin that is recorded as installed has a whole copy, in place or in the *)
(* backup, at every step of a replacement that fails or is killed: it is in    *)
(* doubt only once somebody uninstalls it, once two requests overlap, or once  *)
(* an attempt begins over the wreckage of another, whose backup it drops.      *)
KeepsACopy == row # None /\ ~doubt => \E p \in Places : dir[p] \in Versions

(* Whatever wreckage came before, a request that had the plugin to itself and  *)
(* succeeds leaves files and rows that agree.                                  *)
SuccessMeansAgreement ==
  [][\A t \in Threads :
       ~overlap /\ (Record(t) \/ Forget(t)) => dir'["target"] = row']_vars

(* No directory that a failed or killed request left makes a later one raise   *)
(* where it makes, copies or removes one: only a request that overlaps finds a *)
(* directory where it must make one, or none where it must take one.  An       *)
(* installation therefore never stops on leftovers; a removal does where no    *)
(* directory is left at all (FindsGone), and its row stays until the plugin is *)
(* installed anew.                                                             *)
LeftoversNeverBlock ==
  \A t \in Threads : pc[t] \in Calls /\ t \notin mid /\ ~Startable(t) => overlap

(* An uninstall erases no files a card uses, unless the card was added while   *)
(* it ran.                                                                     *)
InUseIsKept == \A t \in Threads : pc[t] \in {"erase", "forget"} /\ cards => overlap
=============================================================================

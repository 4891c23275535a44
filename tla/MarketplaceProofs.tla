--------------------------- MODULE MarketplaceProofs ---------------------------
(* What the installation and removal of a plugin keep, for any number of       *)
(* threads, versions and sources; and what the list of plugins, a save and a   *)
(* run conclude, for any secrets, permissions, environments and files.         *)
EXTENDS Marketplace, PluginReadiness, TLAPS

(* No two threads are in a route that changes the plugin.                      *)
Sole == \A t, u \in Threads : pc[t] \in Working /\ pc[u] \in Working => t = u

(* What a thread that is on its own knows of the directories: each call finds  *)
(* what the look before it found, and the last step what the calls made.       *)
Knows(t) ==
  /\ pc[t] \in {"lookb", "drop", "save", "clear", "erase"} => dir["target"] # None
  /\ pc[t] = "drop" => dir["backup"] # None
  /\ pc[t] = "save" /\ t \notin mid => dir["backup"] = None
  /\ pc[t] = "copy" /\ t \notin mid => dir["target"] = None
  /\ pc[t] = "record" => dir["target"] = item[t]
  /\ pc[t] = "forget" => dir["target"] = None
  /\ pc[t] \in {"exists", "erase", "forget"} => ~cards

AloneInv ==
  ~overlap =>
    /\ Sole /\ spoilt = {}
    /\ (\E t \in Threads : pc[t] \in Working) => loop = "idle"
    /\ \A t \in Threads : Knows(t)

(* Which of the two copies is whole, step by step of a replacement.            *)
Keeps(t) ==
  /\ pc[t] \in {"lookb", "drop", "save", "record"} => dir["target"] \in Versions
  /\ pc[t] = "clear" => dir["backup"] \in Versions
  /\ pc[t] = "copy" /\ row # None => dir["backup"] \in Versions
  /\ pc[t] = "erase" => t \notin mid
  /\ pc[t] # "forget"

Copied == \E p \in Places : dir[p] \in Versions

CopyInv ==
  ~doubt =>
    /\ Sole /\ spoilt = {}
    /\ \A t \in Threads : Keeps(t)
    /\ row # None => Copied

IInv == TypeOK /\ AloneInv /\ CopyInv

-----------------------------------------------------------------------------
LEMMA CallsAre ==
  /\ Calls = {"drop", "save", "clear", "copy", "erase"}
  /\ Working = {"drop", "save", "clear", "copy", "erase",
                "fetch", "look", "lookb", "record", "exists", "forget"}
  /\ Writes["drop"] = "backup" /\ Writes["save"] = "backup"
  /\ Writes["clear"] = "target" /\ Writes["copy"] = "target" /\ Writes["erase"] = "target"
  /\ Following["drop"] = "save" /\ Following["save"] = "clear" /\ Following["clear"] = "copy"
  /\ Following["copy"] = "record" /\ Following["erase"] = "forget"
BY DEF Calls, Writes, Working, Following

LEMMA SourceIds ==
  ASSUME TypeOK
  PROVE  /\ DOMAIN sources \subseteq 1..lastId
         /\ \A i \in DOMAIN sources : sources[i] \in Versions \union {None}
<1>1. PICK ids \in SUBSET (1..lastId) : sources \in [ids -> Versions \union {None}]
  BY DEF TypeOK
<1> QED  BY <1>1

LEMMA InitInv == Init => IInv
<1> SUFFICES ASSUME Init PROVE IInv
  OBVIOUS
<1> USE ConstantsAssumption, CallsAre DEF Init
<1>1. TypeOK
  <2>1. sources \in [{} -> Versions \union {None}] /\ {} \in SUBSET (1..lastId)
    OBVIOUS
  <2>2. 0 \in 0..MaxSources
    OBVIOUS
  <2>3. dir \in [Places -> Contents]
    BY DEF Contents
  <2> QED  BY <2>1, <2>2, <2>3 DEF TypeOK
<1>2. AloneInv /\ CopyInv
  BY DEF AloneInv, CopyInv, Sole, Knows, Keeps
<1> QED  BY <1>1, <1>2 DEF IInv

-----------------------------------------------------------------------------
(* Steps outside the routes that change the plugin: a thread that works goes   *)
(* on as before, and nothing the invariant speaks of changes.                  *)

Elsewhere ==
  /\ \A t \in Threads : pc'[t] = pc[t] \/ (pc[t] \notin Working /\ pc'[t] \notin Working)
  /\ UNCHANGED <<item, files, row, cards, loop, overlap>>

LEMMA ElsewhereInv ==
  ASSUME IInv, TypeOK', Elsewhere
  PROVE  IInv'
<1> USE CallsAre DEF IInv, Elsewhere, files
<1>1. Sole => Sole'
  BY DEF Sole
<1>2. \A t \in Threads : (Knows(t) => Knows(t)') /\ (Keeps(t) => Keeps(t)')
  BY DEF Knows, Keeps
<1>3. (\E t \in Threads : pc'[t] \in Working) => \E t \in Threads : pc[t] \in Working
  OBVIOUS
<1>4. AloneInv'
  BY <1>1, <1>2, <1>3 DEF AloneInv
<1>5. CopyInv'
  BY <1>1, <1>2 DEF CopyInv, Copied
<1> QED  BY <1>4, <1>5

LEMMA SourcesInv ==
  ASSUME IInv,
         \/ CreateSource
         \/ \E i \in DOMAIN sources : DeleteSource(i)
         \/ \E t \in Threads : \/ \E i \in DOMAIN sources : Sync(t, i)
                               \/ \E v \in Versions \union {None} : Synced(t, v)
                               \/ SyncFails(t)
  PROVE  IInv'
<1> USE ConstantsAssumption, CallsAre DEF files, rows
<1>t. TypeOK
  BY DEF IInv
<1>s. DOMAIN sources \subseteq 1..lastId /\ (\A i \in DOMAIN sources : sources[i] \in Versions \union {None})
      /\ lastId \in 0..MaxSources
  BY <1>t, SourceIds DEF TypeOK
<1>1. CASE CreateSource
  <2>1. sources' \in [DOMAIN sources \union {lastId'} -> Versions \union {None}]
    BY <1>1, <1>s DEF CreateSource
  <2>2. lastId' \in 0..MaxSources /\ DOMAIN sources \union {lastId'} \in SUBSET (1..lastId')
    BY <1>1, <1>s DEF CreateSource
  <2>3. TypeOK'
    BY <1>1, <1>t, <2>1, <2>2 DEF TypeOK, CreateSource
  <2>4. Elsewhere
    BY <1>1 DEF CreateSource, Elsewhere
  <2> QED  BY <2>3, <2>4, ElsewhereInv
<1>2. ASSUME NEW i \in DOMAIN sources, DeleteSource(i)
      PROVE  IInv'
  <2>1. sources' \in [DOMAIN sources \ {i} -> Versions \union {None}]
        /\ DOMAIN sources \ {i} \in SUBSET (1..lastId)
    BY <1>2, <1>s DEF DeleteSource
  <2>2. TypeOK'
    BY <1>2, <1>t, <2>1 DEF TypeOK, DeleteSource
  <2>3. Elsewhere
    BY <1>2 DEF DeleteSource, Elsewhere
  <2> QED  BY <2>2, <2>3, ElsewhereInv
<1>3. ASSUME NEW t \in Threads, NEW i \in DOMAIN sources, Sync(t, i)
      PROVE  IInv'
  <2>1. i \in 0..MaxSources
    BY <1>s
  <2>2. pc' \in [Threads -> Working \union {"idle", "sync"}] /\ source' \in [Threads -> 0..MaxSources]
    BY <1>3, <1>t, <2>1 DEF Sync, TypeOK
  <2>3. \A u \in Threads : pc'[u] = pc[u] \/ (pc[u] \notin Working /\ pc'[u] \notin Working)
    BY <1>3, <1>t DEF Sync, TypeOK
  <2>4. mid' = mid /\ mid \subseteq {u \in Threads : pc'[u] \in Calls}
    BY <1>3, <1>t, <2>3 DEF Sync, TypeOK
  <2>5. TypeOK'
    BY <1>3, <1>t, <2>2, <2>4 DEF Sync, TypeOK
  <2> QED  BY <1>3, <2>3, <2>5, ElsewhereInv DEF Sync, Elsewhere
<1>4. ASSUME NEW t \in Threads, \/ \E v \in Versions \union {None} : Synced(t, v)
                                \/ SyncFails(t)
      PROVE  IInv'
  <2>1. pc[t] = "sync" /\ pc' = [pc EXCEPT ![t] = "idle"]
        /\ UNCHANGED <<item, source, files, lastId, row, state, cards, loop, overlap>>
    BY <1>4 DEF Synced, SyncFails
  <2>2. sources' \in [DOMAIN sources -> Versions \union {None}]
    <3>1. CASE SyncFails(t)
      BY <3>1, <1>t DEF SyncFails, TypeOK
    <3>2. CASE \E v \in Versions \union {None} : Synced(t, v)
      BY <3>2, <1>s DEF Synced
    <3> QED  BY <3>1, <3>2, <1>4
  <2>3. pc' \in [Threads -> Working \union {"idle", "sync"}]
        /\ \A u \in Threads : pc'[u] = pc[u] \/ (pc[u] \notin Working /\ pc'[u] \notin Working)
    BY <2>1, <1>t DEF TypeOK
  <2>4. mid \subseteq {u \in Threads : pc'[u] \in Calls}
    BY <2>1, <2>3, <1>t DEF TypeOK
  <2>5. DOMAIN sources \in SUBSET (1..lastId)
    BY <1>s
  <2>6. TypeOK'
    BY <1>t, <2>1, <2>2, <2>3, <2>4, <2>5 DEF TypeOK
  <2> QED  BY <2>1, <2>3, <2>6, ElsewhereInv DEF Elsewhere
<1> QED  BY <1>1, <1>2, <1>3, <1>4

-----------------------------------------------------------------------------
(* A thread that works takes its next step: when the overlap ends with it,     *)
(* nobody works any more.                                                      *)
LEMMA GotoFacts ==
  ASSUME TypeOK, NEW t \in Threads, NEW next \in Working \union {"idle"}, pc[t] \in Working, Goto(t, next)
  PROVE  /\ pc' \in [Threads -> Working \union {"idle", "sync"}]
         /\ pc'[t] = next /\ \A u \in Threads \ {t} : pc'[u] = pc[u]
         /\ Sole => Sole'
         /\ overlap' \in BOOLEAN
         /\ ~overlap => ~overlap'
         /\ overlap /\ ~overlap' => loop = "idle" /\ \A u \in Threads : pc'[u] \notin Working
<1> USE CallsAre
<1>1. pc' \in [Threads -> Working \union {"idle", "sync"}]
      /\ pc'[t] = next /\ \A u \in Threads \ {t} : pc'[u] = pc[u]
  BY DEF Goto, TypeOK
<1>2. Sole => Sole'
  BY <1>1 DEF Sole
<1>3. overlap' \in BOOLEAN /\ (~overlap => ~overlap')
  BY DEF Goto, TypeOK
<1>4. overlap /\ ~overlap' => loop = "idle" /\ \A u \in Threads : pc'[u] \notin Working
  BY <1>1 DEF Goto, Busy
<1> QED  BY <1>1, <1>2, <1>3, <1>4

(* The steps of a thread that changes no file: it is enough that what it knows *)
(* and keeps fits the place it goes to.                                        *)
LEMMA StepInv ==
  ASSUME IInv, NEW t \in Threads, NEW from \in Working \ Calls, NEW next \in Working \union {"idle"},
         Step(t, from, next), doubt' \in BOOLEAN, doubt => doubt',
         ~overlap => Knows(t)', ~doubt' => Keeps(t)'
  PROVE  IInv'
<1> USE CallsAre DEF IInv, Step
<1>1. /\ pc' \in [Threads -> Working \union {"idle", "sync"}]
      /\ pc'[t] = next /\ \A u \in Threads \ {t} : pc'[u] = pc[u]
      /\ Sole => Sole'
      /\ overlap' \in BOOLEAN
      /\ ~overlap => ~overlap'
      /\ overlap /\ ~overlap' => loop = "idle" /\ \A u \in Threads : pc'[u] \notin Working
  BY GotoFacts
<1>2. t \notin mid /\ mid \subseteq {u \in Threads : pc'[u] \in Calls}
  BY <1>1 DEF TypeOK
<1>3. TypeOK'
  BY <1>1, <1>2 DEF TypeOK, rows
<1>4. \A u \in Threads \ {t} : (Knows(u) => Knows(u)') /\ (Keeps(u) => Keeps(u)')
  BY <1>1 DEF Knows, Keeps, rows
<1>5. AloneInv'
  <2> SUFFICES ASSUME ~overlap'
               PROVE  /\ Sole' /\ spoilt' = {}
                      /\ (\E u \in Threads : pc'[u] \in Working) => loop' = "idle"
                      /\ \A u \in Threads : Knows(u)'
    BY DEF AloneInv
  <2>1. CASE ~overlap
    BY <1>1, <1>4, <2>1 DEF AloneInv
  <2>2. CASE overlap
    <3>1. \A u \in Threads : pc'[u] \notin Working
      BY <1>1, <2>2
    <3>2. spoilt' = {}
      BY <1>3, <3>1 DEF TypeOK
    <3>3. Sole' /\ \A u \in Threads : Knows(u)'
      BY <3>1 DEF Sole, Knows
    <3> QED  BY <3>1, <3>2, <3>3
  <2> QED  BY <2>1, <2>2
<1>6. CopyInv'
  BY <1>1, <1>4 DEF CopyInv, Copied, rows
<1> QED  BY <1>3, <1>5, <1>6

(* A request begins: when nobody else works, the thread has the plugin to      *)
(* itself from here on.                                                        *)
LEMMA EnterInv ==
  ASSUME IInv, NEW t \in Threads, NEW next \in {"fetch", "exists"}, Enter(t, next),
         next = "exists" => ~cards,
         item' \in [Threads -> Versions \union {None}], \A u \in Threads \ {t} : item'[u] = item[u],
         source' \in [Threads -> 0..MaxSources],
         UNCHANGED <<mid, spoilt, dir, rows, cards, loop>>
  PROVE  IInv'
<1> USE CallsAre DEF IInv, Enter, rows
<1>1. /\ pc' \in [Threads -> Working \union {"idle", "sync"}]
      /\ pc'[t] = next /\ pc[t] = "idle" /\ \A u \in Threads \ {t} : pc'[u] = pc[u]
  BY DEF TypeOK
<1>2. mid \subseteq {u \in Threads : pc'[u] \in Calls}
  BY <1>1 DEF TypeOK
<1>3. overlap' \in BOOLEAN /\ doubt' \in BOOLEAN
  BY DEF TypeOK, Busy
<1>4. TypeOK'
  BY <1>1, <1>2, <1>3 DEF TypeOK
<1>5. ~Busy(t) => \A u \in Threads \ {t} : pc[u] \notin Working
  BY DEF Busy
<1>6. AloneInv'
  <2> SUFFICES ASSUME ~overlap'
               PROVE  /\ Sole' /\ spoilt' = {} /\ loop' = "idle"
                      /\ \A u \in Threads : Knows(u)'
    BY DEF AloneInv
  <2>1. ~overlap /\ ~Busy(t) /\ loop = "idle"
    OBVIOUS
  <2>2. \A u \in Threads \ {t} : pc'[u] \notin Working
    BY <1>1, <1>5, <2>1
  <2>3. Sole' /\ \A u \in Threads : Knows(u)'
    BY <1>1, <2>2 DEF Sole, Knows
  <2> QED  BY <2>1, <2>3 DEF AloneInv
<1>7. CopyInv'
  <2> SUFFICES ASSUME ~doubt'
               PROVE  /\ Sole' /\ spoilt' = {} /\ \A u \in Threads : Keeps(u)'
                      /\ row' # None => Copied'
    BY DEF CopyInv
  <2>1. ~doubt /\ ~Busy(t)
    OBVIOUS
  <2>2. \A u \in Threads \ {t} : pc'[u] \notin Working
    BY <1>1, <1>5, <2>1
  <2>3. Sole' /\ \A u \in Threads : Keeps(u)'
    BY <1>1, <2>2 DEF Sole, Keeps
  <2> QED  BY <2>1, <2>3 DEF CopyInv, Copied
<1> QED  BY <1>4, <1>6, <1>7

LEMMA RequestsInv ==
  ASSUME IInv, NEW t \in Threads,
         \/ \E i \in DOMAIN sources : Install(t, i)
         \/ Uninstall(t)
  PROVE  IInv'
<1>t. TypeOK
  BY DEF IInv
<1>1. ASSUME NEW i \in DOMAIN sources, Install(t, i)
      PROVE  IInv'
  <2>1. sources[i] \in Versions \union {None} /\ i \in 0..MaxSources
    BY ConstantsAssumption, <1>t, SourceIds DEF TypeOK
  <2>2. /\ item' \in [Threads -> Versions \union {None}] /\ \A u \in Threads \ {t} : item'[u] = item[u]
        /\ source' \in [Threads -> 0..MaxSources]
    BY <1>1, <1>t, <2>1 DEF Install, TypeOK
  <2> QED  BY <1>1, <2>2, EnterInv DEF Install
<1>2. CASE Uninstall(t)
  BY <1>2, <1>t, EnterInv DEF Uninstall, TypeOK
<1> QED  BY <1>1, <1>2

LEMMA LooksInv ==
  ASSUME IInv, NEW t \in Threads,
         \/ Fetched(t) \/ FetchFails(t)
         \/ FindsTarget(t) \/ FindsNothing(t) \/ FindsBackup(t) \/ FindsNoBackup(t)
         \/ RecordFails(t) \/ FindsInstalled(t) \/ FindsGone(t) \/ ForgetFails(t)
  PROVE  IInv'
<1> USE CallsAre DEF Step, Goto
<1>t. TypeOK /\ AloneInv /\ CopyInv
  BY DEF IInv
<1>d. doubt \in BOOLEAN /\ dir \in [Places -> Contents] /\ pc \in [Threads -> Working \union {"idle", "sync"}]
  BY <1>t DEF TypeOK
<1>k. (~overlap => Knows(t)) /\ (~doubt => Keeps(t) /\ (row # None => Copied))
  BY <1>t DEF AloneInv, CopyInv
<1>1. CASE Fetched(t)
  BY <1>1, <1>d, StepInv DEF Fetched, Knows, Keeps
<1>2. CASE FetchFails(t)
  BY <1>2, <1>d, StepInv DEF FetchFails, Knows, Keeps
<1>3. CASE FindsTarget(t)
  <2>1. ~doubt' => dir["target"] \in Versions
    BY <1>3, <1>d DEF FindsTarget, Places, Contents
  <2>2. Knows(t)' /\ (~doubt' => Keeps(t)')
    BY <1>3, <1>d, <2>1 DEF FindsTarget, Knows, Keeps
  <2> QED  BY <1>3, <1>d, <2>2, StepInv DEF FindsTarget
<1>4. CASE FindsNothing(t)
  <2>1. ~doubt /\ row # None => dir["backup"] \in Versions
    BY <1>4, <1>k, ConstantsAssumption DEF FindsNothing, Copied, Places
  <2>2. Knows(t)' /\ (~doubt => Keeps(t)')
    BY <1>4, <1>d, <2>1 DEF FindsNothing, Knows, Keeps, rows
  <2> QED  BY <1>4, <1>d, <2>2, StepInv DEF FindsNothing
<1>5. CASE FindsBackup(t)
  BY <1>5, <1>d, <1>k, StepInv DEF FindsBackup, Knows, Keeps
<1>6. CASE FindsNoBackup(t)
  BY <1>6, <1>d, <1>k, StepInv DEF FindsNoBackup, Knows, Keeps
<1>7. CASE RecordFails(t)
  BY <1>7, <1>d, StepInv DEF RecordFails, Knows, Keeps
<1>8. CASE FindsInstalled(t)
  <2>1. t \notin mid
    BY <1>8, <1>t DEF FindsInstalled, TypeOK
  <2>2. (~overlap => Knows(t)') /\ (~doubt => Keeps(t)')
    BY <1>8, <1>d, <1>k, <2>1 DEF FindsInstalled, Knows, Keeps
  <2> QED  BY <1>8, <1>d, <2>2, StepInv DEF FindsInstalled
<1>9. CASE FindsGone(t)
  BY <1>9, <1>d, StepInv DEF FindsGone, Knows, Keeps
<1>10. CASE ForgetFails(t)
  BY <1>10, <1>d, StepInv DEF ForgetFails, Knows, Keeps
<1> QED  BY <1>1, <1>2, <1>3, <1>4, <1>5, <1>6, <1>7, <1>8, <1>9, <1>10

-----------------------------------------------------------------------------
(* The last step of a route: the rows.                                         *)
LEMMA RowsInv ==
  ASSUME IInv, NEW t \in Threads, Record(t) \/ Forget(t)
  PROVE  IInv'
<1> USE CallsAre DEF IInv, files
<1>1. /\ pc[t] \in {"record", "forget"} /\ Goto(t, "idle")
      /\ row' \in Versions \union {None} /\ state' \in {None, "on", "off"}
      /\ pc[t] = "record" => row' = item[t]
      /\ UNCHANGED <<item, source, files, sources, lastId, cards, loop>>
  BY DEF Record, Forget, TypeOK
<1>2. /\ pc' \in [Threads -> Working \union {"idle", "sync"}]
      /\ pc'[t] = "idle" /\ \A u \in Threads \ {t} : pc'[u] = pc[u]
      /\ Sole => Sole'
      /\ overlap' \in BOOLEAN
      /\ ~overlap => ~overlap'
      /\ overlap /\ ~overlap' => loop = "idle" /\ \A u \in Threads : pc'[u] \notin Working
  BY <1>1, GotoFacts
<1>3. t \notin mid /\ mid \subseteq {u \in Threads : pc'[u] \in Calls}
  BY <1>1, <1>2 DEF TypeOK
<1>4. TypeOK'
  BY <1>1, <1>2, <1>3 DEF TypeOK
<1>5. AloneInv'
  <2> SUFFICES ASSUME ~overlap'
               PROVE  /\ Sole' /\ spoilt' = {}
                      /\ (\E u \in Threads : pc'[u] \in Working) => loop' = "idle"
                      /\ \A u \in Threads : Knows(u)'
    BY DEF AloneInv
  <2>1. CASE ~overlap
    BY <1>1, <1>2, <2>1 DEF AloneInv, Knows
  <2>2. CASE overlap
    <3>1. \A u \in Threads : pc'[u] \notin Working
      BY <1>2, <2>2
    <3>2. spoilt' = {} /\ Sole' /\ \A u \in Threads : Knows(u)'
      BY <1>4, <3>1 DEF TypeOK, Sole, Knows
    <3> QED  BY <3>1, <3>2
  <2> QED  BY <2>1, <2>2
<1>6. CopyInv'
  <2> SUFFICES ASSUME ~doubt'
               PROVE  /\ Sole' /\ spoilt' = {} /\ \A u \in Threads : Keeps(u)'
                      /\ row' # None => Copied'
    BY DEF CopyInv
  <2>1. ~doubt /\ Sole /\ spoilt = {} /\ (\A u \in Threads : Keeps(u))
    BY <1>1 DEF CopyInv
  <2>2. pc[t] = "record" /\ dir["target"] \in Versions
    BY <1>1, <2>1 DEF Keeps
  <2>3. \A u \in Threads \ {t} : pc[u] \notin Working
    BY <1>1, <2>1 DEF Sole
  <2>4. \A u \in Threads : Keeps(u)'
    BY <1>2, <2>3 DEF Keeps
  <2>5. Copied'
    BY <1>1, <2>2 DEF Copied, Places
  <2> QED  BY <1>1, <1>2, <2>1, <2>4, <2>5
<1> QED  BY <1>4, <1>5, <1>6

-----------------------------------------------------------------------------
(* The calls on directories.                                                   *)

LEMMA BeginInv ==
  ASSUME IInv, NEW t \in Threads, Begin(t)
  PROVE  IInv'
<1> USE CallsAre, ConstantsAssumption DEF IInv, Begin, rows
<1>1. pc[t] \in Calls /\ t \notin mid /\ Writes[pc[t]] \in Places /\ dir \in [Places -> Contents]
  BY DEF TypeOK, Places
<1>2. /\ dir'[Writes[pc[t]]] = "part"
      /\ \A p \in Places \ {Writes[pc[t]]} : dir'[p] = dir[p]
      /\ dir' \in [Places -> Contents]
  BY <1>1 DEF Contents
<1>3. Meets(t) \subseteq mid /\ Meets(t) \subseteq Threads
  BY DEF Meets, TypeOK
<1>4. TypeOK'
  <2>1. mid' \subseteq {u \in Threads : pc'[u] \in Calls} /\ spoilt' \subseteq mid'
    BY <1>1, <1>3 DEF TypeOK
  <2>2. doubt' \in BOOLEAN
    BY DEF TypeOK
  <2> QED  BY <1>2, <2>1, <2>2 DEF TypeOK
<1>5. Sole => Meets(t) = {} /\ \A u \in Threads \ {t} : pc[u] \notin Working
  <2> SUFFICES ASSUME Sole PROVE Meets(t) = {} /\ \A u \in Threads \ {t} : pc[u] \notin Working
    OBVIOUS
  <2>1. \A u \in Threads \ {t} : pc[u] \notin Working
    BY <1>1 DEF Sole
  <2>2. \A u \in mid : u \in Threads \ {t} /\ pc[u] \in Working
    BY <1>1 DEF TypeOK
  <2> QED  BY <1>3, <2>1, <2>2
<1>6. AloneInv'
  <2> SUFFICES ASSUME ~overlap PROVE Sole' /\ spoilt' = {} /\ \A u \in Threads : Knows(u)'
    BY DEF AloneInv
  <2>1. Sole /\ spoilt = {} /\ Knows(t)
    BY DEF AloneInv
  <2>2. \A u \in Threads \ {t} : Knows(u)'
    BY <1>5, <2>1 DEF Knows
  <2>3. Knows(t)'
    BY <1>1, <1>2, <2>1 DEF Knows, Places
  <2> QED  BY <1>5, <2>1, <2>2, <2>3 DEF Sole
<1>7. CopyInv'
  <2> SUFFICES ASSUME ~doubt'
               PROVE  /\ Sole' /\ spoilt' = {} /\ \A u \in Threads : Keeps(u)'
                      /\ row' # None => Copied'
    BY DEF CopyInv
  <2>1. ~doubt /\ pc[t] # "erase" /\ Sole /\ spoilt = {} /\ Keeps(t)
    BY DEF CopyInv
  <2>2. \A u \in Threads \ {t} : Keeps(u)'
    BY <1>5, <2>1 DEF Keeps
  <2>3. Keeps(t)'
    BY <1>1, <1>2, <2>1 DEF Keeps, Places
  <2>4. row # None => Copied'
    <3>1. pc[t] \in {"drop", "save"} => dir'["target"] \in Versions
      BY <1>2, <2>1 DEF Keeps, Places
    <3>2. pc[t] \in {"clear", "copy"} /\ row # None => dir'["backup"] \in Versions
      BY <1>2, <2>1 DEF Keeps, Places
    <3> QED  BY <1>1, <2>1, <3>1, <3>2 DEF Copied, Places
  <2> QED  BY <1>5, <2>1, <2>2, <2>3, <2>4 DEF Sole
<1> QED  BY <1>4, <1>6, <1>7

LEMMA EndInv ==
  ASSUME IInv, NEW t \in Threads, End(t)
  PROVE  IInv'
<1> USE CallsAre, ConstantsAssumption DEF IInv, rows
<1>0. t \in mid /\ pc[t] \in Calls /\ Following[pc[t]] \in Working
      /\ Writes[pc[t]] \in Places /\ dir \in [Places -> Contents]
  BY DEF End, TypeOK, Places
<1>1. PICK r \in Outcomes(t) :
        /\ dir' = [dir EXCEPT ![Writes[pc[t]]] = r]
        /\ doubt' = (doubt /\ ~(pc[t] = "copy" /\ r = item[t] /\ ~overlap))
  BY DEF End
<1>2. /\ pc' \in [Threads -> Working \union {"idle", "sync"}]
      /\ pc'[t] = Following[pc[t]] /\ \A u \in Threads \ {t} : pc'[u] = pc[u]
      /\ Sole => Sole'
      /\ overlap' \in BOOLEAN
      /\ ~overlap => ~overlap'
      /\ overlap /\ ~overlap' => loop = "idle" /\ \A u \in Threads : pc'[u] \notin Working
  BY <1>0, GotoFacts DEF End
<1>3. /\ mid' = mid \ {t} /\ spoilt' = spoilt \ {t}
      /\ UNCHANGED <<item, source, rows, cards, loop>>
  BY DEF End
<1>4. /\ pc[t] \in Removals => r = None
      /\ pc[t] = "save" => r \in {dir["target"], "part"} /\ r # None
                           /\ (t \notin spoilt => r = dir["target"])
      /\ pc[t] = "copy" => r \in {item[t], "part"} /\ r # None
                           /\ (t \notin spoilt => r = item[t])
  BY <1>0 DEF Outcomes, Removals
<1>5. r \in Contents
  BY <1>0, <1>4 DEF Removals, Contents, TypeOK, Places
<1>6. /\ dir'[Writes[pc[t]]] = r
      /\ \A p \in Places \ {Writes[pc[t]]} : dir'[p] = dir[p]
      /\ dir' \in [Places -> Contents]
  BY <1>0, <1>1, <1>5
<1>7. TypeOK'
  <2>1. mid' \subseteq {u \in Threads : pc'[u] \in Calls} /\ spoilt' \subseteq mid'
    BY <1>2, <1>3 DEF TypeOK
  <2>2. doubt' \in BOOLEAN
    BY <1>1 DEF TypeOK
  <2> QED  BY <1>2, <1>3, <1>6, <2>1, <2>2 DEF TypeOK
<1>8. ~overlap' => ~overlap
  BY <1>0, <1>2
<1>9. Sole => \A u \in Threads \ {t} : pc[u] \notin Working
  BY <1>0 DEF Sole
<1>10. AloneInv'
  <2> SUFFICES ASSUME ~overlap
               PROVE  /\ Sole' /\ spoilt' = {} /\ loop' = "idle"
                      /\ \A u \in Threads : Knows(u)'
    BY <1>8 DEF AloneInv
  <2>1. Sole /\ spoilt = {} /\ loop = "idle" /\ Knows(t)
    BY <1>0 DEF AloneInv
  <2>2. \A u \in Threads \ {t} : Knows(u)'
    BY <1>2, <1>9, <2>1 DEF Knows
  <2>3. Knows(t)'
    <3>1. CASE pc[t] \in {"drop", "save"}
      BY <1>0, <1>2, <1>3, <1>4, <1>6, <2>1, <3>1 DEF Knows, Places, Removals
    <3>2. CASE pc[t] \in {"clear", "copy", "erase"}
      BY <1>0, <1>2, <1>3, <1>4, <1>6, <2>1, <3>2 DEF Knows, Places, Removals
    <3> QED  BY <1>0, <3>1, <3>2
  <2> QED  BY <1>2, <1>3, <2>1, <2>2, <2>3
<1>11. CopyInv'
  <2> SUFFICES ASSUME ~doubt'
               PROVE  /\ Sole' /\ spoilt' = {} /\ \A u \in Threads : Keeps(u)'
                      /\ row' # None => Copied'
    BY DEF CopyInv
  <2>1. CASE ~doubt
    <3>1. Sole /\ spoilt = {} /\ Keeps(t)
      BY <2>1 DEF CopyInv
    <3>2. \A u \in Threads \ {t} : Keeps(u)'
      BY <1>2, <1>9, <3>1 DEF Keeps
    <3>3. pc[t] # "erase"
      BY <1>0, <3>1 DEF Keeps
    <3>4. pc[t] = "drop" => dir'["target"] \in Versions
      BY <1>6, <3>1 DEF Keeps, Places
    <3>5. pc[t] = "save" => dir'["target"] \in Versions /\ dir'["backup"] \in Versions
      BY <1>4, <1>6, <3>1 DEF Keeps, Places
    <3>6. pc[t] = "clear" => dir'["backup"] \in Versions
      BY <1>6, <3>1 DEF Keeps, Places
    <3>7. pc[t] = "copy" => dir'["target"] \in Versions
      BY <1>4, <1>6, <3>1 DEF TypeOK
    <3>8. Keeps(t)'
      BY <1>0, <1>2, <3>3, <3>4, <3>5, <3>6, <3>7 DEF Keeps
    <3>9. Copied'
      BY <1>0, <3>3, <3>4, <3>5, <3>6, <3>7 DEF Copied, Places
    <3> QED  BY <1>2, <1>3, <3>1, <3>2, <3>8, <3>9
  <2>2. CASE doubt
    <3>1. pc[t] = "copy" /\ r = item[t] /\ ~overlap
      BY <1>1, <2>2
    <3>2. Sole /\ spoilt = {}
      BY <3>1 DEF AloneInv
    <3>3. dir'["target"] \in Versions
      BY <1>4, <1>6, <3>1 DEF TypeOK
    <3>4. \A u \in Threads \ {t} : Keeps(u)'
      BY <1>2, <1>9, <3>2 DEF Keeps
    <3>5. Keeps(t)'
      BY <1>2, <3>1, <3>3 DEF Keeps
    <3>6. Copied'
      BY <3>3 DEF Copied, Places
    <3> QED  BY <1>2, <1>3, <3>2, <3>4, <3>5, <3>6
  <2> QED  BY <2>1, <2>2, <1>7 DEF TypeOK
<1> QED  BY <1>7, <1>10, <1>11

LEMMA RaisesInv ==
  ASSUME IInv, NEW t \in Threads, Raises(t)
  PROVE  IInv'
<1> USE CallsAre DEF IInv, Raises, rows
<1>1. /\ pc' \in [Threads -> Working \union {"idle", "sync"}]
      /\ pc'[t] = "idle" /\ \A u \in Threads \ {t} : pc'[u] = pc[u]
      /\ Sole => Sole'
      /\ overlap' \in BOOLEAN
      /\ ~overlap => ~overlap'
      /\ overlap /\ ~overlap' => loop = "idle" /\ \A u \in Threads : pc'[u] \notin Working
  BY GotoFacts
<1>2. mid' \subseteq {u \in Threads : pc'[u] \in Calls} /\ spoilt' \subseteq mid'
  BY <1>1 DEF TypeOK
<1>3. TypeOK'
  BY <1>1, <1>2 DEF TypeOK
<1>4. \A u \in Threads \ {t} : (Knows(u) => Knows(u)') /\ (Keeps(u) => Keeps(u)')
  BY <1>1 DEF Knows, Keeps
<1>5. Knows(t)' /\ Keeps(t)'
  BY <1>1 DEF Knows, Keeps
<1>6. AloneInv'
  <2> SUFFICES ASSUME ~overlap'
               PROVE  /\ Sole' /\ spoilt' = {}
                      /\ (\E u \in Threads : pc'[u] \in Working) => loop' = "idle"
                      /\ \A u \in Threads : Knows(u)'
    BY DEF AloneInv
  <2>1. CASE ~overlap
    BY <1>1, <1>4, <1>5, <2>1 DEF AloneInv
  <2>2. CASE overlap
    <3>1. \A u \in Threads : pc'[u] \notin Working
      BY <1>1, <2>2
    <3>2. spoilt' = {} /\ Sole' /\ \A u \in Threads : Knows(u)'
      BY <1>3, <3>1 DEF TypeOK, Sole, Knows
    <3> QED  BY <3>1, <3>2
  <2> QED  BY <2>1, <2>2
<1>7. CopyInv'
  BY <1>1, <1>4, <1>5 DEF CopyInv, Copied
<1> QED  BY <1>3, <1>6, <1>7

-----------------------------------------------------------------------------
(* The event loop: it adds a card or writes the state, threads stay put.       *)

LEMMA LoopInv ==
  ASSUME IInv,
         \/ \E op \in {"card", "on", "off"} : Finds(op)
         \/ AddCard \/ CardRefused \/ CreateTile \/ PutState \/ StateRefused \/ DeleteCard
  PROVE  IInv'
<1> USE CallsAre DEF IInv, files, rows
<1>1. CASE \E op \in {"card", "on", "off"} : Finds(op)
  <2>1. overlap' \in BOOLEAN /\ loop' \in {"card", "on", "off"}
        /\ (~overlap' => ~overlap /\ \A t \in Threads : pc[t] \notin Working)
    BY <1>1 DEF Finds, TypeOK
  <2>2. UNCHANGED <<pc, item, source, files, rows, cards>>
    BY <1>1 DEF Finds
  <2>3. TypeOK'
    BY <2>1, <2>2 DEF TypeOK
  <2>4. AloneInv' /\ CopyInv'
    BY <2>1, <2>2 DEF AloneInv, CopyInv, Sole, Knows, Keeps, Copied
  <2> QED  BY <2>3, <2>4
<1>2. CASE AddCard \/ CardRefused \/ PutState \/ StateRefused
  <2>1. /\ LoopDone /\ loop # "idle"
        /\ cards' \in BOOLEAN /\ state' \in {None, "on", "off"}
    BY <1>2 DEF AddCard, CardRefused, PutState, StateRefused, TypeOK
  <2>2. /\ UNCHANGED <<pc, item, source, files, sources, lastId, row>>
        /\ loop' = "idle" /\ overlap' \in BOOLEAN
        /\ ~overlap' => \A t \in Threads : pc[t] \notin Working
    BY <2>1 DEF LoopDone, AloneInv, TypeOK
  <2>3. TypeOK'
    BY <2>1, <2>2 DEF TypeOK
  <2>4. AloneInv'
    <3> SUFFICES ASSUME ~overlap' PROVE Sole' /\ spoilt' = {} /\ \A t \in Threads : Knows(t)'
      BY <2>2 DEF AloneInv
    <3>1. \A t \in Threads : pc'[t] \notin Working
      BY <2>2
    <3> QED  BY <2>3, <3>1 DEF TypeOK, Sole, Knows
  <2>5. CopyInv'
    BY <2>2 DEF CopyInv, Sole, Keeps, Copied
  <2> QED  BY <2>3, <2>4, <2>5
<1>3. CASE DeleteCard
  <2>1. TypeOK'
    BY <1>3 DEF DeleteCard, TypeOK
  <2>2. AloneInv' /\ CopyInv'
    BY <1>3 DEF DeleteCard, AloneInv, CopyInv, Sole, Knows, Keeps, Copied
  <2> QED  BY <2>1, <2>2
<1>4. CASE CreateTile
  <2>1. overlap' \in BOOLEAN /\ cards' \in BOOLEAN
        /\ (~overlap' => ~overlap /\ \A t \in Threads : pc[t] \notin Working)
    BY <1>4 DEF CreateTile, TypeOK
  <2>2. UNCHANGED <<pc, item, source, files, rows, loop>>
    BY <1>4 DEF CreateTile
  <2>3. TypeOK'
    BY <2>1, <2>2 DEF TypeOK
  <2>4. AloneInv' /\ CopyInv'
    BY <2>1, <2>2 DEF AloneInv, CopyInv, Sole, Knows, Keeps, Copied
  <2> QED  BY <2>3, <2>4
<1> QED  BY <1>1, <1>2, <1>3, <1>4

LEMMA KillInv ==
  ASSUME IInv, Kill
  PROVE  IInv'
<1> USE CallsAre, ConstantsAssumption DEF IInv, Kill, rows
<1>1. \A t \in Threads : pc'[t] = "idle"
  OBVIOUS
<1>2. TypeOK'
  <2>1. 0 \in 0..MaxSources
    OBVIOUS
  <2> QED  BY <2>1 DEF TypeOK
<1>3. AloneInv' /\ CopyInv'
  BY <1>1 DEF AloneInv, CopyInv, Sole, Knows, Keeps, Copied
<1> QED  BY <1>2, <1>3

-----------------------------------------------------------------------------
LEMMA NextInv == IInv /\ [Next]_vars => IInv'
<1> SUFFICES ASSUME IInv, [Next]_vars PROVE IInv'
  OBVIOUS
<1>1. CASE UNCHANGED vars
  BY <1>1 DEF IInv, TypeOK, AloneInv, CopyInv, Sole, Knows, Keeps, Copied, vars, files, rows
<1>2. CASE CreateSource \/ \E i \in DOMAIN sources : DeleteSource(i)
  BY <1>2, SourcesInv
<1>3. ASSUME NEW t \in Threads,
             \/ \E i \in DOMAIN sources : Sync(t, i)
             \/ \E v \in Versions \union {None} : Synced(t, v)
             \/ SyncFails(t)
             \/ Installing(t) \/ Uninstalling(t)
             \/ Begin(t) \/ End(t) \/ Raises(t)
      PROVE  IInv'
  <2>1. CASE Installing(t) \/ Uninstalling(t)
    BY <2>1, RequestsInv, LooksInv, RowsInv DEF Installing, Uninstalling
  <2>2. CASE Begin(t) \/ End(t) \/ Raises(t)
    BY <2>2, BeginInv, EndInv, RaisesInv
  <2>3. CASE \/ \E i \in DOMAIN sources : Sync(t, i)
             \/ \E v \in Versions \union {None} : Synced(t, v)
             \/ SyncFails(t)
    BY <2>3, SourcesInv
  <2> QED  BY <1>3, <2>1, <2>2, <2>3
<1>4. CASE \/ \E op \in {"card", "on", "off"} : Finds(op)
           \/ AddCard \/ CardRefused \/ CreateTile \/ PutState \/ StateRefused \/ DeleteCard
  BY <1>4, LoopInv
<1>5. CASE Kill
  BY <1>5, KillInv
<1> QED  BY <1>1, <1>2, <1>3, <1>4, <1>5 DEF Next

LEMMA Invariance == Spec => []IInv
BY InitInv, NextInv, PTL DEF Spec

(* The variables have their types, for any number of threads, versions and     *)
(* sources.                                                                    *)
THEOREM TypeCorrect == Spec => []TypeOK
<1>1. IInv => TypeOK
  BY DEF IInv
<1> QED  BY <1>1, Invariance, PTL

(* install_plugin replaces a recorded plugin without ever being short of a     *)
(* whole copy: its rmtree, copytree and rmtree in this order, killed or failed *)
(* anywhere.                                                                   *)
THEOREM CopySurvives == Spec => []KeepsACopy
<1>1. IInv => KeepsACopy
  BY DEF IInv, CopyInv, Copied, KeepsACopy
<1> QED  BY <1>1, Invariance, PTL

(* Whatever earlier requests left in the two directories, one that is past its *)
(* look at them and on its own never finds one where it must make it, or none  *)
(* where it must take it; a removal that finds none at its look has stopped    *)
(* there (uninstall_plugin).                                                   *)
THEOREM NeverBlocked == Spec => []LeftoversNeverBlock
<1>1. IInv => LeftoversNeverBlock
  <2> SUFFICES ASSUME IInv, ~overlap, NEW t \in Threads, pc[t] \in Calls, t \notin mid
               PROVE  Startable(t)
    BY DEF LeftoversNeverBlock, IInv, TypeOK
  <2>1. Knows(t)
    BY DEF IInv, AloneInv
  <2>2. Startable(t)
    BY <2>1, CallsAre DEF Knows, Startable, Removals
  <2> QED  BY <2>2
<1> QED  BY <1>1, Invariance, PTL

(* uninstall_marketplace_item erases nothing that a card uses, unless the card *)
(* was added while it ran.                                                     *)
THEOREM UsedIsKept == Spec => []InUseIsKept
<1>1. IInv => InUseIsKept
  BY DEF IInv, AloneInv, Knows, InUseIsKept, TypeOK
<1> QED  BY <1>1, Invariance, PTL

(* A request that succeeds without another in its way leaves a row for exactly *)
(* the files that are there.                                                   *)
THEOREM SuccessAgrees == Spec => SuccessMeansAgreement
<1>1. IInv /\ [Next]_vars =>
        [\A t \in Threads : ~overlap /\ (Record(t) \/ Forget(t)) => dir'["target"] = row']_vars
  <2> SUFFICES ASSUME IInv, NEW t \in Threads, ~overlap, Record(t) \/ Forget(t)
               PROVE  dir'["target"] = row'
    OBVIOUS
  <2>1. Knows(t)
    BY DEF IInv, AloneInv
  <2> QED  BY <2>1 DEF Knows, Record, Forget, files
<1> QED  BY <1>1, Invariance, PTL DEF Spec, SuccessMeansAgreement
-----------------------------------------------------------------------------
(* public_plugin's runtime_ready is a promise that run_plugin_widget keeps,    *)
(* however often a manifest declares a secret.                                 *)
THEOREM ListIsRight ==
  ASSUME NEW Ms \in SUBSET Manifests, NEW Values, NEW n \in Nat
  PROVE  ReadyIsAccepted(Ms, Values, n)
<1> SUFFICES ASSUME NEW m \in Ms, NEW st \in States, NEW w \in Worlds(Values, n),
                    Ready(m, st, w)
             PROVE  Accepted(m, st, w)
  BY DEF ReadyIsAccepted
<1>1. RequiredLast(m) \subseteq Required(m) /\ Required(m) \subseteq Declared(m)
  BY DEF RequiredLast, Required, Declared
<1>2. \A a \in Required(m) : Resolve(st.refs[a], w) # NoValue
  BY DEF Ready
<1>3. \A a \in RequiredLast(m) : Normal[a] \in Given(m, st, w)
  BY <1>1, <1>2 DEF Given
<1> QED  BY <1>3 DEF Ready, Accepted

(* A run accepts only what the list calls ready, as long as no two             *)
(* declarations share a variable (_secret_environment keeps one value for each *)
(* variable and one declaration for each name).                                *)
THEOREM RunIsRight ==
  ASSUME NEW Ms \in SUBSET Manifests, NEW Values, NEW n \in Nat
  PROVE  AcceptedIsReady(Ms, Values, n)
<1> SUFFICES ASSUME NEW m \in Ms, NEW st \in States, NEW w \in Worlds(Values, n),
                    Apart(m), Accepted(m, st, w)
             PROVE  Ready(m, st, w)
  BY DEF AcceptedIsReady
<1>1. ASSUME NEW a \in Required(m)
      PROVE  Resolve(st.refs[a], w) # NoValue
  <2>1. PICK i \in DOMAIN m.secrets : m.secrets[i].required /\ m.secrets[i].name = a
    BY <1>1 DEF Required
  <2>2. \A k \in DOMAIN m.secrets : k > i => m.secrets[k].name # a
    <3>1. m.secrets \in Seq(Secrets)
      BY DEF Manifests
    <3>2. i \in Nat
      BY <3>1
    <3> QED  BY <2>1, <3>2 DEF Apart
  <2>3. a \in RequiredLast(m)
    BY <2>1, <2>2 DEF RequiredLast
  <2>4. PICK j \in DOMAIN m.secrets :
          /\ Resolve(st.refs[m.secrets[j].name], w) # NoValue
          /\ Normal[m.secrets[j].name] = Normal[a]
    BY <2>3 DEF Accepted, Given, Declared
  <2>5. j = i
    BY <2>1, <2>4 DEF Apart
  <2> QED  BY <2>1, <2>4, <2>5
<1> QED  BY <1>1 DEF Ready, Accepted

(* update_plugin_state, which drops approvals and references the manifest does *)
(* not declare, changes no answer to whether the plugin may run, unless a file *)
(* reference was sent.                                                         *)
THEOREM SaveIsNeutral ==
  ASSUME NEW Ms \in SUBSET Manifests, NEW Values, NEW n \in Nat
  PROVE  SavingKeepsReadiness(Ms, Values, n)
<1> SUFFICES ASSUME NEW m \in Ms, NEW st \in States, NEW w \in Worlds(Values, n),
                    \A k \in Names : st.refs[k] \notin FileRefs
             PROVE  Ready(m, st, w) <=> Ready(m, Stored(m, st.approvals, st.refs), w)
  BY DEF SavingKeepsReadiness
<1> DEFINE saved == Stored(m, st.approvals, st.refs)
<1>1. saved.approvals = st.approvals \cap m.permissions
  BY DEF Stored
<1>2. PermissionReady(m, st) <=> PermissionReady(m, saved)
  BY <1>1 DEF PermissionReady
<1>3. \A a \in Required(m) : saved.refs[a] = st.refs[a]
  <2> SUFFICES ASSUME NEW a \in Required(m) PROVE saved.refs[a] = st.refs[a]
    OBVIOUS
  <2>1. a \in Names /\ a \in Declared(m)
    <3>1. m.secrets \in Seq(Secrets)
      BY DEF Manifests
    <3>2. \A i \in DOMAIN m.secrets : m.secrets[i] \in Secrets
      BY <3>1
    <3>3. \A i \in DOMAIN m.secrets : m.secrets[i].name \in Names
      BY <3>2 DEF Secrets
    <3> QED  BY <3>3 DEF Required, Declared
  <2>2. st.refs[a] \in EnvNames \/ st.refs[a] = NoRef
    BY <2>1 DEF States, Refs
  <2>3. saved.refs[a] = IF a \in Declared(m) /\ st.refs[a] \in EnvNames THEN st.refs[a] ELSE NoRef
    BY <2>1 DEF Stored
  <2> QED  BY <2>1, <2>2, <2>3
<1> HIDE DEF saved
<1>4. Ready(m, st, w) <=> Ready(m, saved, w)
  BY <1>2, <1>3 DEF Ready
<1> QED  BY <1>4 DEF saved

(* install_marketplace_item's check keeps every bundled plugin what it was.    *)
THEOREM BundledUntouched ==
  ASSUME NEW Ids, NEW Values
  PROVE  BundledStays(Ids, Values)
<1> SUFFICES ASSUME NEW B \in SUBSET Ids, NEW id \in Ids, NEW v \in Values,
                    NEW bundled \in [B -> Values], NEW user \in [Ids \ B -> Values],
                    MayInstall(id, bundled, user), NEW b \in B
             PROVE  Discover(bundled, [i \in DOMAIN user \union {id} |->
                                       IF i = id THEN v ELSE user[i]])[b] = bundled[b]
  BY DEF BundledStays
<1>1. DOMAIN bundled = B /\ DOMAIN user = Ids \ B
  OBVIOUS
<1>2. id # b
  BY <1>1 DEF MayInstall, Discover
<1>3. b \notin DOMAIN user \union {id}
  BY <1>1, <1>2
<1> QED  BY <1>1, <1>3 DEF Discover
=============================================================================

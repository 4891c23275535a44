---------------------------- MODULE HamqslCache ----------------------------
(* The propagation cards' data.  The server's collector keeps a shared copy of *)
(* HamQSL's document, replaced as a whole.  A card is a short-lived script that *)
(* reads this copy; without one it asks HamQSL itself, and when it has no good *)
(* document it falls back to NOAA's products, all through a cache of files     *)
(* written in place that every script uses.  Scripts overlap and are killed at *)
(* their time-out.                                                             *)
(*                                                                             *)
(* A tick is CACHE_SECONDS, ten minutes, as is the collector's interval unless *)
(* DASHBOARD_MATRIX_HAMQSL_INTERVAL says otherwise, which is left out.  Its    *)
(* attempt (time-outs of 20 seconds) takes no tick; a script, killed after a   *)
(* minute at most, sees at most one tick pass.  The texts of the collector's   *)
(* status file are left out.                                                   *)
EXTENDS Naturals

CONSTANTS
  Scripts,    \* card scripts that may run at a time
  Products,   \* how many NOAA products the fallback asks for
  NoFile      \* no such file, no data

Old == 3      \* an age in ticks, this or more
Ages == 0..Old
Documents == [good : BOOLEAN, age : Ages]
Urls == 0..Products   \* HamQSL's, then the products'
Pcs == {"idle", "shared", "stat", "look", "ask", "fill", "stamp", "done"}

ASSUME ConstantsAssumption == Products \in Nat \ {0} /\ NoFile \notin Documents

VARIABLES
  shared,     \* HAMQSL_SHARED_CACHE
  collector,  \* "ask", "asleep", "ended" or "off"
  file,       \* the local cache file of each url
  fresh,      \* its .time file is younger than CACHE_SECONDS
  script      \* each script: where it is and what it has

vars == <<shared, collector, file, fresh, script>>

\* url: what is fetched; raw: what was read; tick: whether one passed while the
\* script ran, and while it fetched this url; got, age, stale: the result's
Idle == [pc |-> "idle", url |-> 0, raw |-> NoFile, tick |-> "none",
         got |-> FALSE, age |-> 0, stale |-> FALSE]

TypeOK ==
  /\ shared \in Documents \union {NoFile}
  /\ collector \in {"ask", "asleep", "ended", "off"}
  /\ file \in [Urls -> Documents \union {NoFile}] /\ fresh \in [Urls -> BOOLEAN]
  /\ script \in [Scripts -> [pc : Pcs, url : Urls, raw : Documents \union {NoFile},
                             tick : {"none", "fetch", "earlier"}, got : BOOLEAN, age : Ages, stale : BOOLEAN]]

\* DASHBOARD_MATRIX_DISABLE_HAMQSL leaves the collector out
Init ==
  /\ shared = NoFile /\ collector \in {"ask", "off"}
  /\ file = [u \in Urls |-> NoFile] /\ fresh = [u \in Urls |-> FALSE]
  /\ script = [s \in Scripts |-> Idle]

New(good) == [good |-> good, age |-> 0]
Torn == New(FALSE)   \* what a reader sees of a file that is being written

-----------------------------------------------------------------------------
(* The collector.  It accepts whatever has a solardata element in it: a whole  *)
(* document, or one cut short.                                                 *)

Collects(good) ==
  /\ collector = "ask" /\ collector' = "asleep"
  /\ shared' = New(good)
  /\ UNCHANGED <<file, fresh, script>>

\* no answer, or one without the element: the copy stays
CollectsNothing ==
  /\ collector = "ask" /\ collector' = "asleep"
  /\ UNCHANGED <<shared, file, fresh, script>>

\* the status cannot be written, after the copy was or without it: nothing
\* catches this in collector_loop
StatusFails ==
  /\ collector = "ask" /\ collector' = "ended"
  /\ \/ UNCHANGED shared
     \/ \E good \in BOOLEAN : shared' = New(good)
  /\ UNCHANGED <<file, fresh, script>>

Restart ==
  /\ collector # "off" /\ collector' = "ask"
  /\ UNCHANGED <<shared, file, fresh, script>>

-----------------------------------------------------------------------------
(* A script *)

Become(s, pc, r) == script' = [script EXCEPT ![s] = [r EXCEPT !.pc = pc]]

Start(s) ==
  /\ script[s].pc = "idle" /\ Become(s, "shared", Idle)
  /\ UNCHANGED <<shared, collector, file, fresh>>

\* a slip: a script that has a cache of its own prefers it to the shared copy
PrefersOwn(s) ==
  /\ script[s].pc = "shared"
  /\ IF shared = NoFile \/ file[0] # NoFile THEN Become(s, "look", script[s])
     ELSE Become(s, "stat", [script[s] EXCEPT !.raw = shared])
  /\ UNCHANGED <<shared, collector, file, fresh>>

ReadShared(s) ==
  /\ script[s].pc = "shared"
  /\ IF shared = NoFile THEN Become(s, "look", script[s])
     ELSE Become(s, "stat", [script[s] EXCEPT !.raw = shared])
  /\ UNCHANGED <<shared, collector, file, fresh>>

Shows(s, r, doc, stale) ==
  Become(s, "done", [r EXCEPT !.raw = NoFile, !.tick = "none", !.got = TRUE,
                              !.age = doc.age, !.stale = stale])

Before(tick) == IF tick = "fetch" THEN "earlier" ELSE tick

FallsBack(s, r) == Become(s, "look", [r EXCEPT !.raw = NoFile, !.tick = Before(@), !.url = 1])

\* the file's age is that of the file that is there now
Stat(s) ==
  LET r == script[s] IN
    /\ r.pc = "stat"
    /\ IF r.raw.good THEN Shows(s, r, r.raw, shared.age > 2) ELSE FallsBack(s, r)
    /\ UNCHANGED <<shared, collector, file, fresh>>

Older(a, b) == IF a < b THEN b ELSE a

\* the document has a solardata element, the product a row
Usable(doc) == doc # NoFile /\ doc.good

(* What fetch_url returns for the script's url, and what is made of it: a      *)
(* product that is missing or damaged leaves its values out, and the whole     *)
(* result stale unless it is an empty file or a list without rows, of which    *)
(* some callers say nothing.                                                   *)
Takes(s, doc, stale) ==
  LET r    == script[s]
      good == Usable(doc)
  IN  IF r.url = 0
      THEN IF good THEN Shows(s, r, doc, stale) ELSE FallsBack(s, r)
      ELSE \E told \in BOOLEAN :
           Become(s, IF r.url = Products THEN "done" ELSE "look",
             [r EXCEPT !.raw = NoFile, !.tick = IF r.url = Products THEN "none" ELSE Before(@),
                       !.url = IF r.url = Products THEN r.url ELSE r.url + 1,
                       !.got = r.got \/ good,
                       !.age = IF good THEN Older(r.age, doc.age) ELSE r.age,
                       !.stale = r.stale \/ stale \/ (~good /\ told)])

Look(s) ==
  LET r == script[s] IN
    /\ r.pc = "look"
    /\ IF file[r.url] # NoFile /\ fresh[r.url] THEN Takes(s, file[r.url], FALSE)
       ELSE Become(s, "ask", r)
    /\ UNCHANGED <<shared, collector, file, fresh>>

\* write_bytes empties the file first
Answered(s, good) ==
  /\ script[s].pc = "ask" /\ Become(s, "fill", [script[s] EXCEPT !.raw = New(good)])
  /\ file' = [file EXCEPT ![script[s].url] = Torn]
  /\ UNCHANGED <<shared, collector, fresh>>

Fill(s) ==
  /\ script[s].pc = "fill" /\ Become(s, "stamp", script[s])
  /\ file' = [file EXCEPT ![script[s].url] = script[s].raw]
  /\ UNCHANGED <<shared, collector, fresh>>

\* the time is that of the look
Stamp(s) ==
  /\ script[s].pc = "stamp"
  /\ fresh' = [fresh EXCEPT ![script[s].url] = script[s].tick # "fetch"]
  /\ Takes(s, script[s].raw, FALSE)
  /\ UNCHANGED <<shared, collector, file>>

\* a slip: what is left in the cache is returned as if it were fresh
FailsQuietly(s) ==
  /\ script[s].pc \in {"ask", "fill", "stamp"}
  /\ Takes(s, file[script[s].url], file[script[s].url] = NoFile)
  /\ UNCHANGED <<shared, collector, file, fresh>>

\* no answer, or the cache cannot be written
Fails(s) ==
  /\ script[s].pc \in {"ask", "fill", "stamp"}
  /\ Takes(s, file[script[s].url], TRUE)
  /\ UNCHANGED <<shared, collector, file, fresh>>

End(s) ==
  /\ script[s].pc = "done" /\ Become(s, "idle", Idle)
  /\ UNCHANGED <<shared, collector, file, fresh>>

\* the time-out of run_script
Kill(s) ==
  /\ script[s].pc # "idle" /\ Become(s, "idle", Idle)
  /\ UNCHANGED <<shared, collector, file, fresh>>

-----------------------------------------------------------------------------
Aged(doc) ==
  IF doc = NoFile \/ doc.age = Old THEN doc ELSE [doc EXCEPT !.age = @ + 1]

\* nobody sees the age of values that cannot be read
AgedValues(doc) == IF Usable(doc) THEN Aged(doc) ELSE doc

Fetching(s) == script[s].pc \in {"ask", "fill", "stamp"}

Tick ==
  /\ collector # "ask"
  /\ \A s \in Scripts : script[s].tick = "none"
  /\ shared' = Aged(shared) /\ file' = [u \in Urls |-> AgedValues(file[u])]
  /\ fresh' = [u \in Urls |-> FALSE]
  /\ collector' = IF collector = "asleep" THEN "ask" ELSE collector
  /\ script' = [s \in Scripts |->
       IF script[s].pc \in {"idle", "done"} THEN script[s]
       ELSE [script[s] EXCEPT !.tick = IF Fetching(s) THEN "fetch" ELSE "earlier",
                              !.raw = AgedValues(@),
                              !.age = IF script[s].got /\ @ < Old THEN @ + 1 ELSE @]]

Collecting == (\E good \in BOOLEAN : Collects(good)) \/ CollectsNothing

Runs(s) ==
  \/ ReadShared(s) \/ Stat(s) \/ Look(s)
  \/ \E good \in BOOLEAN : Answered(s, good)
  \/ Fill(s) \/ Stamp(s) \/ Fails(s) \/ End(s)

Next ==
  \/ Tick \/ Collecting \/ StatusFails \/ Restart
  \/ \E s \in Scripts : Start(s) \/ Runs(s) \/ Kill(s)

Spec == Init /\ [][Next]_vars

\* time passes, the collector goes on and no script runs longer than its time-out
FairSpec ==
  /\ Spec /\ WF_vars(Tick) /\ WF_vars(Collecting)
  /\ \A s \in Scripts : WF_vars(Runs(s))

-----------------------------------------------------------------------------
(* The cards say "cached" when what they show is stale: a card that does not   *)
(* shows values of the last twenty minutes - or, when the shared copy was      *)
(* replaced since it was read, the values that were in it before.              *)
StaleIsTold ==
  [][\A s \in Scripts : LET r == script'[s] IN
       script[s].pc # "done" /\ r.pc = "done" /\ r.got /\ ~r.stale =>
         r.age <= 2 \/ (script[s].pc = "stat" /\ shared.age < r.age)]_vars

Trouble == CollectsNothing \/ Collects(FALSE) \/ StatusFails

(* Once the collector is answered and goes on, every card that ends shows      *)
(* HamQSL's values and not as stale, whatever is left in the scripts' cache    *)
(* and however scripts overlap, fail or are killed.                            *)
CardsRecover ==
  <>[][~Trouble]_vars /\ <>[](collector \notin {"ended", "off"}) =>
    <>[](\A s \in Scripts : script[s].pc = "done" =>
           script[s].got /\ script[s].url = 0 /\ ~script[s].stale)
=============================================================================

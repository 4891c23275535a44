--------------------------- MODULE HamqslCacheProofs ---------------------------
(* How old what a card's script holds can be, for any number of scripts and    *)
(* products: each sees one tick at most, and every file under a fresh time was *)
(* written by one.                                                             *)
EXTENDS HamqslCache, TLAPS

Records == [pc : Pcs, url : Urls, raw : Documents \union {NoFile},
            tick : {"none", "fetch", "earlier"}, got : BOOLEAN, age : Ages, stale : BOOLEAN]

Running(r) == r.pc \notin {"idle", "done"}

\* an answer nobody kept for longer than a script runs
Recent(doc) == Usable(doc) => doc.age <= 1

(* The values a running script has, unless it calls them stale, are from less  *)
(* than a tick before it began; the answer it writes came while it ran.        *)
Young(r) ==
  /\ Running(r) /\ ~r.stale => r.age <= IF r.tick = "none" THEN 1 ELSE 2
  /\ r.pc \in {"fill", "stamp"} /\ Usable(r.raw) => r.raw.age <= IF r.tick = "none" THEN 0 ELSE 1

ScriptInv ==
  \A s \in Scripts :
    /\ Young(script[s])
    /\ script[s].pc = "stat" => shared # NoFile /\ script[s].raw # NoFile
    /\ script[s].pc = "stamp" /\ script[s].tick # "fetch" => Recent(file[script[s].url])

FileInv == \A u \in Urls : fresh[u] => Recent(file[u])

IInv == TypeOK /\ ScriptInv /\ FileInv

-----------------------------------------------------------------------------
(* Documents and their ages.                                                   *)

LEMMA DocumentFacts ==
  /\ NoFile \notin Documents /\ 0 \in Ages /\ Old = 3
  /\ \A good \in BOOLEAN : New(good) \in Documents /\ New(good).age = 0
  /\ ~Usable(Torn) /\ ~Usable(NoFile)
  /\ \A a, b \in Ages : Older(a, b) \in Ages /\ (Older(a, b) = a \/ Older(a, b) = b)
  /\ \A doc \in Documents : doc.good \in BOOLEAN /\ doc.age \in Ages
BY ConstantsAssumption DEF Documents, Ages, Old, New, Torn, Usable, Older

\* what the passing of time makes of a document
LEMMA AgedFacts ==
  ASSUME NEW doc \in Documents \union {NoFile}
  PROVE  /\ Aged(doc) \in Documents \union {NoFile}
         /\ AgedValues(doc) \in Documents \union {NoFile}
         /\ AgedValues(doc) = NoFile <=> doc = NoFile
         /\ Aged(doc) = NoFile <=> doc = NoFile
         /\ Usable(AgedValues(doc)) =>
              /\ Usable(doc)
              /\ \A n \in Nat : doc.age <= n => AgedValues(doc).age <= n + 1
<1>1. CASE doc = NoFile
  BY <1>1, DocumentFacts DEF Aged, AgedValues, Usable
<1>2. CASE doc \in Documents
  <2>1. doc # NoFile
    BY <1>2, DocumentFacts
  <2>2. Aged(doc) \in Documents /\ Aged(doc).good = doc.good
        /\ \A n \in Nat : doc.age <= n => Aged(doc).age <= n + 1
    <3>1. CASE doc.age = Old
      BY <1>2, <3>1, DocumentFacts DEF Aged, Old
    <3>2. CASE doc.age # Old
      <4>1. Aged(doc) = [doc EXCEPT !.age = @ + 1]
        BY <2>1, <3>2 DEF Aged
      <4> QED  BY <1>2, <3>2, <4>1 DEF Documents, Ages, Old
    <3> QED  BY <3>1, <3>2
  <2>3. Aged(doc) # NoFile
    BY <2>2, DocumentFacts
  <2>4. CASE Usable(doc)
    BY <2>1, <2>2, <2>3, <2>4 DEF AgedValues
  <2>5. CASE ~Usable(doc)
    BY <1>2, <2>1, <2>3, <2>2, <2>5 DEF AgedValues
  <2> QED  BY <2>4, <2>5
<1> QED  BY <1>1, <1>2

-----------------------------------------------------------------------------
(* A script goes on: only its own record changes.                              *)

LEMMA BecomeFacts ==
  ASSUME TypeOK, NEW s \in Scripts, NEW r \in Records, NEW pc \in Pcs, Become(s, pc, r)
  PROVE  /\ script' \in [Scripts -> Records]
         /\ script'[s] = [r EXCEPT !.pc = pc]
         /\ \A t \in Scripts \ {s} : script'[t] = script[t]
BY DEF TypeOK, Become, Records

LEMMA RecordFacts ==
  ASSUME TypeOK, NEW s \in Scripts
  PROVE  script[s] \in Records
BY DEF TypeOK, Records

\* what a script shows, once it has a document it calls good
LEMMA ShowsFacts ==
  ASSUME TypeOK, NEW s \in Scripts, NEW doc \in Documents, NEW stale \in BOOLEAN,
         Shows(s, script[s], doc, stale)
  PROVE  /\ script' \in [Scripts -> Records]
         /\ script'[s].pc = "done" /\ script'[s].age = doc.age /\ script'[s].stale = stale
         /\ \A t \in Scripts \ {s} : script'[t] = script[t]
<1> DEFINE q == [script[s] EXCEPT !.raw = NoFile, !.tick = "none", !.got = TRUE,
                                  !.age = doc.age, !.stale = stale]
<1>1. q \in Records /\ q.age = doc.age /\ q.stale = stale
  BY RecordFacts, DocumentFacts DEF Records
<1>2. Become(s, "done", q)
  BY DEF Shows
<1> HIDE DEF q
<1>3. script' \in [Scripts -> Records] /\ script'[s] = [q EXCEPT !.pc = "done"]
      /\ \A t \in Scripts \ {s} : script'[t] = script[t]
  BY <1>1, <1>2, BecomeFacts DEF Pcs
<1> QED  BY <1>1, <1>3 DEF Records

\* a script that turns to NOAA keeps the age and the tick it has
LEMMA FallsBackFacts ==
  ASSUME TypeOK, NEW s \in Scripts, Young(script[s]), Running(script[s]), FallsBack(s, script[s])
  PROVE  /\ script' \in [Scripts -> Records]
         /\ script'[s].pc = "look" /\ Young(script'[s])
         /\ \A t \in Scripts \ {s} : script'[t] = script[t]
<1> DEFINE q == [script[s] EXCEPT !.raw = NoFile, !.tick = Before(@), !.url = 1]
<1>1. /\ q \in Records /\ q.age = script[s].age /\ q.stale = script[s].stale
      /\ q.tick = "none" <=> script[s].tick = "none"
  <2>1. 1 \in Urls
    BY ConstantsAssumption DEF Urls
  <2> QED  BY <2>1, RecordFacts DEF Records, Before
<1>2. Become(s, "look", q)
  BY DEF FallsBack
<1> HIDE DEF q
<1>3. script' \in [Scripts -> Records] /\ script'[s] = [q EXCEPT !.pc = "look"]
      /\ \A t \in Scripts \ {s} : script'[t] = script[t]
  BY <1>1, <1>2, BecomeFacts DEF Pcs
<1>4. /\ script'[s].pc = "look" /\ script'[s].age = script[s].age
      /\ script'[s].stale = script[s].stale
      /\ script'[s].tick = "none" <=> script[s].tick = "none"
  BY <1>1, <1>3 DEF Records
<1> QED  BY <1>3, <1>4 DEF Young, Running

(* What fetch_url returns is as young as the file it came from, or is called   *)
(* stale; a script that shows its result then shows what is young.             *)
LEMMA TakesFacts ==
  ASSUME TypeOK, NEW s \in Scripts, Young(script[s]), Running(script[s]),
         NEW doc \in Documents \union {NoFile}, NEW stale \in BOOLEAN,
         stale \/ Recent(doc), Takes(s, doc, stale)
  PROVE  /\ script' \in [Scripts -> Records]
         /\ script'[s].pc \in {"look", "done"}
         /\ Young(script'[s])
         /\ script'[s].pc = "done" /\ ~script'[s].stale => script'[s].age <= 2
         /\ \A t \in Scripts \ {s} : script'[t] = script[t]
<1> DEFINE r    == script[s]
           good == Usable(doc)
<1>r. r \in Records /\ Young(r) /\ Running(r)
  BY RecordFacts
<1>d. good => doc \in Documents /\ (stale \/ doc.age <= 1)
  BY DEF Usable, Recent
<1>1. CASE r.url = 0 /\ good
  <2>1. Shows(s, script[s], doc, stale) /\ doc \in Documents
    BY <1>1, <1>d DEF Takes
  <2>2. /\ script' \in [Scripts -> Records] /\ script'[s].pc = "done"
        /\ script'[s].age = doc.age /\ script'[s].stale = stale
        /\ \A t \in Scripts \ {s} : script'[t] = script[t]
    BY <2>1, ShowsFacts
  <2>3. ~stale => doc.age <= 2
    BY <1>1, <1>d, <2>1, DocumentFacts DEF Ages, Old
  <2> QED  BY <2>2, <2>3 DEF Young, Running
<1>2. CASE r.url = 0 /\ ~good
  <2>1. FallsBack(s, script[s])
    BY <1>2 DEF Takes
  <2> QED  BY <2>1, FallsBackFacts
<1>3. CASE r.url # 0
  <2>0. PICK told \in BOOLEAN :
          Become(s, IF r.url = Products THEN "done" ELSE "look",
            [r EXCEPT !.raw = NoFile, !.tick = IF r.url = Products THEN "none" ELSE Before(@),
                      !.url = IF r.url = Products THEN r.url ELSE r.url + 1,
                      !.got = r.got \/ good,
                      !.age = IF good THEN Older(r.age, doc.age) ELSE r.age,
                      !.stale = r.stale \/ stale \/ (~good /\ told)])
    BY <1>3 DEF Takes
  <2> DEFINE next == IF r.url = Products THEN "done" ELSE "look"
             q == [r EXCEPT !.raw = NoFile,
                            !.tick = IF r.url = Products THEN "none" ELSE Before(r.tick),
                            !.url = IF r.url = Products THEN r.url ELSE r.url + 1,
                            !.got = r.got \/ good,
                            !.age = IF good THEN Older(r.age, doc.age) ELSE r.age,
                            !.stale = r.stale \/ stale \/ (~good /\ told)]
  <2>1. Become(s, next, q)
    BY <2>0
  <2>2. /\ r.url \in Urls /\ r.got \in BOOLEAN /\ r.stale \in BOOLEAN /\ r.age \in Ages
        /\ r.tick \in {"none", "fetch", "earlier"} /\ good \in BOOLEAN
    BY <1>r DEF Records, Usable, Documents
  <2>3. (IF r.url = Products THEN r.url ELSE r.url + 1) \in Urls
    BY <2>2, ConstantsAssumption DEF Urls
  <2>4. (IF good THEN Older(r.age, doc.age) ELSE r.age) \in Ages
    BY <1>d, <2>2, DocumentFacts
  <2>5. q \in Records /\ next \in Pcs
    BY <1>r, <2>2, <2>3, <2>4 DEF Records, Before, Pcs
  <2>6. /\ q.age = IF good THEN Older(r.age, doc.age) ELSE r.age
        /\ q.stale = (r.stale \/ stale \/ (~good /\ told))
        /\ r.url # Products => (q.tick = "none" <=> r.tick = "none")
    BY <1>r, <2>2 DEF Records, Before
  <2>7. ~q.stale =>
          ~r.stale /\ (q.age = r.age \/ (good /\ doc.age <= 1 /\ q.age = Older(r.age, doc.age)))
    BY <2>6, <1>d
  <2>8. ~q.stale => q.age <= IF r.tick = "none" THEN 1 ELSE 2
    <3> SUFFICES ASSUME ~q.stale PROVE q.age <= IF r.tick = "none" THEN 1 ELSE 2
      OBVIOUS
    <3>1. r.age <= IF r.tick = "none" THEN 1 ELSE 2
      BY <1>r, <2>7 DEF Young
    <3>2. q.age = r.age \/ (q.age = doc.age /\ doc.age <= 1 /\ doc.age \in Ages)
      BY <2>2, <2>7, <1>d, DocumentFacts
    <3> QED  BY <2>2, <2>7, <3>1, <3>2, <1>d, DocumentFacts DEF Ages, Old
  <2> HIDE DEF q
  <2>9. script' \in [Scripts -> Records] /\ script'[s] = [q EXCEPT !.pc = next]
        /\ \A t \in Scripts \ {s} : script'[t] = script[t]
    BY <2>1, <2>5, BecomeFacts
  <2>10. script'[s].pc = next /\ script'[s].age = q.age /\ script'[s].stale = q.stale
         /\ script'[s].tick = q.tick
    BY <2>5, <2>9 DEF Records
  <2>11. q.age \in Ages
    BY <2>5 DEF Records
  <2>12. ~q.stale => q.age <= 2
    BY <2>8, <2>11 DEF Ages, Old
  <2>13. CASE r.url = Products
    BY <2>9, <2>10, <2>12, <2>13 DEF Young, Running
  <2>14. CASE r.url # Products
    BY <2>6, <2>8, <2>9, <2>10, <2>14 DEF Young, Running
  <2> QED  BY <2>13, <2>14
<1> QED  BY <1>1, <1>2, <1>3

-----------------------------------------------------------------------------
LEMMA InitInv == Init => IInv
<1> SUFFICES ASSUME Init PROVE IInv
  OBVIOUS
<1>1. Idle \in Records
  BY ConstantsAssumption DEF Idle, Records, Pcs, Urls, Ages, Old
<1>2. TypeOK
  BY <1>1 DEF Init, TypeOK, Records
<1>3. ScriptInv /\ FileInv
  BY DEF Init, Idle, ScriptInv, Young, Running, FileInv
<1> QED  BY <1>2, <1>3 DEF IInv

(* A step of a script that writes no file.                                     *)
LEMMA QuietInv ==
  ASSUME IInv, NEW s \in Scripts, UNCHANGED <<shared, collector, file, fresh>>,
         script' \in [Scripts -> Records], \A t \in Scripts \ {s} : script'[t] = script[t],
         Young(script'[s]), script'[s].pc # "stamp",
         script'[s].pc = "stat" => shared # NoFile /\ script'[s].raw # NoFile
  PROVE  IInv'
<1>1. TypeOK'
  BY DEF IInv, TypeOK, Records
<1>2. ASSUME NEW t \in Scripts
      PROVE  /\ Young(script'[t])
             /\ script'[t].pc = "stat" => shared' # NoFile /\ script'[t].raw # NoFile
             /\ script'[t].pc = "stamp" /\ script'[t].tick # "fetch" => Recent(file'[script'[t].url])
  <2>1. CASE t = s
    BY <2>1
  <2>2. CASE t # s
    BY <2>2 DEF IInv, ScriptInv
  <2> QED  BY <2>1, <2>2
<1>3. ScriptInv'
  BY <1>2 DEF ScriptInv, Young, Running, Recent, Usable
<1>4. FileInv'
  BY DEF IInv, FileInv, Recent, Usable
<1> QED  BY <1>1, <1>3, <1>4 DEF IInv

\* a script that begins, ends or is killed
LEMMA IdleInv ==
  ASSUME IInv, NEW s \in Scripts, Start(s) \/ End(s) \/ Kill(s)
  PROVE  IInv'
<1>1. Idle \in Records
  BY ConstantsAssumption DEF Idle, Records, Pcs, Urls, Ages, Old
<1>2. PICK pc \in {"shared", "idle"} : Become(s, pc, Idle)
  BY DEF Start, End, Kill
<1>3. /\ script' \in [Scripts -> Records] /\ script'[s] = [Idle EXCEPT !.pc = pc]
      /\ \A t \in Scripts \ {s} : script'[t] = script[t]
  <2>1. TypeOK /\ pc \in Pcs
    BY DEF IInv, Pcs
  <2> QED  BY <1>1, <1>2, <2>1, BecomeFacts
<1>4. Young(script'[s]) /\ script'[s].pc = pc
  BY <1>3 DEF Idle, Young, Running
<1>5. UNCHANGED <<shared, collector, file, fresh>>
  BY DEF Start, End, Kill
<1> QED  BY <1>3, <1>4, <1>5, QuietInv

\* a script that goes on with what it has, and what was read
LEMMA GoesOn ==
  ASSUME IInv, NEW s \in Scripts, NEW pc \in {"look", "ask", "stat", "stamp"},
         NEW raw \in Documents \union {NoFile}, Running(script[s]),
         Become(s, pc, [script[s] EXCEPT !.raw = raw]),
         pc = "stamp" => script[s].pc = "fill" /\ raw = script[s].raw
  PROVE  /\ script' \in [Scripts -> Records]
         /\ script'[s] = [script[s] EXCEPT !.raw = raw, !.pc = pc]
         /\ script'[s].pc = pc /\ script'[s].raw = raw /\ script'[s].url = script[s].url
         /\ script'[s].tick = script[s].tick
         /\ Young(script'[s])
         /\ \A t \in Scripts \ {s} : script'[t] = script[t]
<1> DEFINE q == [script[s] EXCEPT !.raw = raw]
<1>1. /\ TypeOK /\ pc \in Pcs
      /\ script[s] \in Records /\ Young(script[s]) /\ q \in Records
  BY RecordFacts DEF IInv, ScriptInv, Records, Pcs
<1>2. script' \in [Scripts -> Records] /\ script'[s] = [q EXCEPT !.pc = pc]
      /\ \A t \in Scripts \ {s} : script'[t] = script[t]
  <2> HIDE DEF q
  <2>1. Become(s, pc, q)
    BY DEF q
  <2> QED  BY <1>1, <2>1, BecomeFacts
<1>3. /\ script'[s] = [script[s] EXCEPT !.raw = raw, !.pc = pc]
      /\ script'[s].pc = pc /\ script'[s].raw = raw /\ script'[s].url = script[s].url
      /\ script'[s].tick = script[s].tick /\ script'[s].age = script[s].age
      /\ script'[s].stale = script[s].stale
  BY <1>1, <1>2 DEF Records
<1>4. Young(script'[s])
  BY <1>1, <1>3 DEF Young, Running
<1> QED  BY <1>2, <1>3, <1>4

\* nothing is read
LEMMA SameRaw ==
  ASSUME TypeOK, NEW s \in Scripts
  PROVE  /\ [script[s] EXCEPT !.raw = script[s].raw] = script[s]
         /\ script[s].raw \in Documents \union {NoFile}
BY RecordFacts DEF Records

LEMMA ReadSharedInv ==
  ASSUME IInv, NEW s \in Scripts, ReadShared(s)
  PROVE  IInv'
<1> USE DEF ReadShared
<1>1. Running(script[s]) /\ TypeOK
  BY DEF IInv, Running
<1>2. CASE shared = NoFile
  <2>1. Become(s, "look", [script[s] EXCEPT !.raw = script[s].raw])
    BY <1>1, <1>2, SameRaw
  <2>2. /\ script' \in [Scripts -> Records] /\ script'[s].pc = "look" /\ Young(script'[s])
        /\ \A t \in Scripts \ {s} : script'[t] = script[t]
    BY <1>1, <2>1, SameRaw, GoesOn
  <2> QED  BY <2>2, QuietInv
<1>3. CASE shared # NoFile
  <2>1. Become(s, "stat", [script[s] EXCEPT !.raw = shared]) /\ shared \in Documents \union {NoFile}
    BY <1>1, <1>3 DEF TypeOK
  <2>2. /\ script' \in [Scripts -> Records] /\ script'[s].pc = "stat" /\ Young(script'[s])
        /\ script'[s].raw = shared /\ \A t \in Scripts \ {s} : script'[t] = script[t]
    BY <1>1, <2>1, GoesOn
  <2> QED  BY <1>3, <2>2, QuietInv
<1> QED  BY <1>2, <1>3

(* A script that shows what it read of the shared copy: the copy is stale, or  *)
(* what was read is of the last twenty minutes, or was replaced.               *)
LEMMA StatShows ==
  ASSUME IInv, NEW s \in Scripts, Stat(s)
  PROVE  /\ IInv'
         /\ script'[s].pc = "done" /\ ~script'[s].stale
              => script'[s].age <= 2 \/ shared.age < script'[s].age
<1> USE DEF Stat
<1>1. /\ TypeOK /\ Young(script[s]) /\ Running(script[s])
      /\ shared \in Documents /\ script[s].raw \in Documents
  BY SameRaw DEF IInv, ScriptInv, TypeOK, Running
<1>2. CASE script[s].raw.good
  <2>1. Shows(s, script[s], script[s].raw, shared.age > 2) /\ (shared.age > 2) \in BOOLEAN
    BY <1>2
  <2>2. /\ script' \in [Scripts -> Records] /\ script'[s].pc = "done"
        /\ script'[s].age = script[s].raw.age /\ script'[s].stale = (shared.age > 2)
        /\ \A t \in Scripts \ {s} : script'[t] = script[t]
    BY <1>1, <2>1, ShowsFacts
  <2>3. shared.age \in 0..3 /\ script[s].raw.age \in 0..3
    BY <1>1 DEF Documents, Ages, Old
  <2>4. Young(script'[s])
    BY <2>2 DEF Young, Running
  <2>5. IInv'
    BY <2>2, <2>4, QuietInv
  <2>6. ~script'[s].stale => shared.age <= 2
    <3>1. CASE shared.age > 2
      BY <2>2, <3>1
    <3>2. CASE ~(shared.age > 2)
      BY <2>3, <3>2
    <3> QED  BY <3>1, <3>2
  <2> QED  BY <2>2, <2>3, <2>5, <2>6
<1>3. CASE ~script[s].raw.good
  <2>1. FallsBack(s, script[s])
    BY <1>3
  <2>2. /\ script' \in [Scripts -> Records] /\ script'[s].pc = "look" /\ Young(script'[s])
        /\ \A t \in Scripts \ {s} : script'[t] = script[t]
    BY <1>1, <2>1, FallsBackFacts
  <2> QED  BY <2>2, QuietInv
<1> QED  BY <1>2, <1>3

LEMMA LookShows ==
  ASSUME IInv, NEW s \in Scripts, Look(s)
  PROVE  /\ IInv'
         /\ script'[s].pc = "done" /\ ~script'[s].stale => script'[s].age <= 2
<1> USE DEF Look
<1>1. /\ TypeOK /\ Young(script[s]) /\ Running(script[s]) /\ script[s].url \in Urls
      /\ file[script[s].url] \in Documents \union {NoFile}
  BY RecordFacts DEF IInv, ScriptInv, TypeOK, Running
<1>2. CASE file[script[s].url] # NoFile /\ fresh[script[s].url]
  <2>1. Recent(file[script[s].url]) /\ Takes(s, file[script[s].url], FALSE)
    BY <1>1, <1>2 DEF IInv, FileInv
  <2>2. /\ script' \in [Scripts -> Records] /\ script'[s].pc \in {"look", "done"}
        /\ Young(script'[s]) /\ (script'[s].pc = "done" /\ ~script'[s].stale => script'[s].age <= 2)
        /\ \A t \in Scripts \ {s} : script'[t] = script[t]
    BY <1>1, <2>1, TakesFacts
  <2> QED  BY <2>2, QuietInv
<1>3. CASE ~(file[script[s].url] # NoFile /\ fresh[script[s].url])
  <2>1. Become(s, "ask", [script[s] EXCEPT !.raw = script[s].raw])
    BY <1>1, <1>3, SameRaw
  <2>2. /\ script' \in [Scripts -> Records] /\ script'[s].pc = "ask" /\ Young(script'[s])
        /\ \A t \in Scripts \ {s} : script'[t] = script[t]
    BY <1>1, <2>1, SameRaw, GoesOn
  <2> QED  BY <2>2, QuietInv
<1> QED  BY <1>2, <1>3

LEMMA FailsShows ==
  ASSUME IInv, NEW s \in Scripts, Fails(s)
  PROVE  /\ IInv'
         /\ script'[s].pc = "done" /\ ~script'[s].stale => script'[s].age <= 2
<1> USE DEF Fails
<1>1. /\ TypeOK /\ Young(script[s]) /\ Running(script[s])
      /\ file[script[s].url] \in Documents \union {NoFile}
  BY RecordFacts DEF IInv, ScriptInv, TypeOK, Running, Records
<1>2. /\ script' \in [Scripts -> Records] /\ script'[s].pc \in {"look", "done"}
      /\ Young(script'[s]) /\ (script'[s].pc = "done" /\ ~script'[s].stale => script'[s].age <= 2)
      /\ \A t \in Scripts \ {s} : script'[t] = script[t]
  <2>1. Takes(s, file[script[s].url], TRUE)
    OBVIOUS
  <2> QED  BY <1>1, <2>1, TakesFacts
<1> QED  BY <1>2, QuietInv

-----------------------------------------------------------------------------
(* The steps that write.                                                       *)

LEMMA StampShows ==
  ASSUME IInv, NEW s \in Scripts, Stamp(s)
  PROVE  /\ IInv'
         /\ script'[s].pc = "done" /\ ~script'[s].stale => script'[s].age <= 2
<1> USE DEF Stamp
<1>1. /\ TypeOK /\ Young(script[s]) /\ Running(script[s]) /\ script[s].url \in Urls
      /\ script[s].raw \in Documents \union {NoFile} /\ Recent(script[s].raw)
  <2>1. TypeOK /\ Young(script[s]) /\ script[s] \in Records
    BY RecordFacts DEF IInv, ScriptInv
  <2>2. Usable(script[s].raw) => script[s].raw.age \in 0..3
    BY <2>1 DEF Records, Usable, Documents, Ages, Old
  <2> QED  BY <2>1, <2>2 DEF Young, Running, Recent, Records
<1>2. /\ script' \in [Scripts -> Records] /\ script'[s].pc \in {"look", "done"}
      /\ Young(script'[s]) /\ (script'[s].pc = "done" /\ ~script'[s].stale => script'[s].age <= 2)
      /\ \A t \in Scripts \ {s} : script'[t] = script[t]
  <2>1. Takes(s, script[s].raw, FALSE)
    OBVIOUS
  <2> QED  BY <1>1, <2>1, TakesFacts
<1>3. TypeOK'
  BY <1>1, <1>2 DEF TypeOK, Records
<1>4. ScriptInv'
  <2>1. ASSUME NEW t \in Scripts
        PROVE  /\ Young(script'[t])
               /\ script'[t].pc = "stat" => shared' # NoFile /\ script'[t].raw # NoFile
               /\ script'[t].pc = "stamp" /\ script'[t].tick # "fetch" => Recent(file'[script'[t].url])
    BY <1>2 DEF IInv, ScriptInv
  <2> QED  BY <2>1 DEF ScriptInv, Young, Running, Recent, Usable
<1>5. FileInv'
  <2>1. ASSUME NEW u \in Urls, fresh'[u] PROVE Recent(file[u])
    <3>1. CASE u = script[s].url
      BY <1>1, <2>1, <3>1 DEF IInv, ScriptInv, TypeOK
    <3>2. CASE u # script[s].url
      BY <1>1, <2>1, <3>2 DEF IInv, FileInv, TypeOK
    <3> QED  BY <3>1, <3>2
  <2> QED  BY <2>1 DEF FileInv, Recent, Usable
<1> QED  BY <1>2, <1>3, <1>4, <1>5 DEF IInv

\* a file is emptied, or filled with what was just received
LEMMA WriteInv ==
  ASSUME IInv, NEW s \in Scripts, Fill(s) \/ \E good \in BOOLEAN : Answered(s, good)
  PROVE  IInv'
<1> DEFINE u == script[s].url
<1>1. /\ TypeOK /\ Young(script[s]) /\ script[s] \in Records /\ u \in Urls
      /\ Running(script[s]) /\ script[s].pc \in {"ask", "fill"}
  BY RecordFacts DEF IInv, ScriptInv, Records, Running, Answered, Fill
<1>2. PICK doc \in Documents \union {NoFile} :
        /\ file' = [file EXCEPT ![u] = doc] /\ Recent(doc)
        /\ \/ doc = Torn
           \/ Become(s, "stamp", script[s])
  <2>1. CASE Fill(s)
    <3>1. script[s].raw \in Documents \union {NoFile}
      BY <1>1 DEF Records
    <3>2. Recent(script[s].raw)
      <4>1. Usable(script[s].raw) => script[s].raw.age \in 0..3
        BY <3>1 DEF Usable, Documents, Ages, Old
      <4> QED  BY <1>1, <2>1, <4>1 DEF Fill, Young, Recent
    <3> QED  BY <2>1, <3>1, <3>2 DEF Fill
  <2>2. CASE \E good \in BOOLEAN : Answered(s, good)
    BY <2>2, DocumentFacts DEF Answered, Torn, Recent
  <2> QED  BY <2>1, <2>2
<1> DEFINE Moved == /\ script' \in [Scripts -> Records] /\ Young(script'[s])
                    /\ script'[s].url = u /\ script'[s].pc \in {"fill", "stamp"}
                    /\ \A t \in Scripts \ {s} : script'[t] = script[t]
<1>3. Moved
  <2>1. CASE Fill(s)
    <3>1. Become(s, "stamp", [script[s] EXCEPT !.raw = script[s].raw])
      BY <1>1, <2>1, SameRaw DEF Fill
    <3> QED  BY <1>1, <2>1, <3>1, SameRaw, GoesOn DEF Fill
  <2>2. ASSUME NEW good \in BOOLEAN, Answered(s, good)
        PROVE  Moved
    <3> DEFINE q == [script[s] EXCEPT !.raw = New(good)]
    <3>1. q \in Records /\ Become(s, "fill", q)
      BY <1>1, <2>2, DocumentFacts DEF Answered, Records
    <3>2. script' \in [Scripts -> Records] /\ script'[s] = [q EXCEPT !.pc = "fill"]
          /\ \A t \in Scripts \ {s} : script'[t] = script[t]
      BY <1>1, <3>1, BecomeFacts DEF Pcs
    <3>3. /\ script'[s].pc = "fill" /\ script'[s].raw = New(good) /\ script'[s].url = u
          /\ script'[s].age = script[s].age /\ script'[s].stale = script[s].stale
          /\ script'[s].tick = script[s].tick
      BY <1>1, <3>2 DEF Records
    <3>4. Young(script'[s])
      <4>1. script[s].pc = "ask" /\ New(good).age = 0
        BY <2>2, DocumentFacts DEF Answered
      <4> QED  BY <1>1, <3>3, <4>1 DEF Young, Running
    <3> QED  BY <3>2, <3>3, <3>4
  <2> QED  BY <2>1, <2>2
<1>4. UNCHANGED <<shared, collector, fresh>>
  BY DEF Fill, Answered
<1>5. \A v \in Urls : file'[v] = IF v = u THEN doc ELSE file[v]
  BY <1>1, <1>2 DEF TypeOK
<1>6. TypeOK'
  BY <1>1, <1>2, <1>3, <1>4 DEF TypeOK, Records
<1>7. ScriptInv'
  <2>1. ASSUME NEW t \in Scripts
        PROVE  /\ Young(script'[t])
               /\ script'[t].pc = "stat" => shared' # NoFile /\ script'[t].raw # NoFile
               /\ script'[t].pc = "stamp" /\ script'[t].tick # "fetch" => Recent(file'[script'[t].url])
    <3>1. CASE t = s
      BY <1>1, <1>2, <1>3, <1>5, <3>1
    <3>2. CASE t # s
      <4>1. script'[t] = script[t] /\ script[t].url \in Urls
        BY <1>1, <1>3, <3>2, RecordFacts DEF Records
      <4> QED  BY <1>2, <1>4, <1>5, <4>1 DEF IInv, ScriptInv
    <3> QED  BY <3>1, <3>2
  <2> QED  BY <2>1 DEF ScriptInv, Young, Running, Recent, Usable
<1>8. FileInv'
  <2>1. ASSUME NEW v \in Urls, fresh[v] PROVE Recent(file'[v])
    BY <1>2, <1>5, <2>1 DEF IInv, FileInv
  <2> QED  BY <1>4, <2>1 DEF FileInv, Recent, Usable
<1> QED  BY <1>6, <1>7, <1>8 DEF IInv

\* the collector only ever makes a copy
LEMMA CollectorInv ==
  ASSUME IInv, Collecting \/ StatusFails \/ Restart
  PROVE  IInv'
<1>1. /\ UNCHANGED <<file, fresh, script>>
      /\ shared' \in Documents \union {NoFile} /\ (shared # NoFile => shared' # NoFile)
      /\ collector' \in {"ask", "asleep", "ended", "off"}
  BY DocumentFacts DEF Collecting, Collects, CollectsNothing, StatusFails, Restart, IInv, TypeOK
<1>2. TypeOK'
  BY <1>1 DEF IInv, TypeOK
<1>3. ScriptInv' /\ FileInv'
  BY <1>1 DEF IInv, ScriptInv, FileInv, Young, Running, Recent, Usable
<1> QED  BY <1>2, <1>3 DEF IInv

(* A tick: no running script has seen one before, so what it has grows old by  *)
(* one, and those that fetch know that their time is not that of their answer. *)
LEMMA TickInv ==
  ASSUME IInv, Tick
  PROVE  IInv'
<1>1. shared' \in Documents \union {NoFile} /\ (shared # NoFile => shared' # NoFile)
  BY AgedFacts DEF IInv, TypeOK, Tick
<1>2. /\ file' \in [Urls -> Documents \union {NoFile}] /\ fresh' \in [Urls -> BOOLEAN]
      /\ collector' \in {"ask", "asleep", "ended", "off"}
  BY AgedFacts DEF IInv, TypeOK, Tick
<1>3. ASSUME NEW t \in Scripts
      PROVE  /\ script'[t] \in Records
             /\ Young(script'[t])
             /\ script'[t].pc = "stat" => shared' # NoFile /\ script'[t].raw # NoFile
             /\ script'[t].pc = "stamp" => script'[t].tick = "fetch"
  <2>1. script[t] \in Records /\ Young(script[t]) /\ script[t].tick = "none"
    BY RecordFacts DEF IInv, ScriptInv, Tick
  <2>2. CASE script[t].pc \in {"idle", "done"}
    <3>1. script'[t] = script[t]
      BY <2>2 DEF Tick
    <3> QED  BY <2>1, <2>2, <3>1 DEF Young, Running
  <2>3. CASE script[t].pc \notin {"idle", "done"}
    <3> DEFINE age == IF script[t].got /\ script[t].age < Old THEN script[t].age + 1
                      ELSE script[t].age
    <3>1. script'[t] = [script[t] EXCEPT !.tick = IF Fetching(t) THEN "fetch" ELSE "earlier",
                                         !.raw = AgedValues(script[t].raw),
                                         !.age = age]
      BY <2>3 DEF Tick
    <3>2. script[t].age \in 0..3 /\ age \in 0..3 /\ age <= script[t].age + 1
      <4>1. script[t].age \in 0..3 /\ Old = 3
        BY <2>1 DEF Records, Ages, Old
      <4>2. age = script[t].age \/ (age = script[t].age + 1 /\ script[t].age < 3)
        BY <4>1
      <4> HIDE DEF age
      <4> QED  BY <4>1, <4>2
    <3>3. AgedValues(script[t].raw) \in Documents \union {NoFile}
          /\ (script[t].raw # NoFile => AgedValues(script[t].raw) # NoFile)
          /\ (Usable(AgedValues(script[t].raw)) =>
                Usable(script[t].raw) /\ (script[t].raw.age <= 0 => AgedValues(script[t].raw).age <= 1))
      <4> DEFINE raw == script[t].raw
      <4>1. raw \in Documents \union {NoFile}
        BY <2>1 DEF Records
      <4> HIDE DEF raw
      <4>2. /\ AgedValues(raw) \in Documents \union {NoFile}
            /\ AgedValues(raw) = NoFile <=> raw = NoFile
            /\ Usable(AgedValues(raw)) =>
                 Usable(raw) /\ \A n \in Nat : raw.age <= n => AgedValues(raw).age <= n + 1
        BY <4>1, AgedFacts
      <4>3. Usable(AgedValues(raw)) /\ raw.age <= 0 => AgedValues(raw).age <= 0 + 1
        BY <4>2
      <4> QED  BY <4>2, <4>3 DEF raw
    <3> HIDE DEF age
    <3>4. script'[t] \in Records
      BY <2>1, <3>1, <3>2, <3>3 DEF Records, Ages, Old
    <3>5. /\ script'[t].pc = script[t].pc /\ script'[t].stale = script[t].stale
          /\ script'[t].raw = AgedValues(script[t].raw) /\ script'[t].age = age
          /\ script'[t].tick = IF Fetching(t) THEN "fetch" ELSE "earlier"
      BY <2>1, <3>1 DEF Records
    <3>6. ~script'[t].stale => script'[t].age <= 2
      <4>1. ~script[t].stale => script[t].age <= 1
        BY <2>1, <2>3 DEF Young, Running
      <4> QED  BY <3>2, <3>5, <4>1
    <3>7. script'[t].pc \in {"fill", "stamp"} /\ Usable(script'[t].raw) => script'[t].raw.age <= 1
      BY <2>1, <3>3, <3>5 DEF Young
    <3>8. Young(script'[t])
      <4>1. script'[t].tick # "none"
        BY <3>5
      <4> QED  BY <3>6, <3>7, <4>1 DEF Young
    <3>9. script'[t].pc = "stat" => shared' # NoFile /\ script'[t].raw # NoFile
      BY <1>1, <3>3, <3>5 DEF IInv, ScriptInv
    <3>10. script'[t].pc = "stamp" => script'[t].tick = "fetch"
      BY <3>5 DEF Fetching
    <3> QED  BY <3>4, <3>8, <3>9, <3>10
  <2> QED  BY <2>2, <2>3
<1>4. script' \in [Scripts -> Records]
  BY <1>3 DEF Tick
<1>5. TypeOK'
  BY <1>1, <1>2, <1>4 DEF TypeOK, Records
<1>6. ScriptInv'
  BY <1>3 DEF ScriptInv, Young, Running, Recent, Usable
<1>7. FileInv'
  BY DEF FileInv, Tick
<1> QED  BY <1>5, <1>6, <1>7 DEF IInv

-----------------------------------------------------------------------------
LEMMA NextInv == IInv /\ [Next]_vars => IInv'
<1> SUFFICES ASSUME IInv, [Next]_vars PROVE IInv'
  OBVIOUS
<1>1. CASE UNCHANGED vars
  BY <1>1 DEF IInv, TypeOK, ScriptInv, FileInv, Young, Running, Recent, Usable, vars
<1>2. CASE Tick
  BY <1>2, TickInv
<1>3. CASE Collecting \/ StatusFails \/ Restart
  BY <1>3, CollectorInv
<1>4. ASSUME NEW s \in Scripts, Start(s) \/ Runs(s) \/ Kill(s)
      PROVE  IInv'
  <2>1. CASE Start(s) \/ End(s) \/ Kill(s)
    BY <2>1, IdleInv
  <2>2. CASE ReadShared(s)
    BY <2>2, ReadSharedInv
  <2>3. CASE Stat(s) \/ Look(s) \/ Fails(s) \/ Stamp(s)
    BY <2>3, StatShows, LookShows, FailsShows, StampShows
  <2>4. CASE Fill(s) \/ \E good \in BOOLEAN : Answered(s, good)
    BY <2>4, WriteInv
  <2> QED  BY <1>4, <2>1, <2>2, <2>3, <2>4 DEF Runs
<1> QED  BY <1>1, <1>2, <1>3, <1>4 DEF Next

LEMMA Invariance == Spec => []IInv
BY InitInv, NextInv, PTL DEF Spec

(* Files, their times and what scripts hold keep their types, for any number   *)
(* of scripts and products.                                                    *)
THEOREM TypeCorrect == Spec => []TypeOK
<1>1. IInv => TypeOK
  BY DEF IInv
<1> QED  BY <1>1, Invariance, PTL

(* Only the steps in which a script reads something end it with a result.      *)
LEMMA OnlyReadingEnds ==
  ASSUME IInv, [Next]_vars, NEW s \in Scripts, script[s].pc # "done", script'[s].pc = "done"
  PROVE  Stat(s) \/ Look(s) \/ Fails(s) \/ Stamp(s)
<1>t. TypeOK
  BY DEF IInv
<1>1. CASE UNCHANGED vars \/ Collecting \/ StatusFails \/ Restart
  BY <1>1 DEF vars, Collecting, Collects, CollectsNothing, StatusFails, Restart
<1>2. CASE Tick
  <2>1. script'[s].pc = script[s].pc
    BY <1>2, <1>t, RecordFacts DEF Tick, Records
  <2> QED  BY <2>1
<1>3. ASSUME NEW t \in Scripts, Start(t) \/ Runs(t) \/ Kill(t)
      PROVE  Stat(s) \/ Look(s) \/ Fails(s) \/ Stamp(s)
  <2>1. CASE t # s
    <3>1. script'[s] = script[s]
      BY <1>3, <2>1, <1>t DEF TypeOK, Start, Runs, Kill, ReadShared, Stat, Look, Answered, Fill, Stamp,
                        Fails, End, Become, Takes, Shows, FallsBack
    <3> QED  BY <3>1
  <2>2. CASE t = s /\ (Start(s) \/ End(s) \/ Kill(s))
    <3>1. PICK pc \in {"shared", "idle"} : Become(s, pc, Idle)
      BY <2>2 DEF Start, End, Kill
    <3>2. script'[s].pc = pc
      BY <3>1, <1>t DEF TypeOK, Become, Idle
    <3> QED  BY <3>2
  <2>3. CASE t = s /\ (ReadShared(s) \/ Fill(s) \/ \E good \in BOOLEAN : Answered(s, good))
    <3>1. PICK pc \in {"look", "stat", "stamp", "fill"}, raw \in Documents \union {NoFile} :
            Become(s, pc, [script[s] EXCEPT !.raw = raw])
      <4>1. CASE ReadShared(s)
        BY <2>3, <1>t, <4>1, SameRaw DEF ReadShared, TypeOK
      <4>2. CASE Fill(s)
        BY <1>t, <4>2, SameRaw DEF Fill
      <4>3. CASE \E good \in BOOLEAN : Answered(s, good)
        BY <4>3, DocumentFacts DEF Answered
      <4> QED  BY <2>3, <4>1, <4>2, <4>3
    <3>2. script'[s].pc = pc
      <4> DEFINE q == [script[s] EXCEPT !.raw = raw]
      <4>1. q \in Records /\ pc \in Pcs
        BY <1>t, RecordFacts DEF Records, Pcs
      <4>2. Become(s, pc, q)
        BY <3>1
      <4> HIDE DEF q
      <4>3. script'[s] = [q EXCEPT !.pc = pc]
        BY <1>t, <4>1, <4>2, BecomeFacts
      <4> QED  BY <4>1, <4>3 DEF Records
    <3> QED  BY <3>2
  <2> QED  BY <1>3, <2>1, <2>2, <2>3 DEF Runs
<1> QED  BY <1>1, <1>2, <1>3 DEF Next

(* load_propagation_with_fallback never gives values that are not of the last  *)
(* twenty minutes without calling them stale, whatever other scripts leave in  *)
(* the cache's files - but for a shared copy that is replaced while it is read. *)
THEOREM OldIsCalledStale == Spec => StaleIsTold
<1> DEFINE Told == \A s \in Scripts : LET r == script'[s] IN
               script[s].pc # "done" /\ r.pc = "done" /\ r.got /\ ~r.stale =>
                 r.age <= 2 \/ (script[s].pc = "stat" /\ shared.age < r.age)
<1>1. IInv /\ [Next]_vars => [Told]_vars
  <2> SUFFICES ASSUME IInv, [Next]_vars, NEW s \in Scripts,
                      script[s].pc # "done", script'[s].pc = "done", ~script'[s].stale
               PROVE  script'[s].age <= 2 \/ (script[s].pc = "stat" /\ shared.age < script'[s].age)
    OBVIOUS
  <2>1. Stat(s) \/ Look(s) \/ Fails(s) \/ Stamp(s)
    BY OnlyReadingEnds
  <2>2. CASE Stat(s)
    BY <2>2, StatShows DEF Stat
  <2>3. CASE Look(s) \/ Fails(s) \/ Stamp(s)
    BY <2>3, LookShows, FailsShows, StampShows
  <2> QED  BY <2>1, <2>2, <2>3
<1> QED  BY <1>1, Invariance, PTL DEF Spec, StaleIsTold

-----------------------------------------------------------------------------
(* How the cards recover.  HamQSL has been answered: the shared copy is whole  *)
(* and is replaced before it is two ticks old.                                 *)
Supplied ==
  /\ collector \in {"ask", "asleep"}
  /\ shared # NoFile /\ shared.good
  /\ shared.age <= 1 /\ (collector = "asleep" => shared.age = 0)

(* A script has, or will find, the shared copy; a card that has ended shows    *)
(* HamQSL's values and not as stale.                                           *)
Served(s) ==
  LET r == script[s] IN
    \/ r.pc = "idle"
    \/ r.pc = "shared" /\ r.url = 0
    \/ r.pc = "stat" /\ r.url = 0 /\ r.raw # NoFile /\ r.raw.good
    \/ r.pc = "done" /\ r.got /\ r.url = 0 /\ ~r.stale

(* One answer of HamQSL's supplies the cards, and unless the collector has     *)
(* trouble again they stay so, through restarts and whatever time passes.      *)
(* Scripts that fell back before then only leave: one that is served, or that  *)
(* begins, never turns to the cache that the others left                       *)
(* (collect_once, load_propagation_with_fallback).                             *)
RecoveryLasts ==
  [][/\ Collects(TRUE) => Supplied'
     /\ Supplied /\ ~Trouble =>
          Supplied' /\ \A s \in Scripts : Served(s) => Served(s)']_vars

LEMMA CollectsSupplies == Collects(TRUE) => Supplied'
<1> SUFFICES ASSUME Collects(TRUE) PROVE Supplied'
  OBVIOUS
<1> DEFINE whole == New(TRUE)
<1>1. whole # NoFile /\ whole.good /\ whole.age = 0
  BY DocumentFacts DEF New
<1>2. shared' = whole /\ collector' = "asleep"
  BY DEF Collects
<1> HIDE DEF whole
<1> QED  BY <1>1, <1>2 DEF Supplied

\* a step of the scripts or of time leaves the shared copy as whole as it was
LEMMA StaysSupplied ==
  ASSUME IInv, Supplied, Next, ~Trouble
  PROVE  Supplied'
<1>1. shared \in Documents /\ shared.age \in Nat /\ shared.age <= 1
  BY DocumentFacts DEF Supplied, IInv, TypeOK, Ages, Old
<1>2. CASE Tick
  <2>1. collector = "asleep" /\ collector' = "ask" /\ shared.age = 0 /\ shared' = Aged(shared)
    BY <1>1, <1>2 DEF Tick, Supplied
  <2>2. shared' = [shared EXCEPT !.age = 1] /\ shared' \in Documents
    BY <1>1, <2>1, DocumentFacts DEF Aged, Old, Documents, Ages
  <2>3. shared'.good /\ shared'.age = 1 /\ shared' # NoFile
    BY <1>1, <2>2, DocumentFacts DEF Documents, Supplied
  <2> QED  BY <2>1, <2>3 DEF Supplied
<1>3. CASE Collects(TRUE)
  BY <1>3, CollectsSupplies
<1>4. CASE Restart
  BY <1>1, <1>4 DEF Restart, Supplied
<1>5. CASE \E s \in Scripts : Start(s) \/ Runs(s) \/ Kill(s)
  <2>1. UNCHANGED <<shared, collector>>
    BY <1>5 DEF Start, Runs, Kill, ReadShared, Stat, Look, Answered, Fill, Stamp, Fails, End
  <2> QED  BY <2>1 DEF Supplied
<1> QED  BY <1>2, <1>3, <1>4, <1>5 DEF Next, Collecting, Trouble

\* a script's own step
LEMMA StaysServed ==
  ASSUME IInv, Supplied, NEW s \in Scripts, Served(s), Start(s) \/ Runs(s) \/ Kill(s)
  PROVE  Served(s)'
<1>1. script \in [Scripts -> Records] /\ Idle \in Records
  BY ConstantsAssumption DEF IInv, TypeOK, Records, Idle, Urls, Pcs, Ages, Old
<1>2. CASE Start(s) \/ Kill(s) \/ End(s)
  <2>1. script'[s] = [Idle EXCEPT !.pc = "shared"] \/ script'[s] = [Idle EXCEPT !.pc = "idle"]
    BY <1>1, <1>2, BecomeFacts DEF Start, Kill, End, Become
  <2> QED  BY <2>1 DEF Served, Idle
<1>3. CASE ReadShared(s)
  <2>1. script'[s] = [[script[s] EXCEPT !.raw = shared] EXCEPT !.pc = "stat"]
    BY <1>1, <1>3 DEF ReadShared, Become, Supplied
  <2>2. script'[s].pc = "stat" /\ script'[s].raw = shared /\ script'[s].url = script[s].url
    BY <1>1, <2>1 DEF Records
  <2> QED  BY <1>3, <2>2 DEF Served, Supplied, ReadShared
<1>4. CASE Stat(s)
  <2> DEFINE r == script[s]
             q == [r EXCEPT !.raw = NoFile, !.tick = "none", !.got = TRUE,
                            !.age = r.raw.age, !.stale = shared.age > 2]
  <2>1. r.raw.good /\ r.url = 0
    BY <1>4 DEF Stat, Served
  <2>2. Become(s, "done", q)
    BY <1>4, <2>1 DEF Stat, Shows
  <2>3. script'[s] = [q EXCEPT !.pc = "done"]
    BY <1>1, <2>2 DEF Become
  <2>4. r \in Records
    BY <1>1
  <2>5. ~(shared.age > 2)
    BY DocumentFacts DEF Supplied, IInv, TypeOK, Ages, Old
  <2>6. script'[s].pc = "done" /\ script'[s].got /\ script'[s].url = 0 /\ ~script'[s].stale
    BY <2>1, <2>3, <2>4, <2>5 DEF Records
  <2> QED  BY <2>6 DEF Served
<1> QED  BY <1>2, <1>3, <1>4 DEF Runs, Served, Look, Answered, Fill, Stamp, Fails

(* What CardsRecover rests on besides fairness.                                *)
THEOREM CardsStayServed == Spec => RecoveryLasts
<1>1. ASSUME IInv, Next, Supplied, ~Trouble, NEW s \in Scripts, Served(s)
      PROVE  Served(s)'
  <2>1. script \in [Scripts -> Records]
    BY <1>1 DEF IInv, TypeOK, Records
  <2>2. CASE Tick
    <3>1. CASE script[s].pc \in {"idle", "done"}
      <4>1. script'[s] = script[s]
        BY <2>2, <3>1 DEF Tick
      <4> QED  BY <1>1, <4>1 DEF Served
    <3>2. CASE script[s].pc \notin {"idle", "done"}
      <4>1. /\ script'[s].pc = script[s].pc /\ script'[s].url = script[s].url
            /\ script'[s].raw = AgedValues(script[s].raw)
        BY <2>1, <2>2, <3>2 DEF Tick, Records
      <4>2. script[s].raw \in Documents \union {NoFile}
        BY <2>1 DEF Records
      <4>3. script[s].raw # NoFile /\ script[s].raw.good =>
              AgedValues(script[s].raw) # NoFile /\ AgedValues(script[s].raw).good
        BY <4>2, AgedFacts, DocumentFacts DEF AgedValues, Aged, Usable, Documents
      <4> QED  BY <1>1, <3>2, <4>1, <4>3 DEF Served
    <3> QED  BY <3>1, <3>2
  <2>3. CASE Collecting \/ StatusFails \/ Restart
    <3>1. script' = script
      BY <2>3 DEF Collecting, Collects, CollectsNothing, StatusFails, Restart
    <3> QED  BY <1>1, <3>1 DEF Served
  <2>4. CASE \E q \in Scripts : Start(q) \/ Runs(q) \/ Kill(q)
    <3>1. PICK q \in Scripts : Start(q) \/ Runs(q) \/ Kill(q)
      BY <2>4
    <3>2. CASE q = s
      BY <1>1, <3>1, <3>2, StaysServed
    <3>3. CASE q # s
      <4>1. \E r : script' = [script EXCEPT ![q] = r]
        BY <3>1 DEF Start, Runs, Kill, ReadShared, Stat, Look, Answered, Fill, Stamp, Fails, End,
                    Shows, FallsBack, Takes, Become
      <4>2. script'[s] = script[s]
        BY <2>1, <3>3, <4>1
      <4> QED  BY <1>1, <4>2 DEF Served
    <3> QED  BY <3>2, <3>3
  <2> QED  BY <1>1, <2>2, <2>3, <2>4 DEF Next
<1>2. IInv /\ [Next]_vars =>
        [/\ Collects(TRUE) => Supplied'
         /\ Supplied /\ ~Trouble =>
              Supplied' /\ \A s \in Scripts : Served(s) => Served(s)']_vars
  BY <1>1, StaysSupplied, CollectsSupplies
<1> QED  BY <1>2, Invariance, PTL DEF Spec, RecoveryLasts
=============================================================================

--------------------------- MODULE UpdateCheckProofs ---------------------------
(* The update check is right about releases, for any history of rolls and any  *)
(* number of checks.                                                           *)
EXTENDS UpdateCheck, FiniteSetTheorems, WellFoundedInduction, TLAPS

-----------------------------------------------------------------------------
(* The precedence of versions.                                                 *)

LEMMA RankAre == Rank["alpha"] = 0 /\ Rank["beta"] = 1 /\ Rank["rc"] = 2 /\ Rank["final"] = 3
BY DEF Rank

LEMMA RankNat == \A s \in Stages : Rank[s] \in Nat
BY RankAre DEF Stages

LEMMA LessTransitive ==
  ASSUME NEW a \in Versions, NEW b \in Versions, NEW c \in Versions, Less(a, b), Less(b, c)
  PROVE  Less(a, c)
<1>1. \A v \in Versions : /\ v.major \in Nat /\ v.minor \in Nat /\ v.patch \in Nat /\ v.serial \in Nat
                          /\ Rank[v.stage] \in Nat
  BY RankNat DEF Versions
<1>2. Rank[a.stage] = Rank[b.stage] /\ Less(a, b) /\ Less(b, c) => Less(a, c)
  BY <1>1 DEF Less
<1>3. Rank[a.stage] # Rank[b.stage] /\ Less(a, b) /\ Less(b, c) => Less(a, c)
  BY <1>1 DEF Less
<1> QED  BY <1>2, <1>3

(* A roll of a version of main, which is a beta or final, is a version of main *)
(* of higher precedence, unless the version stays the same.                    *)
Main(v) == v \in Versions /\ v.stage \in {"beta", "final"} /\ (v.stage = "final" => v.serial = 0)

LEMMA RollGoesUp ==
  ASSUME NEW v, Main(v), NEW roll \in Rolls
  PROVE  /\ Main(NextVersion(v, roll))
         /\ NextVersion(v, roll) = v \/ Less(v, NextVersion(v, roll))
<1> DEFINE w == NextVersion(v, roll)
<1>1. /\ v.major \in Nat /\ v.minor \in Nat /\ v.patch \in Nat /\ v.serial \in Nat
      /\ v = Version(v.major, v.minor, v.patch, v.stage, v.serial)
  BY DEF Main, Versions, Version
<1>2. CASE roll = "stable"
  <2>1. w = Version(v.major, v.minor, v.patch, "final", 0)
    BY <1>2 DEF NextVersion
  <2>2. Main(w)
    BY <1>1, <2>1 DEF Main, Versions, Version, Stages
  <2>3. w = v \/ Less(v, w)
    <3>1. CASE v.stage = "final"
      BY <1>1, <2>1, <3>1 DEF Main
    <3>2. CASE v.stage = "beta"
      BY <1>1, <2>1, <3>2, RankAre DEF Less, Version
    <3> QED  BY <3>1, <3>2 DEF Main
  <2> QED  BY <2>2, <2>3
<1>3. CASE roll = "beta" /\ v.stage = "beta"
  <2>1. w = Version(v.major, v.minor, v.patch, "beta", v.serial + 1)
    BY <1>3 DEF NextVersion
  <2> QED  BY <1>1, <1>3, <2>1 DEF Main, Versions, Version, Stages, Less
<1>4. CASE (roll = "beta" /\ v.stage = "final") \/ roll = "patch"
  <2>1. w = Version(v.major, v.minor, v.patch + 1, "beta", 1)
    BY <1>4 DEF NextVersion
  <2> QED  BY <1>1, <2>1 DEF Main, Versions, Version, Stages, Less
<1>5. CASE roll = "minor"
  <2>1. w = Version(v.major, v.minor + 1, 0, "beta", 1)
    BY <1>5 DEF NextVersion
  <2> QED  BY <1>1, <2>1 DEF Main, Versions, Version, Stages, Less
<1>6. CASE roll = "major"
  <2>1. w = Version(v.major + 1, 0, 0, "beta", 1)
    BY <1>6 DEF NextVersion
  <2> QED  BY <1>1, <2>1 DEF Main, Versions, Version, Stages, Less
<1> QED  BY <1>2, <1>3, <1>4, <1>5, <1>6 DEF Rolls, Main

(* A set of numbers that has a bound has a last one.                           *)
LEMMA LastOne ==
  ASSUME NEW n \in Nat, NEW A \in SUBSET (1..n), A # {}
  PROVE  \E i \in A : \A j \in A : j <= i
<1> DEFINE B == {n - i : i \in A}
<1>1. B \subseteq Nat /\ B # {}
  <2>1. PICK i \in A : TRUE
    OBVIOUS
  <2>2. n - i \in B
    BY <2>1
  <2>3. \A j \in A : n - j \in Nat
    OBVIOUS
  <2> QED  BY <2>2, <2>3
<1>2. PICK b \in B : \A c \in B : ~(<<c, b>> \in OpToRel(<, Nat))
  BY <1>1, NatLessThanWellFounded, WFMin
<1>3. \A c \in B : ~(c < b)
  BY <1>1, <1>2 DEF OpToRel
<1>4. PICK i \in A : b = n - i
  BY <1>2
<1>5. \A j \in A : n - j \in B /\ j \in Nat
  OBVIOUS
<1>6. i \in Nat /\ b \in Nat
  BY <1>1, <1>4
<1>7. \A j \in A : ~(n - j < n - i)
  BY <1>3, <1>4, <1>5
<1> QED  BY <1>5, <1>6, <1>7

-----------------------------------------------------------------------------
(* The history of main only goes up.                                           *)
Ordered ==
  /\ \A i \in 1..Len(history) : Main(history[i])
  /\ \A i, j \in 1..Len(history) : i < j => Less(history[i], history[j])

(* What is found for the release channels is a release, and stays one: what is *)
(* stored of it too, and a failure never has an arrow.                         *)
Released ==
  /\ \A c \in Checkers : pc[c] = "store" /\ asked[c] # "nightly" => found[c] \in published
  /\ row # NoRow => /\ row.error => ~row.available
                    /\ ~row.error /\ row.channel # "nightly" => row.latest \in published

IInv == TypeOK /\ Ordered /\ Released

LEMMA InitInv == Init => IInv
<1> SUFFICES ASSUME Init PROVE IInv
  OBVIOUS
<1> USE ConstantsAssumption DEF Init
<1>1. history \in Seq(Versions) /\ Len(history) = 1 /\ history[1] = First
  OBVIOUS
<1>2. TypeOK
  BY <1>1 DEF TypeOK, Commits, Channels
<1>3. Ordered
  BY <1>1 DEF Ordered, Main
<1>4. Released
  BY DEF Released
<1> QED  BY <1>2, <1>3, <1>4 DEF IInv

LEMMA MergeInv ==
  ASSUME IInv, NEW label \in Labels, Merge(label)
  PROVE  IInv'
<1> USE ConstantsAssumption DEF IInv, Merge
<1> DEFINE n == Len(history)
           v == NextVersion(Head1, label)
<1>1. n \in Nat \ {0} /\ n < MaxHistory /\ history \in Seq(Versions) /\ label \in Rolls
  BY DEF TypeOK, Commits
<1>2. Main(Head1) /\ n \in 1..n
  BY <1>1 DEF Ordered, Head1
<1>3. Main(v) /\ (v = Head1 \/ Less(Head1, v))
  BY <1>1, <1>2, RollGoesUp
<1>4. v # Head1
  BY <1>1, <1>2 DEF Head1
<1> HIDE DEF v
<1>5. /\ history' \in Seq(Versions) /\ Len(history') = n + 1
      /\ history'[n + 1] = v /\ \A i \in 1..n : history'[i] = history[i]
  BY <1>1, <1>3 DEF Main, v
<1>6. TypeOK'
  <2>1. n + 1 \in Commits /\ 1..n \subseteq 1..(n + 1) /\ 0..n \subseteq 0..(n + 1)
    BY <1>1 DEF Commits
  <2>2. UNCHANGED <<published, settings, installed, checks, row>>
    OBVIOUS
  <2>3. found' \in [Checkers -> 0..Len(history')]
    BY <1>5, <2>1, <2>2 DEF TypeOK, checks
  <2>4. row # NoRow => row.latest <= n
    BY DEF TypeOK
  <2>5. row' # NoRow => row'.latest <= Len(history')
    BY <1>1, <1>5, <2>2, <2>4 DEF TypeOK, Rows
  <2> QED  BY <1>5, <2>1, <2>2, <2>3, <2>5 DEF TypeOK, settings, checks
<1>7. Ordered'
  <2>1. \A i \in 1..n : history[i] = Head1 \/ Less(history[i], Head1)
    BY <1>1 DEF Ordered, Head1
  <2>2. \A i \in 1..n : Less(history[i], v)
    <3> SUFFICES ASSUME NEW i \in 1..n PROVE Less(history[i], v)
      OBVIOUS
    <3>1. history[i] \in Versions /\ Head1 \in Versions /\ v \in Versions
      BY <1>1, <1>2, <1>3 DEF Main
    <3> QED  BY <1>3, <1>4, <2>1, <3>1, LessTransitive
  <2>3. \A i \in 1..(n + 1) : i \in 1..n \/ i = n + 1
    BY <1>1
  <2>4. \A i \in 1..(n + 1) : Main(history'[i])
    BY <1>3, <1>5, <2>3 DEF Ordered
  <2>5. \A i, j \in 1..(n + 1) : i < j => Less(history'[i], history'[j])
    <3> SUFFICES ASSUME NEW i \in 1..(n + 1), NEW j \in 1..(n + 1), i < j
                 PROVE  Less(history'[i], history'[j])
      OBVIOUS
    <3>1. i \in 1..n
      BY <1>1
    <3>2. CASE j = n + 1
      BY <1>5, <2>2, <3>1, <3>2
    <3>3. CASE j \in 1..n
      BY <1>5, <3>1, <3>3 DEF Ordered
    <3> QED  BY <2>3, <3>2, <3>3
  <2> QED  BY <1>5, <2>4, <2>5 DEF Ordered
<1>8. Released'
  BY DEF Released, settings, checks
<1> QED  BY <1>6, <1>7, <1>8

(* What people do otherwise: publish, save settings, start the server again.   *)
LEMMA ChangingInv ==
  ASSUME IInv, Changing
  PROVE  IInv'
<1> USE DEF IInv, settings, checks, project
<1>1. CASE \E label \in Labels : Merge(label)
  BY <1>1, MergeInv
<1>2. CASE \E i \in Commits : Publish(i)
  BY <1>2 DEF Publish, TypeOK, Ordered, Released
<1>3. CASE \E ch \in Channels, auto \in BOOLEAN : SaveSettings(ch, auto)
  BY <1>3 DEF SaveSettings, TypeOK, Ordered, Released
<1>4. CASE \E i \in Commits : Restart(i)
  <2>1. 0 \in 0..Len(history) /\ "beta" \in Channels
    BY DEF TypeOK, Commits, Channels
  <2>2. TypeOK'
    BY <1>4, <2>1 DEF Restart, TypeOK
  <2>3. Ordered' /\ Released'
    BY <1>4 DEF Restart, Ordered, Released
  <2> QED  BY <2>2, <2>3
<1> QED  BY <1>1, <1>2, <1>3, <1>4 DEF Changing

-----------------------------------------------------------------------------
(* A release is one of the versions of main.                                   *)
LEMMA ReleasesAreListed ==
  ASSUME TypeOK
  PROVE  published \subseteq 1..Len(history) /\ Len(history) \in Nat
<1>1. published \subseteq 1..Len(history)
  BY DEF TypeOK
<1>2. Len(history) \in 1..MaxHistory
  BY DEF TypeOK, Commits
<1>3. Len(history) \in Nat
  BY <1>2, ConstantsAssumption
<1> QED  BY <1>1, <1>3

(* Of the releases it is offered the check takes the last one of main.         *)
LEMMA CandidateIsLast ==
  ASSUME TypeOK, NEW ch \in Channels, ch # "nightly", Exists(ch)
  PROVE  /\ Candidate(ch) \in Offered(ch)
         /\ \A i \in Offered(ch) : i <= Candidate(ch)
<1>1. Offered(ch) \subseteq published /\ Offered(ch) # {}
  BY DEF Offered, Admitted, Exists
<1>2. Offered(ch) \in SUBSET (1..Len(history)) /\ Len(history) \in Nat
  BY <1>1, ReleasesAreListed
<1>3. \E i \in Offered(ch) : \A j \in Offered(ch) : j <= i
  BY <1>1, <1>2, LastOne
<1> QED  BY <1>3 DEF Candidate

(* What is listed before a release of the page is on the page.                 *)
LEMMA PageIsFirst ==
  ASSUME TypeOK, NEW i \in Listed, NEW j \in published, j > i
  PROVE  j \in Listed
<1> DEFINE After(k) == {l \in published : l > k}
<1>1. published \subseteq 1..Len(history) /\ Len(history) \in Nat
  BY ReleasesAreListed
<1>2. IsFiniteSet(After(i))
  <2>1. After(i) \subseteq 1..Len(history)
    BY <1>1
  <2>2. 1 \in Int /\ Len(history) \in Int
    BY <1>1
  <2>3. IsFiniteSet(1..Len(history))
    BY <2>2, FS_Interval
  <2> HIDE DEF After
  <2> QED  BY <2>1, <2>3, FS_Subset
<1>3. After(j) \subseteq After(i)
  <2>1. i \in Nat /\ j \in Nat
    BY <1>1 DEF Listed
  <2>2. \A l \in published : l \in Nat
    BY <1>1
  <2>3. \A l \in published : l > j => l > i
    BY <2>1, <2>2
  <2> QED  BY <2>3
<1>4. /\ IsFiniteSet(After(j)) /\ Cardinality(After(j)) <= Cardinality(After(i))
      /\ Cardinality(After(j)) \in Nat /\ Cardinality(After(i)) \in Nat
  <2> HIDE DEF After
  <2>1. IsFiniteSet(After(j)) /\ Cardinality(After(j)) <= Cardinality(After(i))
    BY <1>2, <1>3, FS_Subset
  <2> QED  BY <1>2, <2>1, FS_CardinalityType
<1>5. Cardinality(After(i)) < PageSize /\ PageSize \in Nat
  BY ConstantsAssumption DEF Listed
<1>6. Cardinality(After(j)) < PageSize
  BY <1>4, <1>5
<1> QED  BY <1>6 DEF Listed

LEMMA CheckInv ==
  ASSUME IInv, NEW c \in Checkers, Check(c)
  PROVE  IInv'
<1> USE DEF IInv, settings, checks, project, Goto, Ends
<1>0. 0 \in 0..Len(history) /\ "beta" \in Channels /\ Len(history) \in Nat
  BY DEF TypeOK, Commits, Channels
<1>1. CASE ReadSettings(c)
  BY <1>1 DEF ReadSettings, TypeOK, Ordered, Released
<1>2. CASE Answered(c)
  <2>1. asked[c] \in Channels
    BY DEF TypeOK
  <2>2. asked[c] # "nightly" => Candidate(asked[c]) \in published
    BY <1>2, <2>1, CandidateIsLast DEF Answered, Offered, Admitted
  <2>3. Candidate(asked[c]) \in 0..Len(history)
    <3>1. CASE asked[c] = "nightly"
      BY <1>0, <3>1 DEF Candidate
    <3>2. CASE asked[c] # "nightly"
      <4>1. Candidate(asked[c]) \in 1..Len(history)
        BY <2>2, <3>2, ReleasesAreListed
      <4> QED  BY <1>0, <4>1
    <3> QED  BY <3>1, <3>2
  <2>4. /\ found' = [found EXCEPT ![c] = Candidate(asked[c])]
        /\ pc' = [pc EXCEPT ![c] = "store"]
        /\ UNCHANGED <<project, settings, installed, asked, row>>
    BY <1>2 DEF Answered
  <2>5. TypeOK'
    BY <2>3, <2>4 DEF TypeOK
  <2>6. Ordered' /\ Released'
    BY <2>2, <2>4 DEF TypeOK, Ordered, Released
  <2> QED  BY <2>5, <2>6
<1>3. CASE AskFails(c) \/ AskCrashes(c)
  <2>1. TypeOK'
    BY <1>0, <1>3 DEF AskFails, AskCrashes, TypeOK
  <2>2. Ordered' /\ Released'
    BY <1>3 DEF AskFails, AskCrashes, TypeOK, Ordered, Released
  <2> QED  BY <2>1, <2>2
<1>4. CASE Store(c)
  <2>1. /\ row' = [channel |-> asked[c], latest |-> found[c],
                   available |-> Available(asked[c], found[c]), error |-> FALSE]
        /\ pc' = [pc EXCEPT ![c] = "idle"] /\ pc[c] = "store"
        /\ asked' = [asked EXCEPT ![c] = "beta"] /\ found' = [found EXCEPT ![c] = 0]
        /\ UNCHANGED <<project, settings, installed>>
    BY <1>4 DEF Store
  <2>2. Available(asked[c], found[c]) \in BOOLEAN
    BY DEF Available, Less
  <2>3. asked[c] \in Channels /\ found[c] \in 0..Len(history) /\ Len(history) <= MaxHistory
    BY DEF TypeOK, Commits
  <2>4. found[c] \in 0..MaxHistory /\ found[c] <= Len(history)
    BY <1>0, <2>3, ConstantsAssumption
  <2>5. row' \in Rows /\ row'.latest <= Len(history)
    BY <2>1, <2>2, <2>3, <2>4 DEF Rows
  <2>6. TypeOK'
    BY <1>0, <2>1, <2>5 DEF TypeOK
  <2>7. Released'
    <3>1. \A d \in Checkers : pc'[d] = "store" => d # c /\ pc'[d] = pc[d] /\ asked'[d] = asked[d] /\ found'[d] = found[d]
      BY <2>1 DEF TypeOK
    <3>2. asked[c] # "nightly" => found[c] \in published
      BY <2>1 DEF Released
    <3> QED  BY <2>1, <3>1, <3>2 DEF Released
  <2> QED  BY <2>1, <2>6, <2>7 DEF Ordered
<1>5. CASE StoreError(c)
  <2>1. /\ row' = [channel |-> channel, latest |-> 0, available |-> FALSE, error |-> TRUE]
        /\ pc' = [pc EXCEPT ![c] = "idle"]
        /\ asked' = [asked EXCEPT ![c] = "beta"] /\ found' = [found EXCEPT ![c] = 0]
        /\ UNCHANGED <<project, settings, installed>>
    BY <1>5 DEF StoreError
  <2>2. row' \in Rows /\ row'.latest <= Len(history)
    BY <1>0, <2>1, ConstantsAssumption DEF Rows, TypeOK
  <2>3. TypeOK'
    BY <1>0, <2>1, <2>2 DEF TypeOK
  <2>4. \A d \in Checkers : pc'[d] = "store" => pc'[d] = pc[d] /\ asked'[d] = asked[d] /\ found'[d] = found[d]
    BY <2>1 DEF TypeOK
  <2>5. Released'
    BY <2>1, <2>4 DEF Released
  <2> QED  BY <2>1, <2>3, <2>5 DEF Ordered
<1> QED  BY <1>1, <1>2, <1>3, <1>4, <1>5 DEF Check

LEMMA NextInv == IInv /\ [Next]_vars => IInv'
<1> SUFFICES ASSUME IInv, [Next]_vars PROVE IInv'
  OBVIOUS
<1>1. CASE UNCHANGED vars
  BY <1>1 DEF IInv, TypeOK, Ordered, Released, vars, project, settings, checks
<1>2. CASE Wake \/ \E c \in Manual : Request(c)
  <2>1. PICK c \in Checkers : /\ pc' = [pc EXCEPT ![c] = "begin"]
                              /\ UNCHANGED <<project, settings, installed, asked, found, row>>
    BY <1>2 DEF Wake, Request, Goto, Checkers
  <2> QED  BY <2>1 DEF IInv, TypeOK, Ordered, Released, project, settings
<1>3. CASE \E c \in Checkers : Check(c)
  BY <1>3, CheckInv
<1>4. CASE Changing
  BY <1>4, ChangingInv
<1> QED  BY <1>1, <1>2, <1>3, <1>4 DEF Next, Checking

LEMMA Invariance == Spec => []IInv
BY InitInv, NextInv, PTL DEF Spec

(* The variables have their types, for any history and any checks.             *)
THEOREM TypeCorrect == Spec => []TypeOK
<1>1. IInv => TypeOK
  BY DEF IInv
<1> QED  BY <1>1, Invariance, PTL

(* public_update_status never shows an arrow that points to the installed      *)
(* version, to an older one or to one that is no release.                      *)
THEOREM ArrowIsUp == Spec => []ArrowPointsUp
<1>1. IInv => ArrowPointsUp
  BY DEF IInv, Released, ArrowPointsUp, Shown
<1> QED  BY <1>1, Invariance, PTL

(* check_for_updates may take the first release its channel admits and need not*)
(* ask for another page: rolls only go up, so that no other release the channel*)
(* admits, on any page, is of higher precedence.                               *)
THEOREM FirstIsBest == Spec => []FirstIsHighest
<1>1. IInv => FirstIsHighest
  <2> SUFFICES ASSUME IInv, NEW ch \in {"stable", "beta"}, Exists(ch), NEW i \in Admitted(ch)
               PROVE  AtMost(history[i], history[Candidate(ch)])
    BY DEF FirstIsHighest
  <2>1. ch \in Channels /\ ch # "nightly" /\ TypeOK
    BY DEF Channels, IInv
  <2>2. /\ Candidate(ch) \in Offered(ch)
        /\ \A j \in Offered(ch) : j <= Candidate(ch)
    BY <2>1, CandidateIsLast
  <2>3. i \in 1..Len(history) /\ Candidate(ch) \in 1..Len(history) /\ Len(history) \in Nat
    <3>1. i \in published /\ Candidate(ch) \in published
      BY <2>2 DEF Offered, Admitted
    <3> QED  BY <2>1, <3>1, ReleasesAreListed
  <2>4. i <= Candidate(ch)
    <3>1. i > Candidate(ch) => i \in Listed
      BY <2>1, <2>2, PageIsFirst DEF Offered, Admitted
    <3>2. i > Candidate(ch) => i <= Candidate(ch)
      BY <2>2, <3>1 DEF Offered
    <3> QED  BY <2>3, <3>2
  <2>5. i = Candidate(ch) \/ Less(history[i], history[Candidate(ch)])
    BY <2>3, <2>4 DEF IInv, Ordered
  <2> QED  BY <2>5 DEF AtMost
<1> QED  BY <1>1, Invariance, PTL

-----------------------------------------------------------------------------
(* The status settles.  A check is out of date when it asks about another      *)
(* channel than the settings', or stores another release than it would find.   *)
OutOfDate(c) ==
  /\ pc[c] \in {"ask", "store"}
  /\ asked[c] = channel => pc[c] = "store" /\ found[c] # Candidate(channel)

(* While nobody changes anything, checks that are out of date only leave,      *)
(* every other one that stores makes the status right, and with none out of    *)
(* date a status that is right, or a failure, becomes nothing else: two checks *)
(* that overlap do no harm beyond their own store (_store_result).             *)
SettlesDown ==
  [][Exists(channel) /\ ~Changing =>
       /\ \A c \in Checkers : OutOfDate(c)' => OutOfDate(c)
       /\ \A c \in Checkers : Store(c) /\ ~OutOfDate(c) => Right'
       /\ (Right \/ Failed) /\ (\A c \in Checkers : ~OutOfDate(c)) => (Right \/ Failed)']_vars

\* a check changes nothing that an answer or the status depends on
LEMMA ChecksOnlyAsk ==
  ASSUME Checking
  PROVE  /\ UNCHANGED <<history, published, channel, automatic, installed>>
         /\ Candidate(channel)' = Candidate(channel)
         /\ Exists(channel)' <=> Exists(channel)
         /\ Available(channel, Candidate(channel))' <=> Available(channel, Candidate(channel))
<1>1. UNCHANGED <<history, published, channel, automatic, installed>>
  BY DEF Checking, Wake, Request, Check, ReadSettings, Answered, AskFails, AskCrashes, Store,
         StoreError, Ends, project, settings
<1>2. Candidate(channel)' = Candidate(channel)
  BY <1>1 DEF Candidate, Offered, Admitted, Listed
<1>3. Exists(channel)' <=> Exists(channel)
  BY <1>1 DEF Exists, Offered, Admitted, Listed
<1>4. Available(channel, Candidate(channel))' <=> Available(channel, Candidate(channel))
  BY <1>1, <1>2 DEF Available
<1> QED  BY <1>1, <1>2, <1>3, <1>4

\* what a check that is not out of date stores
LEMMA StoresRight ==
  ASSUME TypeOK, Checking, Exists(channel), NEW c \in Checkers, Store(c), ~OutOfDate(c)
  PROVE  Right'
<1>1. pc[c] = "store" /\ asked[c] = channel /\ found[c] = Candidate(channel)
  BY DEF Store, Ends, Goto, OutOfDate
<1>2. row' = [channel |-> channel, latest |-> Candidate(channel),
              available |-> Available(channel, Candidate(channel)), error |-> FALSE]
  BY <1>1 DEF Store
<1>3. row'.channel = channel /\ row'.latest = Candidate(channel) /\ ~row'.error
      /\ row'.available = Available(channel, Candidate(channel))
  BY <1>2
<1>4. row' \in Rows
  <2>1. channel \in Channels /\ Candidate(channel) \in 0..Len(history)
    BY <1>1 DEF TypeOK
  <2>2. 0..Len(history) \subseteq 0..MaxHistory
    BY ConstantsAssumption DEF TypeOK, Commits
  <2>3. Available(channel, Candidate(channel)) \in BOOLEAN
    BY DEF Available, Less
  <2> QED  BY <1>2, <2>1, <2>2, <2>3 DEF Rows
<1>5. row' # NoRow
  BY <1>4, NoRowAssumption
<1>6. Shown' <=> Available(channel, Candidate(channel))
  <2>1. CASE channel = "nightly"
    BY <1>3, <1>5, <2>1 DEF Shown
  <2>2. CASE channel # "nightly"
    BY <1>3, <1>5, <2>2, ChecksOnlyAsk DEF Shown, Available
  <2> QED  BY <2>1, <2>2
<1> QED  BY <1>3, <1>5, <1>6, ChecksOnlyAsk DEF Right

\* a check goes out of date only where it stores, or not at all
LEMMA OnlyLeaves ==
  ASSUME TypeOK, Checking, NEW c \in Checkers, OutOfDate(c)'
  PROVE  OutOfDate(c)
<1>1. channel' = channel /\ Candidate(channel)' = Candidate(channel)
  BY ChecksOnlyAsk
<1>2. /\ pc'[c] \in {"ask", "store"}
      /\ asked'[c] = channel => pc'[c] = "store" /\ found'[c] # Candidate(channel)
  BY <1>1 DEF OutOfDate
<1>3. CASE UNCHANGED <<pc[c], asked[c], found[c]>>
  BY <1>2, <1>3 DEF OutOfDate
<1>4. CASE \E d \in Checkers : pc'[d] \in {"idle", "begin", "fail"} /\
           \A e \in Checkers \ {d} : UNCHANGED <<pc[e], asked[e], found[e]>>
  BY <1>2, <1>3, <1>4
<1>5. CASE \E d \in Checkers : ReadSettings(d)
  <2>1. PICK d \in Checkers : ReadSettings(d)
    BY <1>5
  <2>2. CASE d = c
    BY <1>2, <2>1, <2>2 DEF ReadSettings, Goto, TypeOK
  <2>3. CASE d # c
    BY <1>3, <2>1, <2>3 DEF ReadSettings, Goto, TypeOK
  <2> QED  BY <2>2, <2>3
<1>6. CASE \E d \in Checkers : Answered(d)
  <2>1. PICK d \in Checkers : Answered(d)
    BY <1>6
  <2>2. CASE d = c
    <3>1. pc[c] = "ask" /\ asked'[c] = asked[c] /\ found'[c] = Candidate(asked[c])
      BY <2>1, <2>2 DEF Answered, Goto, TypeOK
    <3> QED  BY <1>2, <3>1 DEF OutOfDate
  <2>3. CASE d # c
    BY <1>3, <2>1, <2>3 DEF Answered, Goto, TypeOK
  <2> QED  BY <2>2, <2>3
<1>7. CASE Wake \/ \E d \in Manual : Request(d)
  <2>1. PICK d \in Checkers : pc' = [pc EXCEPT ![d] = "begin"] /\ UNCHANGED <<asked, found>>
    BY <1>7 DEF Wake, Request, Goto, Checkers
  <2>2. pc'[d] = "begin" /\ \A e \in Checkers \ {d} : UNCHANGED <<pc[e], asked[e], found[e]>>
    BY <2>1 DEF TypeOK
  <2> QED  BY <1>4, <2>2
<1>8. CASE \E d \in Checkers : AskFails(d) \/ AskCrashes(d) \/ Store(d) \/ StoreError(d)
  <2>1. PICK d \in Checkers : AskFails(d) \/ AskCrashes(d) \/ Store(d) \/ StoreError(d)
    BY <1>8
  <2>2. /\ pc'[d] \in {"idle", "fail"}
        /\ \A e \in Checkers \ {d} : UNCHANGED <<pc[e], asked[e], found[e]>>
    BY <2>1 DEF AskFails, AskCrashes, Store, StoreError, Ends, Goto, TypeOK
  <2> QED  BY <1>4, <2>2
<1> QED  BY <1>5, <1>6, <1>7, <1>8 DEF Checking, Check

(* What the convergence of the status rests on besides fairness, for any       *)
(* number of checks at once, any history and any build: news from before the   *)
(* last change can be stored once each and is never made again.                *)
THEOREM StatusSettles == Spec => SettlesDown
<1>1. ASSUME IInv, [Next]_vars, vars' # vars, Exists(channel), ~Changing
      PROVE  /\ \A c \in Checkers : OutOfDate(c)' => OutOfDate(c)
             /\ \A c \in Checkers : Store(c) /\ ~OutOfDate(c) => Right'
             /\ (Right \/ Failed) /\ (\A c \in Checkers : ~OutOfDate(c)) => (Right \/ Failed)'
  <2>1. Checking /\ TypeOK
    BY <1>1 DEF Next, IInv
  <2>2. \A c \in Checkers : OutOfDate(c)' => OutOfDate(c)
    BY <2>1, OnlyLeaves
  <2>3. \A c \in Checkers : Store(c) /\ ~OutOfDate(c) => Right'
    BY <1>1, <2>1, StoresRight
  <2>4. ASSUME Right \/ Failed, \A c \in Checkers : ~OutOfDate(c)
        PROVE  (Right \/ Failed)'
    <3>1. CASE \E c \in Checkers : Store(c)
      BY <2>3, <2>4, <3>1
    <3>2. CASE \E c \in Checkers : StoreError(c)
      <4>1. row' = [channel |-> channel, latest |-> 0, available |-> FALSE, error |-> TRUE]
        BY <3>2 DEF StoreError
      <4>2. row' \in Rows
        BY <2>1, <4>1, ConstantsAssumption DEF Rows, TypeOK
      <4> QED  BY <4>1, <4>2, NoRowAssumption DEF Failed
    <3>3. CASE row' = row
      <4>1. Failed' <=> Failed
        BY <3>3 DEF Failed
      <4>2. Shown' <=> Shown
        BY <2>1, <3>3, ChecksOnlyAsk DEF Shown
      <4>3. Right' <=> Right
        BY <2>1, <3>3, <4>2, ChecksOnlyAsk DEF Right
      <4> QED  BY <2>4, <4>1, <4>3
    <3> QED  BY <2>1, <3>1, <3>2, <3>3 DEF Checking, Wake, Request, Check, ReadSettings, Answered,
                                           AskFails, AskCrashes
  <2> QED  BY <2>2, <2>3, <2>4
<1>2. IInv /\ [Next]_vars =>
        [Exists(channel) /\ ~Changing =>
           /\ \A c \in Checkers : OutOfDate(c)' => OutOfDate(c)
           /\ \A c \in Checkers : Store(c) /\ ~OutOfDate(c) => Right'
           /\ (Right \/ Failed) /\ (\A c \in Checkers : ~OutOfDate(c)) => (Right \/ Failed)']_vars
  BY <1>1
<1> QED  BY <1>2, Invariance, PTL DEF Spec, SettlesDown
=============================================================================

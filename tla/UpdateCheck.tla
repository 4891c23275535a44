---------------------------- MODULE UpdateCheck ----------------------------
(* The update check: a loop that checks every day and checks an administrator  *)
(* asks for, each reading the settings, awaiting GitHub and storing its result *)
(* in one row, while settings change, versions are rolled and released, and    *)
(* the server is restarted, perhaps as another version.  A commit of main is   *)
(* the place of its version in the history of rolls.                           *)
EXTENDS Sequences, FiniteSets, Versions

CONSTANTS
  Manual,        \* checks administrators ask for, beside the loop's
  Loop,          \* the loop's
  First,         \* the version the history starts with
  Labels,        \* the rolls that merges ask for
  PageSize,      \* releases of one answer of GitHub: 30
  MaxHistory,    \* bound: versions ever rolled
  Marked,        \* the builds know their commit: BUILD_COMMIT is not empty
  NoRow          \* no check was stored yet

ASSUME ConstantsAssumption ==
  /\ Loop \notin Manual /\ First \in Versions /\ First.stage \in {"beta", "final"}
  /\ First.stage = "final" => First.serial = 0
  /\ Labels \subseteq Rolls /\ MaxHistory \in Nat \ {0} /\ Marked \in BOOLEAN
  /\ PageSize \in Nat \ {0}
Checkers == Manual \union {Loop}
Channels == {"stable", "beta", "nightly"}
Commits == 1..MaxHistory

VARIABLES
  history,       \* the versions of main, one for each merge
  published,     \* those with a release that is no draft
  channel,       \* release_channel
  automatic,     \* automatic_update_checks
  installed,     \* the commit the server was built from; its APP_VERSION
  pc,            \* where each check is
  asked,         \* the channel it asks about
  found,         \* the release or commit it found
  row            \* the row of update_checks

project == <<history, published>>
settings == <<channel, automatic>>
checks == <<pc, asked, found>>
vars == <<project, settings, installed, checks, row>>

Rows == [channel : Channels, latest : 0..MaxHistory, available : BOOLEAN, error : BOOLEAN]

ASSUME NoRowAssumption == NoRow \notin Rows

TypeOK ==
  /\ history \in Seq(Versions) /\ Len(history) \in Commits
  /\ published \subseteq 1..Len(history)
  /\ channel \in Channels /\ automatic \in BOOLEAN
  /\ installed \in 1..Len(history)
  /\ pc \in [Checkers -> {"idle", "begin", "ask", "store", "fail"}]
  /\ asked \in [Checkers -> Channels]
  /\ found \in [Checkers -> 0..Len(history)]
  /\ row \in Rows \union {NoRow} /\ (row # NoRow => row.latest <= Len(history))

Init ==
  /\ history = <<First>> /\ published = {}
  /\ channel = "beta" /\ automatic = TRUE
  /\ installed = 1
  /\ pc = [c \in Checkers |-> "idle"] /\ asked = [c \in Checkers |-> "beta"]
  /\ found = [c \in Checkers |-> 0]
  /\ row = NoRow

-----------------------------------------------------------------------------
(* The project: a merge rolls the version; its tag must be new.  The release   *)
(* of a tag is published later, or never.                                      *)

Head1 == history[Len(history)]

Merge(label) ==
  /\ Len(history) < MaxHistory
  /\ LET v == NextVersion(Head1, label) IN
       /\ \A i \in 1..Len(history) : history[i] # v
       /\ history' = Append(history, v)
  /\ UNCHANGED <<published, settings, installed, checks, row>>

Publish(i) ==
  /\ i \in 1..Len(history) \ published /\ published' = published \union {i}
  /\ UNCHANGED <<history, settings, installed, checks, row>>

-----------------------------------------------------------------------------
(* A check *)

\* GitHub lists the latest commit's release first, a page of them; the check
\* asks for no other page
Listed == {i \in published : Cardinality({j \in published : j > i}) < PageSize}

\* the releases a channel admits, and those of them that a check gets to see
Admitted(ch) == {i \in published : ch = "stable" => history[i].stage = "final"}
Offered(ch) == Admitted(ch) \intersect Listed

Candidate(ch) ==
  IF ch = "nightly" THEN Len(history)
  ELSE CHOOSE i \in Offered(ch) : \A j \in Offered(ch) : j <= i

Exists(ch) == ch = "nightly" \/ Offered(ch) # {}

\* _update_is_available
Available(ch, i) ==
  IF ch = "nightly" THEN ~Marked \/ i # installed
  ELSE Less(history[installed], history[i])

Goto(c, from, to) == pc[c] = from /\ pc' = [pc EXCEPT ![c] = to]

\* a check ends, and what it knew with it
Ends(c, from) ==
  /\ Goto(c, from, "idle")
  /\ asked' = [asked EXCEPT ![c] = "beta"] /\ found' = [found EXCEPT ![c] = 0]
  /\ UNCHANGED <<project, settings, installed>>

\* the loop wakes up, at once after a start, then daily
Wake ==
  /\ Goto(Loop, "idle", "begin") /\ automatic
  /\ UNCHANGED <<project, settings, installed, asked, found, row>>

Request(c) ==
  /\ c \in Manual /\ Goto(c, "idle", "begin")
  /\ UNCHANGED <<project, settings, installed, asked, found, row>>

ReadSettings(c) ==
  /\ Goto(c, "begin", "ask") /\ asked' = [asked EXCEPT ![c] = channel]
  /\ UNCHANGED <<project, settings, installed, found, row>>

Answered(c) ==
  /\ Goto(c, "ask", "store") /\ Exists(asked[c])
  /\ found' = [found EXCEPT ![c] = Candidate(asked[c])]
  /\ UNCHANGED <<project, settings, installed, asked, row>>

\* no answer, an answer that is none, or no release of the channel on the page
AskFails(c) ==
  /\ Goto(c, "ask", "fail") /\ asked' = [asked EXCEPT ![c] = "beta"]
  /\ UNCHANGED <<project, settings, installed, found, row>>

\* an exception other than RuntimeError leaves a manual check at once
AskCrashes(c) ==
  c \in Manual /\ Ends(c, "ask") /\ UNCHANGED row

Store(c) ==
  /\ Ends(c, "store")
  /\ row' = [channel |-> asked[c], latest |-> found[c],
             available |-> Available(asked[c], found[c]), error |-> FALSE]

\* a slip: the loop ends with the first check that fails
LoopEnds(c) ==
  /\ c # Loop /\ Ends(c, "fail")
  /\ row' = [channel |-> channel, latest |-> 0, available |-> FALSE, error |-> TRUE]

\* _store_error reads the settings again
StoreError(c) ==
  /\ Ends(c, "fail")
  /\ row' = [channel |-> channel, latest |-> 0, available |-> FALSE, error |-> TRUE]

Check(c) == ReadSettings(c) \/ Answered(c) \/ AskFails(c) \/ AskCrashes(c)
              \/ Store(c) \/ StoreError(c)

-----------------------------------------------------------------------------
SaveSettings(ch, auto) ==
  /\ channel' = ch /\ automatic' = auto
  /\ UNCHANGED <<project, installed, checks, row>>

\* the server starts again, from the same or another commit
Restart(i) ==
  /\ i \in 1..Len(history) /\ installed' = i
  /\ pc' = [c \in Checkers |-> "idle"] /\ asked' = [c \in Checkers |-> "beta"]
  /\ found' = [c \in Checkers |-> 0]
  /\ UNCHANGED <<project, settings, row>>

\* a slip: what the check computed is shown
ShownAsStored == row # NoRow /\ row.available

\* public_update_status: for a release, the comparison is made again
Shown ==
  /\ row # NoRow
  /\ IF ~row.error /\ row.channel # "nightly"
     THEN Less(history[installed], history[row.latest]) ELSE row.available

Checking ==
  \/ Wake
  \/ \E c \in Manual : Request(c)
  \/ \E c \in Checkers : Check(c)

\* what people do around the checks
Changing ==
  \/ \E label \in Labels : Merge(label)
  \/ \E i \in Commits : Publish(i)
  \/ \E ch \in Channels, auto \in BOOLEAN : SaveSettings(ch, auto)
  \/ \E i \in Commits : Restart(i)

Next == Checking \/ Changing

Spec == Init /\ [][Next]_vars

\* the loop goes on: it wakes up while it is to, and its steps end; GitHub
\* answers again and again
FairSpec ==
  /\ Spec
  /\ WF_vars(Wake) /\ WF_vars(Check(Loop)) /\ SF_vars(Answered(Loop))
  /\ \A c \in Manual : WF_vars(Store(c) \/ StoreError(c))

-----------------------------------------------------------------------------
(* Whatever was stored, by whichever version of the server, the arrow for a    *)
(* release never points to the installed version or to an older one.           *)
ArrowPointsUp ==
  Shown /\ row.channel # "nightly" =>
    row.latest \in published /\ Less(history[installed], history[row.latest])

(* A check takes the first release of the page that its channel admits: of all *)
(* the releases ever published that it admits, on the page or not, none is of  *)
(* higher precedence, since each roll goes up from all before it.              *)
FirstIsHighest ==
  \A ch \in {"stable", "beta"} :
    Exists(ch) => \A i \in Admitted(ch) : AtMost(history[i], history[Candidate(ch)])

\* what a check would store now
Right ==
  /\ row # NoRow /\ ~row.error /\ row.channel = channel
  /\ Exists(channel) /\ row.latest = Candidate(channel)
  /\ Shown <=> Available(channel, Candidate(channel))

Failed == row # NoRow /\ row.error

(* Once settings, project and server stay as they are, with automatic checks   *)
(* on and a release to find on the page, the status becomes right again and    *)
(* again, and is only ever right or a failure from then on: whatever checks    *)
(* raced, failed or were stored under a channel chosen before.  With none on   *)
(* the page - a stable release that a page of pre-releases has pushed off it   *)
(* too - it ends as a failure, whatever good result was stored before.         *)
StatusConverges ==
  <>[][~Changing]_vars /\ <>[]automatic =>
    /\ <>[]Exists(channel) => []<>Right /\ <>[](Right \/ Failed)
    /\ <>[]~Exists(channel) => <>[]Failed
=============================================================================

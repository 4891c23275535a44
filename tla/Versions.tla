------------------------------ MODULE Versions ------------------------------
(* Version numbers: the roll after each merge and the precedence by which the  *)
(* update check compares a release with the installed version.                 *)
EXTENDS Naturals

Stages == {"alpha", "beta", "rc", "final"}
Rolls == {"beta", "patch", "minor", "major", "stable"}

\* a version without a serial counts as its serial 0; a final one has none
Versions == [major : Nat, minor : Nat, patch : Nat, stage : Stages, serial : Nat]

Version(major, minor, patch, stage, serial) ==
  [major |-> major, minor |-> minor, patch |-> patch, stage |-> stage, serial |-> serial]

Rank == [alpha |-> 0, beta |-> 1, rc |-> 2, final |-> 3]

\* PEP 440: the numbers, then the stage, then the serial
Less(a, b) ==
  \/ a.major < b.major
  \/ /\ a.major = b.major
     /\ \/ a.minor < b.minor
        \/ /\ a.minor = b.minor
           /\ \/ a.patch < b.patch
              \/ /\ a.patch = b.patch
                 /\ \/ Rank[a.stage] < Rank[b.stage]
                    \/ a.stage = b.stage /\ a.serial < b.serial

AtMost(a, b) == a = b \/ Less(a, b)

\* a slip: a stable version's stage is named as its channel is
NextNamed(v, roll) ==
  IF roll = "stable" THEN Version(v.major, v.minor, v.patch, "stable", 0)
  ELSE Version(v.major, v.minor, v.patch, "beta", v.serial + 1)

\* a slip: the next beta of a final version keeps its numbers
NextWithin(v, roll) ==
  CASE roll = "stable" -> Version(v.major, v.minor, v.patch, "final", 0)
    [] roll = "beta" -> Version(v.major, v.minor, v.patch, "beta", v.serial + 1)
    [] roll = "patch" -> Version(v.major, v.minor, v.patch + 1, "beta", 1)
    [] roll = "minor" -> Version(v.major, v.minor + 1, 0, "beta", 1)
    [] roll = "major" -> Version(v.major + 1, 0, 0, "beta", 1)

NextVersion(v, roll) ==
  CASE roll = "stable" -> Version(v.major, v.minor, v.patch, "final", 0)
    [] roll = "beta" /\ v.stage = "beta" ->
         Version(v.major, v.minor, v.patch, "beta", v.serial + 1)
    [] roll = "beta" /\ v.stage \in {"alpha", "rc"} ->
         Version(v.major, v.minor, v.patch, "beta", 1)
    [] roll = "beta" /\ v.stage = "final" ->
         Version(v.major, v.minor, v.patch + 1, "beta", 1)
    [] roll = "patch" -> Version(v.major, v.minor, v.patch + 1, "beta", 1)
    [] roll = "minor" -> Version(v.major, v.minor + 1, 0, "beta", 1)
    [] roll = "major" -> Version(v.major + 1, 0, 0, "beta", 1)
=============================================================================

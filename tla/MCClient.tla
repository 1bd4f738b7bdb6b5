------------------------------ MODULE MCClient ------------------------------
(* What clients get, on small instances: the list and the preferences a     *)
(* page shows, and the rolling minutes of the addresses clients come from.  *)
(* The three share no state, so a behaviour explores one of them.           *)
EXTENDS Console, Preferences, Windows

\* 1 and 3 have the same created_at, 2 is older by microseconds only.
MCCreatedAt == <<3, 2, 3>>

\* Recent is the filter of the code on every window there can be, here of up
\* to four timestamps.
ASSUME RecentIsTheFilter ==
  \A n \in 0..4 : \A s \in [1..n -> 0..Minute] :
    (\A i, j \in 1..n : i <= j => s[i] >= s[j])
      => Recent(s) = SelectSeq(s, IsRecent)

\* The rows of a set by their places are the set sorted.
ASSUME PlacesSort ==
  \A S \in SUBSET Ids :
    [k \in 1..Cardinality(S) |-> InPlace(S, k)] = SetToSortSeq(S, Newer)

VARIABLE side

MCVars == <<rows, consoleVars, preferenceVars, windowVars, side>>

MCInit ==
  /\ ConsoleInit /\ PreferencesInit /\ WindowsInit
  /\ side \in {"feed", "preferences", "addresses"}
  /\ side # "preferences" => stored = NoRow

MCNext ==
  /\ \/ /\ side = "feed" /\ ConsoleNext
        /\ UNCHANGED <<preferenceVars, windowVars>>
     \/ /\ side = "preferences" /\ PreferencesNext
        /\ UNCHANGED <<rows, consoleVars, windowVars>>
     \/ /\ side = "addresses" /\ WindowsNext
        /\ UNCHANGED <<rows, consoleVars, preferenceVars>>
  /\ UNCHANGED side

MCSpec == MCInit /\ [][MCNext]_MCVars

=============================================================================

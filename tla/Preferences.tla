---------------------------- MODULE Preferences ----------------------------
(***************************************************************************)
(* One notification type's preference: the row of the server, the entry of *)
(* state.preferences and the checkboxes of the demo console.  A change of  *)
(* one channel sends both (PATCH replaces the row), built from the entry   *)
(* the page knows; answers come back in any order.                         *)
(***************************************************************************)
EXTENDS Naturals, Sequences, SequencesExt

CONSTANTS
  NoRow,           \* no row, or no entry
  MaxSaves,        \* bound on saves in flight
  MaxLost          \* bound on saves that fail

Channels      == {"inApp", "email"}
PreferenceRow == [Channels -> BOOLEAN]

ASSUME PreferencesAssumption == NoRow \notin PreferenceRow

VARIABLES
  stored,     \* the row of notification_preferences
  entry,      \* state.preferences.get(type)
  boxes,      \* the checkboxes
  saves,      \* updatePreference calls in flight, in the order of asking
  wanted,     \* history: what the user last chose, by channel
  doubtful,   \* history: a save overlapped another one or failed
  lost

preferenceVars == <<stored, entry, boxes, saves, wanted, doubtful, lost>>

\* What the console shows, and the consumer assumes, without a row.
Default     == [c \in Channels |-> c = "inApp"]
Effective(r) == IF r = NoRow THEN Default ELSE r

\* Signed in, preferences loaded and rendered.
Loaded ==
  /\ entry' = stored
  /\ boxes' = Effective(stored)
  /\ wanted' = Effective(stored)
  /\ doubtful' = FALSE

PreferencesInit ==
  /\ stored \in {NoRow} \cup PreferenceRow
  /\ entry = stored /\ boxes = Effective(stored) /\ wanted = Effective(stored)
  /\ saves = <<>> /\ doubtful = FALSE /\ lost = 0

LoadPreferences ==
  /\ saves = <<>>
  /\ Loaded
  /\ UNCHANGED <<stored, saves, lost>>

-----------------------------------------------------------------------------
\* Slip: what is not changed is sent with its default.
NextPreferenceOver(channel) ==
  [Default EXCEPT ![channel] = ~boxes[channel]]

\* { ...previous, [key]: checked }
NextPreference(channel) ==
  [Effective(entry) EXCEPT ![channel] = ~boxes[channel]]

\* updatePreference: a click on a checkbox.
UpdatePreference(channel) ==
  /\ Len(saves) < MaxSaves
  /\ boxes' = [boxes EXCEPT ![channel] = ~@]
  /\ wanted' = [wanted EXCEPT ![channel] = ~boxes[channel]]
  /\ saves' = Append(saves, [next |-> NextPreference(channel), stored |-> FALSE])
  /\ doubtful' = (doubtful \/ saves # <<>>)
  /\ UNCHANGED <<stored, entry, lost>>

\* The question before e-mail is enabled is answered with no.
DeclineEmail ==
  /\ ~boxes["email"]
  /\ boxes' = Effective(entry)
  /\ UNCHANGED <<stored, entry, saves, wanted, doubtful, lost>>

\* setPreference: INSERT ... ON CONFLICT DO UPDATE of both channels.
SaveServed(k) ==
  /\ ~saves[k].stored
  /\ stored' = saves[k].next
  /\ saves' = [saves EXCEPT ![k].stored = TRUE]
  /\ UNCHANGED <<entry, boxes, wanted, doubtful, lost>>

SaveAnswered(k) ==
  /\ saves[k].stored
  /\ entry' = saves[k].next
  /\ boxes' = saves[k].next
  /\ saves' = RemoveAt(saves, k)
  /\ UNCHANGED <<stored, wanted, doubtful, lost>>

\* The save or its answer is lost: the checkboxes go back to the entry.
SaveFails(k) ==
  /\ lost < MaxLost /\ lost' = lost + 1
  /\ boxes' = Effective(entry)
  /\ saves' = RemoveAt(saves, k)
  /\ doubtful' = TRUE
  /\ UNCHANGED <<stored, entry, wanted>>

PreferencesNext ==
  \/ LoadPreferences \/ DeclineEmail
  \/ \E c \in Channels : UpdatePreference(c)
  \/ \E k \in DOMAIN saves : SaveServed(k) \/ SaveAnswered(k) \/ SaveFails(k)

PreferencesSpec == PreferencesInit /\ [][PreferencesNext]_preferenceVars

-----------------------------------------------------------------------------
\* updatePreference replaces the whole row by what the page knows
\* (demo.js:556): once every save is answered, row, page and checkboxes agree
\* with what the user last chose for each channel.  The exception is a save
\* that overlapped another one or whose answer was lost; loading the
\* preferences again ends it.
PreferenceKept ==
  saves = <<>> /\ ~doubtful
  => Effective(stored) = wanted /\ Effective(entry) = wanted /\ boxes = wanted

=============================================================================

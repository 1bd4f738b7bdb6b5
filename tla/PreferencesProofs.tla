-------------------------- MODULE PreferencesProofs --------------------------
(***************************************************************************)
(* Proofs about Preferences, for any numbers of saves in flight and of     *)
(* saves that are lost.                                                    *)
(***************************************************************************)
EXTENDS Preferences, SequenceTheorems, TLAPS

-----------------------------------------------------------------------------
(***************************************************************************)
(* The inductive invariant.                                                *)
(***************************************************************************)

\* A save in flight: the row it carries, and whether it was served.
Save == [next : PreferenceRow, stored : BOOLEAN]

\* Rows are rows, in the table, on the page and in flight.
PreferencesTyped ==
  /\ stored \in {NoRow} \cup PreferenceRow
  /\ entry \in {NoRow} \cup PreferenceRow
  /\ boxes \in PreferenceRow /\ wanted \in PreferenceRow
  /\ saves \in Seq(Save)
  /\ doubtful \in BOOLEAN

\* As long as nothing is in doubt there is one save at the most; it carries
\* all that the user chose, and once it is served the row has it.
OneFaithfulSave ==
  ~doubtful =>
    /\ Len(saves) <= 1
    /\ saves # <<>> => /\ saves[1].next = wanted
                       /\ saves[1].stored => stored = wanted

\* All of it.
PreferencesInv == PreferencesTyped /\ OneFaithfulSave /\ PreferenceKept

-----------------------------------------------------------------------------
(***************************************************************************)
(* Its steps.                                                              *)
(***************************************************************************)

\* What is shown of a row that is there is that row.
LEMMA EffectiveRow ==
  /\ \A r \in {NoRow} \cup PreferenceRow : Effective(r) \in PreferenceRow
  /\ \A r \in PreferenceRow : Effective(r) = r
BY PreferencesAssumption DEF Effective, Default, PreferenceRow

\* Changing one channel of a row leaves a row.
LEMMA ChannelChanged ==
  ASSUME NEW r \in PreferenceRow, NEW c \in Channels, NEW b \in BOOLEAN
  PROVE  [r EXCEPT ![c] = b] \in PreferenceRow
BY DEF PreferenceRow

\* Removing a save leaves the others, and of a single one nothing.
LEMMA SaveRemoved ==
  ASSUME NEW s \in Seq(Save), NEW k \in DOMAIN s
  PROVE  /\ RemoveAt(s, k) \in Seq(Save)
         /\ Len(s) <= 1 => RemoveAt(s, k) = <<>>
<1>1. /\ Len(s) \in Nat /\ k \in 1..Len(s)  BY LenProperties
<1>2. /\ SubSeq(s, 1, k-1) \in Seq(Save) /\ SubSeq(s, k+1, Len(s)) \in Seq(Save)
  BY <1>1, SubSeqProperties
<1>3. SubSeq(s, 1, k-1) \o SubSeq(s, k+1, Len(s)) \in Seq(Save)
  BY <1>2, ConcatProperties
<1>4. CASE Len(s) <= 1
  <2>1. Len(s) = 1 /\ k = 1  BY <1>1, <1>4
  <2>2. SubSeq(s, 1, k-1) = <<>> /\ SubSeq(s, k+1, Len(s)) = <<>>
    BY <2>1, SubSeqEmpty
  <2>3. QED BY <1>3, <2>2, ConcatEmptySeq DEF RemoveAt
<1>5. QED BY <1>3, <1>4 DEF RemoveAt

\* Page and row agree when nothing was asked yet.
LEMMA InitPreferencesInv == PreferencesInit => PreferencesInv
<1> SUFFICES ASSUME PreferencesInit PROVE PreferencesInv
  OBVIOUS
<1>1. /\ saves = <<>> /\ saves \in Seq(Save)
      /\ stored \in {NoRow} \cup PreferenceRow /\ entry = stored
      /\ boxes = Effective(stored) /\ wanted = Effective(stored)
      /\ doubtful = FALSE
  BY EmptySeq DEF PreferencesInit
<1>2. PreferencesTyped  BY <1>1, EffectiveRow DEF PreferencesTyped
<1>3. QED
  BY <1>1, <1>2 DEF PreferencesInv, OneFaithfulSave, PreferenceKept

\* Loading starts over from the row.
LEMMA LoadKeepsInv ==
  ASSUME PreferencesInv, LoadPreferences PROVE PreferencesInv'
<1>1. PreferencesTyped'
  BY EffectiveRow DEF PreferencesInv, LoadPreferences, Loaded, PreferencesTyped
<1>2. QED
  BY <1>1, EffectiveRow
     DEF PreferencesInv, LoadPreferences, Loaded, OneFaithfulSave,
         PreferenceKept

\* A first click starts from what the page knows, which is what the user
\* wants of the other channel; a second one is in doubt.
LEMMA UpdateKeepsInv ==
  ASSUME PreferencesInv, NEW c \in Channels, UpdatePreference(c)
  PROVE  PreferencesInv'
<1> DEFINE save == [next |-> NextPreference(c), stored |-> FALSE]
<1>1. boxes[c] \in BOOLEAN
  BY DEF PreferencesInv, PreferencesTyped, PreferenceRow
<1>2. NextPreference(c) \in PreferenceRow
  BY <1>1, EffectiveRow, ChannelChanged
     DEF PreferencesInv, PreferencesTyped, NextPreference
<1>3. save \in Save  BY <1>2 DEF Save
<1>4. /\ saves \in Seq(Save) /\ saves' = Append(saves, save)
      /\ UNCHANGED <<stored, entry>>
  BY DEF PreferencesInv, PreferencesTyped, UpdatePreference
<1>5. /\ saves' \in Seq(Save) /\ Len(saves') = Len(saves) + 1
      /\ saves'[Len(saves) + 1] = save
  BY <1>3, <1>4, AppendProperties
<1>6. PreferencesTyped'
  BY <1>1, <1>4, <1>5, ChannelChanged
     DEF PreferencesInv, PreferencesTyped, UpdatePreference
<1>7. saves' # <<>>
  <2>1. Len(saves) \in Nat  BY <1>4, LenProperties
  <2>2. Len(saves') # 0  BY <1>5, <2>1
  <2>3. QED BY <2>2
<1>8. ASSUME ~doubtful'
      PROVE  /\ Len(saves') = 1
             /\ saves'[1].next = wanted' /\ ~saves'[1].stored
  <2>1. ~doubtful /\ saves = <<>>
    BY <1>8 DEF UpdatePreference, PreferencesInv, PreferencesTyped
  <2>2. Effective(entry) = wanted
    BY <2>1 DEF PreferencesInv, PreferenceKept
  <2>3. Len(saves) = 0  BY <2>1
  <2>4. QED BY <1>5, <2>2, <2>3 DEF NextPreference, UpdatePreference
<1>9. OneFaithfulSave'
  <2>1. SUFFICES ASSUME ~doubtful'
                 PROVE  /\ Len(saves') <= 1
                        /\ saves'[1].next = wanted' /\ ~saves'[1].stored
    BY DEF OneFaithfulSave
  <2>2. Len(saves') = 1  BY <1>8, <2>1
  <2>3. saves'[1].next = wanted' /\ ~saves'[1].stored  BY <1>8, <2>1
  <2>4. QED BY <2>2, <2>3
<1>10. QED
  BY <1>6, <1>7, <1>9 DEF PreferencesInv, PreferenceKept

\* The server takes over what the save carries.
LEMMA ServedKeepsInv ==
  ASSUME PreferencesInv, NEW k \in DOMAIN saves, SaveServed(k)
  PROVE  PreferencesInv'
<1>1. /\ saves \in Seq(Save) /\ Len(saves) \in Nat /\ k \in 1..Len(saves)
      /\ saves[k] \in Save
  BY LenProperties, ElementOfSeq DEF PreferencesInv, PreferencesTyped
<1>2. [saves[k] EXCEPT !.stored = TRUE] \in Save  BY <1>1 DEF Save
<1>3. saves' = [saves EXCEPT ![k] = [saves[k] EXCEPT !.stored = TRUE]]
  BY DEF SaveServed
<1>4. /\ saves' \in Seq(Save) /\ Len(saves') = Len(saves)
  BY <1>1, <1>2, <1>3, ExceptSeq
<1>5. saves[k].next \in PreferenceRow  BY <1>1 DEF Save
<1>6. PreferencesTyped'
  BY <1>4, <1>5 DEF SaveServed, PreferencesInv, PreferencesTyped
<1>7. saves' # <<>>  BY <1>1, <1>4
<1>8. OneFaithfulSave'
  <2>1. SUFFICES ASSUME ~doubtful'
                 PROVE  /\ Len(saves') <= 1
                        /\ saves'[1].next = wanted'
                        /\ stored' = wanted'
    BY DEF OneFaithfulSave
  <2>2. ~doubtful /\ wanted' = wanted /\ stored' = saves[k].next
    BY <2>1 DEF SaveServed
  <2>3. Len(saves) <= 1 /\ k = 1 /\ saves[1].next = wanted
    BY <1>1, <2>2 DEF PreferencesInv, OneFaithfulSave
  <2>4. saves'[1].next = saves[1].next
    BY <1>1, <1>3, <2>3 DEF Save
  <2>5. QED BY <1>4, <2>2, <2>3, <2>4
<1>9. QED BY <1>6, <1>7, <1>8 DEF PreferencesInv, PreferenceKept

\* With its answer, page and checkboxes follow.
LEMMA AnsweredKeepsInv ==
  ASSUME PreferencesInv, NEW k \in DOMAIN saves, SaveAnswered(k)
  PROVE  PreferencesInv'
<1>1. /\ saves \in Seq(Save) /\ Len(saves) \in Nat /\ k \in 1..Len(saves)
      /\ saves[k] \in Save
  BY LenProperties, ElementOfSeq DEF PreferencesInv, PreferencesTyped
<1>2. saves[k].next \in PreferenceRow  BY <1>1 DEF Save
<1>3. /\ saves' \in Seq(Save)
      /\ Len(saves) <= 1 => saves' = <<>>
  BY <1>1, SaveRemoved DEF SaveAnswered
<1>4. PreferencesTyped'
  BY <1>2, <1>3 DEF SaveAnswered, PreferencesInv, PreferencesTyped
<1>5. ASSUME ~doubtful'
      PROVE  /\ saves' = <<>> /\ stored' = wanted'
             /\ entry' = wanted' /\ boxes' = wanted'
  <2>1. ~doubtful /\ saves[k].stored  BY <1>5 DEF SaveAnswered
  <2>2. Len(saves) <= 1 /\ k = 1 /\ saves # <<>>
    BY <1>1, <2>1 DEF PreferencesInv, OneFaithfulSave
  <2>3. saves[1].next = wanted /\ stored = wanted
    BY <2>1, <2>2 DEF PreferencesInv, OneFaithfulSave
  <2>4. QED BY <1>3, <2>2, <2>3 DEF SaveAnswered
<1>6. Effective(wanted') = wanted'
  BY <1>4, EffectiveRow DEF PreferencesTyped
<1>7. OneFaithfulSave'  BY <1>5 DEF OneFaithfulSave
<1>8. PreferenceKept'  BY <1>5, <1>6 DEF PreferenceKept
<1>9. QED BY <1>4, <1>7, <1>8 DEF PreferencesInv

\* A save that is lost leaves everything in doubt.
LEMMA FailedKeepsInv ==
  ASSUME PreferencesInv, NEW k \in DOMAIN saves, SaveFails(k)
  PROVE  PreferencesInv'
<1>1. saves' \in Seq(Save)
  BY SaveRemoved DEF SaveFails, PreferencesInv, PreferencesTyped
<1>2. PreferencesTyped'
  BY <1>1, EffectiveRow DEF SaveFails, PreferencesInv, PreferencesTyped
<1>3. doubtful'  BY DEF SaveFails
<1>4. QED
  BY <1>2, <1>3 DEF PreferencesInv, OneFaithfulSave, PreferenceKept

\* Declining e-mail shows the entry again, which is what the user chose last
\* unless a save is on its way.
LEMMA DeclineKeepsInv ==
  ASSUME PreferencesInv, DeclineEmail PROVE PreferencesInv'
<1>1. PreferencesTyped'
  BY EffectiveRow DEF DeclineEmail, PreferencesInv, PreferencesTyped
<1>2. QED
  BY <1>1
     DEF DeclineEmail, PreferencesInv, OneFaithfulSave, PreferenceKept

\* No step breaks it.
LEMMA NextPreferencesInv ==
  PreferencesInv /\ [PreferencesNext]_preferenceVars => PreferencesInv'
<1> SUFFICES ASSUME PreferencesInv, [PreferencesNext]_preferenceVars
             PROVE  PreferencesInv'
  OBVIOUS
<1>1. CASE UNCHANGED preferenceVars
  BY <1>1
     DEF preferenceVars, PreferencesInv, PreferencesTyped, OneFaithfulSave,
         PreferenceKept
<1>2. QED
  BY <1>1, LoadKeepsInv, UpdateKeepsInv, ServedKeepsInv, AnsweredKeepsInv,
     FailedKeepsInv, DeclineKeepsInv DEF PreferencesNext

-----------------------------------------------------------------------------
\* The invariant holds throughout, in whatever order saves are served and
\* answered and however many are lost.
THEOREM PreferencesInvariant == PreferencesSpec => []PreferencesInv
<1>1. QED
  BY InitPreferencesInv, NextPreferencesInv, PTL DEF PreferencesSpec

\* Row, page and checkboxes agree with the user's choice whenever no save is
\* in flight and none overlapped another or was lost since the last load.
THEOREM ChoicesAreKept == PreferencesSpec => []PreferenceKept
<1>1. PreferencesInv => PreferenceKept  BY DEF PreferencesInv
<1>2. QED BY <1>1, PreferencesInvariant, PTL

=============================================================================

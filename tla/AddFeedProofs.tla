---------------------------- MODULE AddFeedProofs ----------------------------
(***************************************************************************)
(* The registration form, for any number of forms, saves, texts, photos    *)
(* and seconds: the overlay is the lock of a save, the dates of saves      *)
(* differ, what is written is what was shown and has its photo, and the    *)
(* mailbox and the timer act on the form they are meant for.               *)
(***************************************************************************)
EXTENDS AddFeed, FiniteSetTheorems, TLAPS

-----------------------------------------------------------------------------
(***************************************************************************)
(* Forms, stacks and saves as values.                                      *)
(***************************************************************************)

LEMMA Grown ==
    ASSUME NEW S, NEW s \in Seq(S), NEW x \in S, NEW t, t = Append(s, x)
    PROVE  /\ t \in Seq(S) /\ t # <<>> /\ Len(t) = Len(s) + 1
           /\ DOMAIN t = DOMAIN s \cup {Len(s) + 1} /\ DOMAIN s = 1..Len(s) /\ Len(s) \in Nat
           /\ t[Len(s) + 1] = x /\ \A i \in DOMAIN s : t[i] = s[i]
           /\ Last(t) = x
  BY DEF Last

LEMMA Replaced ==
    ASSUME NEW S, NEW s \in Seq(S), NEW v \in DOMAIN s, NEW x \in S,
           NEW t, t = [s EXCEPT ![v] = x]
    PROVE  /\ t \in Seq(S) /\ Len(t) = Len(s) /\ DOMAIN t = DOMAIN s
           /\ t[v] = x /\ \A w \in DOMAIN s : w # v => t[w] = s[w]
  OBVIOUS

LEMMA Mapped ==
    ASSUME NEW S, NEW s \in Seq(S), NEW t, t = [i \in DOMAIN s |-> t[i]],
           \A i \in DOMAIN s : t[i] \in S
    PROVE  t \in Seq(S) /\ DOMAIN t = DOMAIN s
<1>1. DOMAIN s = 1..Len(s) /\ Len(s) \in Nat
  OBVIOUS
<1>2. t \in [1..Len(s) -> S]
  BY <1>1
<1>. QED
  BY <1>1, <1>2

LEMMA TopOf ==
    ASSUME NEW S, NEW s \in Seq(S), s # <<>>
    PROVE  Last(s) \in S /\ Last(s) \in Range(s) /\ Front(s) \in Seq(S)
  BY DEF Last, Front, Range

\* A form with another point.
LEMMA PointSet ==
    ASSUME NEW fs \in [Forms -> Form], NEW f \in Forms, NEW p \in Place
    PROVE  /\ [fs EXCEPT ![f].point = p] \in [Forms -> Form]
           /\ [fs EXCEPT ![f].point = p][f].point = p
           /\ [fs EXCEPT ![f].point = p][f].texts = fs[f].texts
           /\ \A g \in Forms : g # f => [fs EXCEPT ![f].point = p][g] = fs[g]
  BY DEF Form

LEMMA FormFields ==
    ASSUME NEW x \in Form
    PROVE  /\ x.point \in Place /\ x.texts \in Text /\ x.photo \in Photos \cup {NoPhoto}
           /\ x.editing \in BOOLEAN
  BY DEF Form

LEMMA EmptyTyped == EmptyForm \in Form
  BY DEF EmptyForm, Form, Place, Text

LEMMA ContentTyped ==
    ASSUME forms \in [Forms -> Form], NEW f \in Forms
    PROVE  ContentOf(f) \in Content
  BY FormFields DEF ContentOf, Content

LEMMA ReleasedTyped ==
    ASSUME NEW fs \in [Forms -> Form], NEW s, NEW flight
    PROVE  Released(fs, s, flight) \in [Forms -> Form]
  BY EmptyTyped DEF Released

LEMMA SaveFields ==
    ASSUME NEW x \in Save
    PROVE  /\ x.form \in Forms /\ x.date \in Dates /\ x.tapped \in Content /\ x.photo \in Photos
           /\ x.phase \in {"uploading", "uploaded", "waiting", "done", "lost"}
           /\ x.upload \in {"running", "stored", "failed"} /\ x.wait \in Nat
  BY DEF Save

\* What every step but a save leaves of a save.
SameSave(x, y) ==
    /\ y.form = x.form /\ y.date = x.date /\ y.tapped = x.tapped /\ y.photo = x.photo

LEMMA SaveLost ==
    ASSUME NEW x \in Save PROVE [x EXCEPT !.phase = "lost", !.wait = 0] \in Save
  BY DEF Save

\* Whatever appears, the forms and the mailbox keep their types, and with it the mail.
LEMMA AppearTyped ==
    ASSUME NEW s \in Seq(Forms), NEW fs \in [Forms -> Form], NEW m \in Place \cup {Nothing},
           Appear(s, fs, m)
    PROVE  /\ stack' \in Seq(Forms) /\ forms' \in [Forms -> Form]
           /\ mailbox' \in Place \cup {Nothing}
           /\ stack' = s
           /\ s # <<>> => mailbox' = Nothing
           /\ s = <<>> => mailbox' = m
<1>1. CASE s = <<>>
  BY <1>1 DEF Appear
<1>2. CASE s # <<>>
  <2>1. Last(s) \in Forms
    BY <1>2, TopOf
  <2>2. (IF m = Nothing THEN Blank ELSE m) \in Place
    BY DEF Place
  <2>3. [fs EXCEPT ![Last(s)].point = IF m = Nothing THEN Blank ELSE m] \in [Forms -> Form]
    BY <2>1, <2>2, PointSet
  <2>. QED
    BY <1>2, <2>3 DEF Appear
<1>. QED
  BY <1>1, <1>2

-----------------------------------------------------------------------------
(***************************************************************************)
(* The steps of the user, with no overlay: none of them meets a save, but  *)
(* for one whose overlay was tapped away.                                  *)
(***************************************************************************)

\* What is stored, and when, is kept by every step that leaves saves, stores and clock.
Stored == /\ UploadsStored /\ PhotoBeforeFeed /\ Stamped /\ DatesApart /\ WrittenAsShown

LEMMA StoredKept ==
    ASSUME IInv, UNCHANGED <<saves, clock, server>>, touched \subseteq touched'
    PROVE  Stored'
<1>. USE DEF server
<1>1. UploadsStored'
  BY DEF IInv, UploadsStored
<1>2. PhotoBeforeFeed'
  BY DEF IInv, PhotoBeforeFeed
<1>3. Stamped'
  BY DEF IInv, Stamped
<1>4. DatesApart'
  BY DEF IInv, DatesApart, Elapsed
<1>5. WrittenAsShown'
  BY DEF IInv, WrittenAsShown
<1>. QED
  BY <1>1, <1>2, <1>3, <1>4, <1>5 DEF Stored

LEMMA NoneInFlight ==
    ASSUME IInv, ~overlay, "overlay" \notin touched PROVE InFlight = {}
  BY DEF IInv, Locked

LEMMA QuietKeeps ==
    ASSUME IInv, ~overlay, UNCHANGED <<overlay, saves, clock, server, touched, pushedOver>>
    PROVE  Stored' /\ Locked' /\ TextsKept'
<1>1. Stored'
  BY StoredKept
<1>2. InFlight' = InFlight
  BY DEF InFlight
<1>3. Locked'
  BY <1>2, NoneInFlight DEF Locked
<1>4. TextsKept'
  BY NoneInFlight DEF TextsKept, InFlight
<1>. QED
  BY <1>1, <1>3, <1>4

\* A stack that lost its top screens.
LEMMA Shortened ==
    ASSUME NEW s \in Seq(Forms), \A m, n \in DOMAIN s : s[m] = s[n] => m = n,
           NEW k \in Nat, k < Len(s), NEW t, t = SubSeq(s, 1, k)
    PROVE  /\ \A m, n \in DOMAIN t : t[m] = t[n] => m = n
           /\ Range(t) \subseteq Range(s) /\ Last(s) \in Range(s) \ Range(t)
<1>1. DOMAIN t = 1..k /\ DOMAIN s = 1..Len(s) /\ Len(s) \in Nat
  OBVIOUS
<1>2. \A m \in DOMAIN t : m \in DOMAIN s /\ m # Len(s) /\ t[m] = s[m]
  BY <1>1
<1>3. Len(s) \in DOMAIN s
  BY <1>1
<1>4. Last(s) = s[Len(s)]
  BY DEF Last
<1>5. Range(t) \subseteq Range(s)
  BY <1>2 DEF Range
<1>6. Last(s) \in Range(s)
  BY <1>3, <1>4 DEF Range
<1>7. Last(s) \notin Range(t)
  BY <1>2, <1>3, <1>4 DEF Range
<1>. QED
  BY <1>2, <1>5, <1>6, <1>7

\* What is being saved stays on top, or goes, when screens are popped.
LEMMA StackedKept ==
    ASSUME IInv, InFlight' \subseteq InFlight, pushedOver \subseteq pushedOver',
           \A i \in InFlight' : saves'[i].form = saves[i].form,
           stack' = stack \/ \E k \in Nat : k < Len(stack) /\ stack' = SubSeq(stack, 1, k)
    PROVE  Stacked'
<1>1. stack \in Seq(Forms) /\ Stacked
  BY DEF IInv, TypeOK
<1>2. CASE stack' = stack
  BY <1>1, <1>2 DEF Stacked
<1>3. ASSUME NEW k \in Nat, k < Len(stack), stack' = SubSeq(stack, 1, k) PROVE Stacked'
  <2>1. /\ \A m, n \in DOMAIN stack' : stack'[m] = stack'[n] => m = n
        /\ Range(stack') \subseteq Range(stack) /\ Last(stack) \notin Range(stack')
    BY <1>1, <1>3, Shortened DEF Stacked
  <2>2. ASSUME NEW i \in InFlight' \ pushedOver', saves'[i].form \in Range(stack') PROVE FALSE
    BY <1>1, <2>1, <2>2 DEF Stacked
  <2>. QED
    BY <2>1, <2>2 DEF Stacked
<1>. QED
  BY <1>2, <1>3

\* What is left to show of such a step: the types of the screen, and who is on top.
Screens ==
    /\ forms \in [Forms -> Form] /\ stack \in Seq(Forms) /\ mailbox \in Place \cup {Nothing}
    /\ modal \in [kind : {"none", "sheet", "picker", "location"}, form : Forms \cup {Nothing}]

LEMMA TypeKept ==
    ASSUME TypeOK, Screens', UNCHANGED <<overlay, saves, clock, server, touched, pushedOver>>
    PROVE  TypeOK'
  BY DEF TypeOK, Screens, server

LEMMA StepOfUser ==
    ASSUME IInv, ~overlay, UNCHANGED <<overlay, saves, clock, server, touched, pushedOver>>,
           Screens', NoStaleMail', Stacked',
           "overlay" \notin touched /\ modal' # NoModal => stack' # <<>>,
           touched = {} /\ modal' # NoModal => modal'.form = Last(stack')
    PROVE  IInv'
<1>1. TypeOK'
  BY TypeKept DEF IInv
<1>2. OnTop'
  BY DEF OnTop
<1>3. Stored' /\ Locked' /\ TextsKept'
  BY QuietKeeps
<1>. QED
  BY <1>1, <1>2, <1>3 DEF IInv, Stored

LEMMA StackedStays ==
    ASSUME IInv, UNCHANGED <<stack, saves, pushedOver>> PROVE Stacked'
<1>1. InFlight' = InFlight
  BY DEF InFlight
<1>. QED
  BY <1>1, StackedKept

LEMMA ModalUncovers == NoModal.kind = "none"
  BY DEF NoModal

LEMMA NoModalTyped ==
    NoModal \in [kind : {"none", "sheet", "picker", "location"}, form : Forms \cup {Nothing}]
  BY DEF NoModal

\* A modal that is there hides the overlay's absence: with one up there is no overlay.
LEMMA ModalNoOverlay ==
    ASSUME IInv, modal.kind # "none" PROVE ~overlay /\ modal # NoModal
  BY ModalUncovers DEF IInv, Locked

LEMMA RestackAppears ==
    ASSUME modal = NoModal, NEW s, NEW fs, Restack(s, fs) PROVE Appear(s, fs, mailbox)
  BY ModalUncovers DEF Restack, Covered

LEMMA PlusKeeps ==
    ASSUME IInv, NEW f \in Forms, PlusButtonDidTap(f) PROVE IInv'
<1>. USE DEF PlusButtonDidTap
<1>. DEFINE fs == [forms EXCEPT ![f] = EmptyForm]
<1>1. fs \in [Forms -> Form]
  BY EmptyTyped DEF IInv, TypeOK
<1>2. <<f>> \in Seq(Forms) /\ <<f>> # <<>>
  OBVIOUS
<1>3. Appear(<<f>>, fs, mailbox)
  BY RestackAppears
<1>. HIDE DEF fs
<1>4. Screens' /\ mailbox' = Nothing
  BY <1>1, <1>2, <1>3, AppearTyped DEF IInv, TypeOK, Screens
<1>5. NoStaleMail'
  BY <1>4 DEF NoStaleMail
<1>6. stack' = <<f>> /\ InFlight' = InFlight
  BY <1>1, <1>2, <1>3, AppearTyped DEF IInv, TypeOK, InFlight
<1>7. Range(<<f>>) = {f} /\ DOMAIN <<f>> = {1}
  BY DEF Range
<1>8. \A i \in InFlight : saves[i].form # f
  BY DEF Alive
<1>9. Stacked'
  BY <1>6, <1>7, <1>8 DEF Stacked
<1>. QED
  BY <1>4, <1>5, <1>9, StepOfUser

LEMMA BackKeeps ==
    ASSUME IInv, NEW k \in {0, Len(stack) - 1}, BackDidTap(k) PROVE IInv'
<1>. USE DEF BackDidTap
<1>. DEFINE s == SubSeq(stack, 1, k)
            fs == Released(forms, s, InFlight)
<1>1. fs \in [Forms -> Form]
  BY ReleasedTyped DEF IInv, TypeOK
<1>2. stack \in Seq(Forms) /\ stack # <<>> /\ modal = NoModal /\ ~overlay
  BY DEF IInv, TypeOK, OnForm
<1>3. s \in Seq(Forms)
  BY <1>2
<1>4. Appear(s, fs, mailbox)
  BY <1>2, RestackAppears
<1>5. k \in Nat /\ k < Len(stack)
  BY <1>2
<1>6. stack' = s
  BY <1>4 DEF Appear
<1>7. InFlight' = InFlight
  BY DEF InFlight
<1>8. Stacked'
  BY <1>5, <1>6, <1>7, StackedKept
<1>. HIDE DEF fs, s
<1>9. Screens' /\ mailbox' \in {mailbox, Nothing}
  BY <1>1, <1>3, <1>4, AppearTyped DEF IInv, TypeOK, Screens
<1>10. NoStaleMail'
  BY <1>9 DEF NoStaleMail, IInv
<1>. QED
  BY <1>2, <1>8, <1>9, <1>10, StepOfUser

LEMMA SwipeKeeps ==
    ASSUME IInv, SwipeCancelled PROVE IInv'
<1>. USE DEF SwipeCancelled
<1>. DEFINE below == Front(stack)
            mail == IF mailbox = Nothing THEN Blank ELSE mailbox
            fs == [forms EXCEPT ![Last(below)].point = mail]
<1>1. stack \in Seq(Forms) /\ stack # <<>> /\ modal = NoModal /\ ~overlay
  BY DEF IInv, TypeOK, OnForm
<1>2. below \in Seq(Forms) /\ (below # <<>> => Last(below) \in Forms)
  BY <1>1, TopOf
<1>3. mail \in Place
  BY DEF IInv, TypeOK, Place
<1>4. below # <<>> => fs \in [Forms -> Form]
  BY <1>2, <1>3, PointSet DEF IInv, TypeOK
<1>5. IF below = <<>> THEN Appear(stack, forms, mailbox) ELSE Appear(stack, fs, Nothing)
  OBVIOUS
<1>. HIDE DEF fs, below, mail
<1>6. Screens' /\ mailbox' = Nothing /\ stack' = stack
  <2>1. CASE below = <<>>
    BY <1>1, <1>5, <2>1, AppearTyped DEF IInv, TypeOK, Screens
  <2>2. CASE below # <<>>
    BY <1>1, <1>4, <1>5, <2>2, AppearTyped DEF IInv, TypeOK, Screens
  <2>. QED
    BY <2>1, <2>2
<1>7. NoStaleMail'
  BY <1>6 DEF NoStaleMail
<1>. QED
  BY <1>1, <1>6, <1>7, StackedStays, StepOfUser

LEMMA PresentKeeps ==
    ASSUME IInv, NEW kind \in {"sheet", "location"}, Present(kind) PROVE IInv'
<1>. USE DEF Present
<1>1. stack \in Seq(Forms) /\ stack # <<>> /\ modal = NoModal /\ ~overlay
  BY DEF IInv, TypeOK, OnForm
<1>2. Last(stack) \in Forms
  BY <1>1, TopOf
<1>3. Screens'
  BY <1>2 DEF IInv, TypeOK, Screens
<1>4. NoStaleMail'
  BY DEF NoStaleMail, IInv
<1>. QED
  BY <1>1, <1>3, <1>4, StackedStays, StepOfUser

LEMMA SheetKeeps ==
    ASSUME IInv, NEW kind \in {"picker", "none"}, SheetDone(kind) PROVE IInv'
<1>. USE DEF SheetDone
<1>1. ~overlay /\ modal # NoModal
  BY ModalNoOverlay
<1>2. modal' = NoModal \/ modal' = [modal EXCEPT !.kind = "picker"]
  OBVIOUS
<1>3. Screens'
  BY <1>2, NoModalTyped DEF IInv, TypeOK, Screens
<1>4. NoStaleMail'
  BY DEF NoStaleMail, IInv
<1>5. modal' # NoModal => modal'.form = modal.form
  BY <1>2 DEF IInv, TypeOK
<1>. QED
  BY <1>1, <1>3, <1>4, <1>5, StackedStays, StepOfUser DEF IInv, OnTop

\* A full-screen modal is dismissed: the form that presented it appears.
LEMMA DismissKeeps ==
    ASSUME IInv, modal.kind # "none", modal' = NoModal,
           NEW fs \in [Forms -> Form], NEW m \in Place \cup {Nothing},
           m = mailbox \/ stack # <<>> \/ "overlay" \in touched,
           Appear(stack, fs, m), UNCHANGED <<overlay, saves, clock, server, touched, pushedOver>>
    PROVE  IInv'
<1>1. ~overlay /\ modal # NoModal
  BY ModalNoOverlay
<1>2. Screens' /\ (stack # <<>> => mailbox' = Nothing) /\ (stack = <<>> => mailbox' = m)
  BY AppearTyped, NoModalTyped DEF IInv, TypeOK, Screens
<1>3. NoStaleMail'
  BY <1>1, <1>2 DEF NoStaleMail, IInv, OnTop
<1>4. Stacked'
  BY StackedStays DEF Appear
<1>. QED
  BY <1>1, <1>2, <1>3, <1>4, StepOfUser

LEMMA PickerCancelledKeeps ==
    ASSUME IInv, PickerCancelled PROVE IInv'
  BY DismissKeeps DEF IInv, TypeOK, PickerCancelled

LEMMA PickerDoneKeeps ==
    ASSUME IInv, NEW photo \in Photos, PickerDone(photo) PROVE IInv'
<1>1. forms \in [Forms -> Form]
  BY DEF IInv, TypeOK
<1>2. [forms EXCEPT ![modal.form].photo = photo] \in [Forms -> Form]
  BY <1>1 DEF Form
<1>. QED
  BY <1>2, DismissKeeps DEF IInv, TypeOK, PickerDone

LEMMA ConfirmKeeps ==
    ASSUME IInv, NEW address \in Place, DidTapConfirmButton(address) PROVE IInv'
<1>1. modal.kind # "none" /\ modal # NoModal
  BY ModalUncovers DEF DidTapConfirmButton
<1>2. stack # <<>> \/ "overlay" \in touched
  BY <1>1 DEF IInv, OnTop
<1>. QED
  BY <1>1, <1>2, DismissKeeps DEF IInv, TypeOK, DidTapConfirmButton

LEMMA BeginEditingKeeps ==
    ASSUME IInv, BeginEditing PROVE IInv'
<1>. USE DEF BeginEditing
<1>1. stack \in Seq(Forms) /\ stack # <<>> /\ modal = NoModal /\ ~overlay
  BY DEF IInv, TypeOK, OnForm
<1>2. [forms EXCEPT ![Last(stack)].editing = TRUE] \in [Forms -> Form]
  <2>1. forms \in [Forms -> Form]
    BY DEF IInv, TypeOK
  <2>. QED
    BY <2>1 DEF Form
<1>3. Screens'
  BY <1>2 DEF IInv, TypeOK, Screens
<1>4. NoStaleMail'
  BY DEF NoStaleMail, IInv
<1>. QED
  BY <1>1, <1>3, <1>4, StackedStays, StepOfUser

-----------------------------------------------------------------------------
(***************************************************************************)
(* The steps that the overlay does not keep away: the download of          *)
(* "modify", the keyboard, the tap on the overlay.                         *)
(***************************************************************************)

LEMMA AppearOthers ==
    ASSUME NEW s \in Seq(Forms), NEW fs \in [Forms -> Form], NEW m, Appear(s, fs, m)
    PROVE  \A g \in Forms : s = <<>> \/ g # Last(s) => forms'[g] = fs[g]
<1>1. CASE s = <<>>
  BY <1>1 DEF Appear
<1>2. CASE s # <<>>
  BY <1>2, TopOf DEF Appear
<1>. QED
  BY <1>1, <1>2

LEMMA ModifyKeeps ==
    ASSUME IInv, NEW f \in Forms, NEW content \in Content, ModifyCallback(f, content)
    PROVE  IInv'
<1>. DEFINE s == Append(stack, f)
            x == [EmptyForm EXCEPT !.point = content.point, !.texts = content.texts]
            fs == [forms EXCEPT ![f] = x]
<1>1. x \in Form
  BY DEF EmptyForm, Form, Content
<1>2. fs \in [Forms -> Form] /\ \A g \in Forms : g # f => fs[g] = forms[g]
  BY <1>1 DEF IInv, TypeOK
<1>3. s \in Seq(Forms) /\ s # <<>> /\ Last(s) = f
  <2>1. stack \in Seq(Forms)
    BY DEF IInv, TypeOK
  <2>. QED
    BY <2>1 DEF Last
<1>4. \/ Appear(s, fs, mailbox)
      \/ stack' = s /\ forms' = fs /\ mailbox' = mailbox
  BY DEF ModifyCallback, Restack
<1>5. UNCHANGED <<modal, overlay, saves, clock, server>> /\ f \notin Alive
  BY DEF ModifyCallback
<1>6. /\ touched' = touched \cup (IF stack = <<>> THEN {} ELSE {"push"})
      /\ pushedOver' = pushedOver \cup {i \in InFlight : saves[i].form \in Range(stack)}
  BY DEF ModifyCallback
<1>. HIDE DEF x, fs
<1>7. Screens' /\ stack' = s /\ mailbox' \in {mailbox, Nothing}
  BY <1>2, <1>3, <1>4, <1>5, AppearTyped DEF IInv, TypeOK, Screens
<1>8. \A g \in Forms : g # f => forms'[g] = forms[g]
  <2>1. CASE Appear(s, fs, mailbox)
    BY <1>2, <1>3, <2>1, AppearOthers
  <2>2. CASE forms' = fs
    BY <1>2, <2>2
  <2>. QED
    BY <1>4, <2>1, <2>2
<1>9. InFlight' = InFlight
  BY <1>5 DEF InFlight
<1>16. Stacked'
  <2>1. /\ stack \in Seq(Forms) /\ stack' = Append(stack, f)
        /\ \A m, n \in DOMAIN stack : stack[m] = stack[n] => m = n
    BY <1>7 DEF IInv, TypeOK, Stacked
  <2>2. /\ DOMAIN stack' = DOMAIN stack \cup {Len(stack) + 1}
        /\ stack'[Len(stack) + 1] = f /\ \A m \in DOMAIN stack : stack'[m] = stack[m]
    BY <2>1, Grown
  <2>3. f \notin Range(stack)
    BY <1>5 DEF Alive
  <2>4. \A m, n \in DOMAIN stack' : stack'[m] = stack'[n] => m = n
    BY <2>1, <2>2, <2>3 DEF Range
  <2>5. ASSUME NEW i \in InFlight, saves[i].form \in Range(stack') PROVE i \in pushedOver'
    <3>1. saves[i].form # f
      BY <1>5 DEF Alive
    <3>2. saves[i].form \in Range(stack)
      BY <2>2, <2>5, <3>1 DEF Range
    <3>. QED
      BY <1>6, <3>2
  <2>. QED
    BY <1>5, <1>9, <2>4, <2>5 DEF Stacked
<1>. HIDE DEF s
<1>10. TypeOK'
  <2>1. pushedOver' \subseteq DOMAIN saves'
    BY <1>5, <1>6 DEF IInv, TypeOK, InFlight
  <2>. QED
    BY <1>5, <1>6, <1>7, <2>1 DEF IInv, TypeOK, Screens, Interference, server
<1>11. Locked'
  BY <1>5, <1>6, <1>9 DEF IInv, Locked
<1>12. OnTop'
  BY <1>3, <1>5, <1>6, <1>7 DEF IInv, OnTop
<1>13. NoStaleMail'
  BY <1>6, <1>7 DEF IInv, NoStaleMail
<1>14. Stored'
  BY <1>5, <1>6, StoredKept
<1>15. TextsKept'
  <2>1. (touched' \cap {"overlay", "keyboard"} = {}) => (touched \cap {"overlay", "keyboard"} = {})
    BY <1>6
  <2>2. ASSUME NEW i \in DOMAIN saves, saves[i].phase \in {"uploading", "uploaded"}
        PROVE  ContentOf(saves[i].form)' = ContentOf(saves[i].form)
    <3>1. i \in InFlight
      BY <2>2 DEF InFlight
    <3>2. saves[i].form \in Forms /\ saves[i].form # f
      BY <1>5, <3>1, SaveFields DEF Alive, IInv, TypeOK
    <3>. QED
      BY <1>5, <1>8, <3>2 DEF ContentOf
  <2>. QED
    BY <1>5, <2>1, <2>2 DEF IInv, TextsKept
<1>. QED
  BY <1>10, <1>11, <1>12, <1>13, <1>14, <1>15, <1>16 DEF IInv, Stored

LEMMA TypeKeeps ==
    ASSUME IInv, NEW content \in Content, Type(content) PROVE IInv'
<1>. USE DEF Type
<1>1. stack \in Seq(Forms) /\ stack # <<>>
  BY DEF IInv, TypeOK
<1>2. Last(stack) \in Forms
  BY <1>1, TopOf
<1>3. forms' \in [Forms -> Form]
  <2>. DEFINE f == Last(stack)
              x == [forms[f] EXCEPT !.point = content.point, !.texts = content.texts]
  <2>1. forms[f] \in Form
    BY <1>2 DEF IInv, TypeOK
  <2>2. x \in Form
    BY <2>1 DEF Form, Content
  <2>3. forms' = [forms EXCEPT ![f] = x]
    BY <1>2 DEF IInv, TypeOK
  <2>. QED
    BY <1>2, <2>2, <2>3 DEF IInv, TypeOK
<1>4. TypeOK'
  BY <1>3 DEF IInv, TypeOK, Interference, server
<1>5. InFlight' = InFlight
  BY DEF InFlight
<1>6. Locked'
  BY <1>5 DEF IInv, Locked
<1>7. OnTop'
  BY DEF IInv, OnTop
<1>8. NoStaleMail'
  BY DEF IInv, NoStaleMail
<1>9. Stored'
  BY StoredKept
<1>10. TextsKept'
  <2>1. touched' \cap {"overlay", "keyboard"} = {} => ~overlay /\ "overlay" \notin touched
    OBVIOUS
  <2>. QED
    BY <2>1, NoneInFlight DEF TextsKept, InFlight
<1>. QED
  BY <1>4, <1>6, <1>7, <1>8, <1>9, <1>10, StackedStays DEF IInv, Stored

LEMMA ShouldReturnKeeps ==
    ASSUME IInv, ShouldReturn PROVE IInv'
<1>. USE DEF ShouldReturn
<1>1. stack \in Seq(Forms) /\ stack # <<>>
  BY DEF IInv, TypeOK
<1>2. Last(stack) \in Forms
  BY <1>1, TopOf
<1>3. forms' \in [Forms -> Form]
  <2>1. forms \in [Forms -> Form]
    BY DEF IInv, TypeOK
  <2>. QED
    BY <2>1 DEF Form
<1>4. TypeOK'
  BY <1>3 DEF IInv, TypeOK, server
<1>5. InFlight' = InFlight
  BY DEF InFlight
<1>6. Locked'
  BY <1>5 DEF IInv, Locked
<1>7. OnTop'
  BY DEF IInv, OnTop
<1>8. NoStaleMail'
  BY DEF IInv, NoStaleMail
<1>9. Stored'
  BY StoredKept
<1>10. \A f \in Forms : ContentOf(f)' = ContentOf(f)
  BY <1>2 DEF ContentOf, IInv, TypeOK, Form
<1>11. TextsKept'
  BY <1>10, SaveFields DEF IInv, TypeOK, TextsKept
<1>. QED
  BY <1>4, <1>6, <1>7, <1>8, <1>9, <1>11, StackedStays DEF IInv, Stored

LEMMA OverlayTapKeeps ==
    ASSUME IInv, OverlayDidTap PROVE IInv'
<1>. USE DEF OverlayDidTap, screen
<1>1. TypeOK'
  BY DEF IInv, TypeOK, Interference, server
<1>2. Stored'
  BY StoredKept
<1>3. Locked' /\ OnTop' /\ NoStaleMail' /\ TextsKept'
  BY DEF Locked, OnTop, NoStaleMail, TextsKept
<1>. QED
  BY <1>1, <1>2, <1>3, StackedStays DEF IInv, Stored

-----------------------------------------------------------------------------
(***************************************************************************)
(* The steps of a save.                                                    *)
(***************************************************************************)

LEMMA SaveKeeps ==
    ASSUME IInv, SaveFeedDidTap PROVE IInv'
<1>. DEFINE f == Last(stack)
            n == Len(saves) + 1
            r == [form |-> f, date |-> clock, tapped |-> ContentOf(f), photo |-> forms[f].photo,
                  phase |-> "uploading", upload |-> "running", wait |-> 0]
<1>1. /\ stack \in Seq(Forms) /\ stack # <<>> /\ modal = NoModal /\ ~overlay
      /\ saves \in Seq(Save) /\ clock \in Dates /\ forms \in [Forms -> Form]
  BY DEF IInv, TypeOK, SaveFeedDidTap, OnForm
<1>2. f \in Forms
  BY <1>1, TopOf
<1>3. forms[f].photo \in Photos /\ ContentOf(f) \in Content
  BY <1>1, <1>2, ContentTyped, FormFields DEF SaveFeedDidTap, Complete
<1>4. r \in Save
  BY <1>1, <1>2, <1>3 DEF Save
<1>5. /\ r.form = f /\ r.date = clock /\ r.tapped = ContentOf(f)
      /\ r.phase = "uploading"
  OBVIOUS
<1>6. /\ saves' = Append(saves, r) /\ overlay' = TRUE /\ clock < MaxClock
      /\ UNCHANGED <<screen, clock, server, touched>>
  BY DEF SaveFeedDidTap
<1>. HIDE DEF f, r
<1>7. /\ saves' \in Seq(Save) /\ n \notin DOMAIN saves /\ n \in Nat
      /\ DOMAIN saves' = DOMAIN saves \cup {n} /\ DOMAIN saves \subseteq 1..(n - 1)
      /\ saves'[n] = r /\ \A i \in DOMAIN saves : saves'[i] = saves[i]
  BY <1>1, <1>4, <1>6, Grown
<1>. HIDE DEF n
<1>8. InFlight' = InFlight \cup {n}
  BY <1>5, <1>7 DEF InFlight
<1>9. TypeOK'
  BY <1>6, <1>7 DEF IInv, TypeOK, screen, server
<1>10. Locked'
  BY <1>1, <1>6, <1>8, NoneInFlight DEF Locked, screen
<1>11. OnTop' /\ Stacked'
  <2>1. OnTop'
    BY <1>1, <1>6 DEF OnTop, screen
  <2>2. ASSUME NEW i \in InFlight' \ pushedOver', saves'[i].form \in Range(stack)
        PROVE  saves'[i].form = Last(stack)
    <3>1. CASE i = n
      BY <1>5, <1>7, <3>1 DEF f
    <3>2. CASE i # n
      BY <1>6, <1>7, <1>8, <2>2, <3>2 DEF IInv, Stacked, InFlight, screen
    <3>. QED
      BY <3>1, <3>2
  <2>. QED
    BY <1>6, <2>1, <2>2 DEF IInv, Stacked, screen
<1>12. NoStaleMail'
  BY <1>6 DEF IInv, NoStaleMail, screen
<1>13. UploadsStored'
  BY <1>5, <1>6, <1>7 DEF IInv, UploadsStored, server
<1>14. PhotoBeforeFeed'
  BY <1>6, <1>7 DEF IInv, PhotoBeforeFeed, server
<1>15. Stamped'
  BY <1>6, <1>7 DEF IInv, Stamped, server
<1>16. DatesApart'
  <2>. SUFFICES ASSUME "overlay" \notin touched
                PROVE  /\ \A i \in DOMAIN saves' : Elapsed(saves[i])'
                       /\ \A i, j \in DOMAIN saves' : i < j => saves'[i].date < saves'[j].date
    BY <1>6 DEF DatesApart
  <2>1. \A i \in DOMAIN saves : Elapsed(saves[i]) /\ saves[i].date < clock
    <3>. SUFFICES ASSUME NEW i \in DOMAIN saves PROVE Elapsed(saves[i]) /\ saves[i].date < clock
      OBVIOUS
    <3>1. Elapsed(saves[i])
      BY DEF IInv, DatesApart
    <3>2. saves[i].phase \in {"done", "lost"}
      BY <1>1, NoneInFlight DEF InFlight
    <3>. QED
      BY <1>1, <1>6, <3>1, <3>2 DEF Elapsed, Dates
  <2>2. \A i \in DOMAIN saves' : Elapsed(saves[i])'
    BY <1>1, <1>5, <1>6, <1>7, <2>1, BoundsAssumption DEF Elapsed, Dates
  <2>3. \A i, j \in DOMAIN saves : i < j => saves[i].date < saves[j].date
    BY DEF IInv, DatesApart
  <2>4. ASSUME NEW i \in DOMAIN saves', NEW j \in DOMAIN saves', i < j
        PROVE  saves'[i].date < saves'[j].date
    <3>1. i \in DOMAIN saves
      BY <1>7, <2>4
    <3>2. CASE j \in DOMAIN saves
      BY <1>7, <2>3, <2>4, <3>1, <3>2
    <3>3. CASE j = n
      BY <1>5, <1>7, <2>1, <3>1, <3>3
    <3>. QED
      BY <1>7, <3>2, <3>3
  <2>. QED
    BY <2>2, <2>4
<1>17. \A g \in Forms : ContentOf(g)' = ContentOf(g)
  BY <1>6 DEF ContentOf, screen
<1>18. TextsKept'
  <2>1. \A i \in DOMAIN saves : saves[i].form \in Forms
    BY <1>1, SaveFields
  <2>. QED
    BY <1>2, <1>5, <1>6, <1>7, <1>17, <2>1 DEF IInv, TextsKept
<1>19. WrittenAsShown'
  BY <1>5, <1>6, <1>7 DEF IInv, WrittenAsShown, server
<1>. QED
  BY <1>9, <1>10, <1>11, <1>12, <1>13, <1>14, <1>15, <1>16, <1>18, <1>19 DEF IInv

\* A step that moves save i on, and no other.
Moves(i, phase) ==
    /\ saves' \in Seq(Save) /\ DOMAIN saves' = DOMAIN saves
    /\ saves'[i].phase = phase /\ SameSave(saves[i], saves'[i])
    /\ \A j \in DOMAIN saves : j # i => saves'[j] = saves[j]

LEMMA UploadEndsMoves ==
    ASSUME IInv, NEW i \in DOMAIN saves, UploadEnds(i)
    PROVE  /\ Moves(i, "uploaded") /\ i \in InFlight
           /\ \/ /\ saves'[i].upload = "stored"
                 /\ images' = [images EXCEPT ![saves[i].date] = saves[i].photo]
              \/ saves'[i].upload = "failed" /\ UNCHANGED images
<1>1. saves \in Seq(Save) /\ saves[i] \in Save
  BY DEF IInv, TypeOK
<1>2. saves[i].wait \in Nat
  BY <1>1, SaveFields
<1>3. ASSUME NEW u \in {"stored", "failed"},
             saves' = [saves EXCEPT ![i].phase = "uploaded", ![i].upload = u]
      PROVE  Moves(i, "uploaded") /\ saves'[i].upload = u
  <2>. DEFINE r == [saves[i] EXCEPT !.phase = "uploaded", !.upload = u, !.wait = saves[i].wait]
  <2>1. r = [saves[i] EXCEPT !.phase = "uploaded", !.upload = u]
    BY <1>1 DEF Save
  <2>2. saves' = [saves EXCEPT ![i] = r]
    BY <1>3, <2>1
  <2>3. r \in Save /\ SameSave(saves[i], r) /\ r.phase = "uploaded" /\ r.upload = u
    BY <1>1, <1>2 DEF Save, SameSave
  <2>. HIDE DEF r
  <2>. QED
    BY <1>1, <2>2, <2>3, Replaced DEF Moves
<1>. QED
  BY <1>3 DEF UploadEnds, InFlight

LEMMA CompletionMoves ==
    ASSUME IInv, NEW i \in DOMAIN saves, UploadCompletion(i)
    PROVE  /\ Moves(i, "waiting") /\ i \in InFlight
           /\ saves'[i].upload = saves[i].upload /\ saves'[i].wait = Delay
<1>1. saves \in Seq(Save) /\ saves[i] \in Save
  BY DEF IInv, TypeOK
<1>2. saves[i].upload \in {"running", "stored", "failed"} /\ Delay \in Nat
  BY <1>1, SaveFields DEF Delay
<1>. DEFINE r == [saves[i] EXCEPT !.phase = "waiting", !.upload = saves[i].upload, !.wait = Delay]
<1>3. r = [saves[i] EXCEPT !.phase = "waiting", !.wait = Delay]
  BY <1>1 DEF Save
<1>4. saves' = [saves EXCEPT ![i] = r]
  BY <1>3 DEF UploadCompletion
<1>5. /\ r \in Save /\ SameSave(saves[i], r) /\ r.phase = "waiting"
      /\ r.upload = saves[i].upload /\ r.wait = Delay
  BY <1>1, <1>2 DEF Save, SameSave
<1>6. i \in InFlight
  BY DEF UploadCompletion, InFlight
<1>. HIDE DEF r
<1>. QED
  BY <1>1, <1>4, <1>5, <1>6, Replaced DEF Moves

LEMMA TimerMoves ==
    ASSUME IInv, NEW i \in DOMAIN saves, TimerFires(i)
    PROVE  Moves(i, "done") /\ i \in InFlight /\ saves'[i].upload = saves[i].upload
<1>1. saves \in Seq(Save) /\ saves[i] \in Save
  BY DEF IInv, TypeOK
<1>2. saves[i].upload \in {"running", "stored", "failed"} /\ saves[i].wait \in Nat
  BY <1>1, SaveFields
<1>. DEFINE r == [saves[i] EXCEPT !.phase = "done", !.upload = saves[i].upload,
                                  !.wait = saves[i].wait]
<1>3. r = [saves[i] EXCEPT !.phase = "done"]
  BY <1>1 DEF Save
<1>4. saves' = [saves EXCEPT ![i] = r]
  BY <1>3 DEF TimerFires, TimerEnds
<1>5. r \in Save /\ SameSave(saves[i], r) /\ r.phase = "done" /\ r.upload = saves[i].upload
  BY <1>1, <1>2 DEF Save, SameSave
<1>6. i \in InFlight
  BY DEF TimerFires, TimerEnds, InFlight
<1>. HIDE DEF r
<1>. QED
  BY <1>1, <1>4, <1>5, <1>6, Replaced DEF Moves

LEMMA FlightMoved ==
    ASSUME IInv, NEW i \in InFlight, NEW phase, Moves(i, phase)
    PROVE  /\ phase \notin {"done", "lost"} => InFlight' = InFlight
           /\ phase = "done" => InFlight' = InFlight \ {i}
  BY DEF Moves, InFlight

\* The screen under a save that only moves on.
LEMMA ScreenKept ==
    ASSUME IInv, NEW i \in InFlight, NEW phase \in {"uploaded", "waiting"}, Moves(i, phase),
           UNCHANGED <<screen, overlay, touched>>
    PROVE  Locked' /\ OnTop' /\ Stacked' /\ NoStaleMail'
<1>1. InFlight' = InFlight
  BY FlightMoved
<1>2. \A j \in InFlight : saves'[j].form = saves[j].form
  BY DEF Moves, SameSave, InFlight
<1>3. Locked'
  BY <1>1 DEF IInv, Locked, screen
<1>4. OnTop'
  BY DEF IInv, OnTop, screen
<1>5. Stacked'
  BY <1>1, <1>2, StackedKept DEF screen
<1>. QED
  BY <1>3, <1>4, <1>5 DEF IInv, NoStaleMail, screen

LEMMA DatesMoved ==
    ASSUME IInv, NEW i \in DOMAIN saves, NEW phase, Moves(i, phase),
           UNCHANGED <<clock, touched>>,
           "overlay" \notin touched => Elapsed(saves[i])'
    PROVE  DatesApart'
<1>. SUFFICES ASSUME "overlay" \notin touched
              PROVE  /\ \A j \in DOMAIN saves' : Elapsed(saves[j])'
                     /\ \A j, k \in DOMAIN saves' : j < k => saves'[j].date < saves'[k].date
  BY DEF DatesApart
<1>1. /\ \A j \in DOMAIN saves : Elapsed(saves[j])
      /\ \A j, k \in DOMAIN saves : j < k => saves[j].date < saves[k].date
  BY DEF IInv, DatesApart
<1>2. \A j \in DOMAIN saves' : Elapsed(saves[j])'
  BY <1>1 DEF Moves, Elapsed
<1>3. \A j \in DOMAIN saves : saves'[j].date = saves[j].date
  BY DEF Moves, SameSave
<1>. QED
  BY <1>1, <1>2, <1>3 DEF Moves

\* Two saves of one date are one.
LEMMA DatesDiffer ==
    ASSUME IInv, "overlay" \notin touched, NEW i \in DOMAIN saves, NEW j \in DOMAIN saves,
           saves[i].date = saves[j].date
    PROVE  i = j
<1>1. saves \in Seq(Save)
  BY DEF IInv, TypeOK
<1>2. i \in Nat /\ j \in Nat /\ saves[i].date \in Nat
  BY <1>1, SaveFields, BoundsAssumption DEF Dates
<1>3. ~(i < j) /\ ~(j < i)
  BY <1>2 DEF IInv, DatesApart
<1>. QED
  BY <1>2, <1>3

LEMMA UploadEndsKeeps ==
    ASSUME IInv, NEW i \in DOMAIN saves, UploadEnds(i) PROVE IInv'
<1>1. /\ Moves(i, "uploaded") /\ i \in InFlight
      /\ \/ /\ saves'[i].upload = "stored"
            /\ images' = [images EXCEPT ![saves[i].date] = saves[i].photo]
         \/ saves'[i].upload = "failed" /\ UNCHANGED images
  BY UploadEndsMoves
<1>2. UNCHANGED <<screen, overlay, clock, docs, touched>> /\ saves[i].phase = "uploading"
  BY DEF UploadEnds
<1>3. saves \in Seq(Save) /\ saves[i] \in Save /\ images \in [Dates -> Photos \cup {Nothing}]
  BY DEF IInv, TypeOK
<1>4. /\ saves[i].date \in Dates /\ saves[i].photo \in Photos
      /\ Nothing \notin Photos /\ saves'[i].date = saves[i].date
  BY <1>1, <1>3, SaveFields, NothingAssumption DEF Moves, SameSave
<1>5. /\ images' \in [Dates -> Photos \cup {Nothing}]
      /\ \A d \in Dates : images'[d] = Nothing => images[d] = Nothing
      /\ \A d \in Dates : d # saves[i].date => images'[d] = images[d]
      /\ saves'[i].upload = "failed" \/ images'[saves[i].date] # Nothing
  BY <1>1, <1>3, <1>4
<1>6. TypeOK'
  BY <1>1, <1>2, <1>5 DEF IInv, TypeOK, Moves, screen
<1>7. Locked' /\ OnTop' /\ Stacked' /\ NoStaleMail'
  BY <1>1, <1>2, ScreenKept
<1>8. UploadsStored'
  <2>1. ASSUME NEW j \in DOMAIN saves, j # i, saves[j].phase = "uploaded",
               saves[j].upload # "failed"
        PROVE  images'[saves[j].date] # Nothing
    BY <1>3, <1>5, <2>1, SaveFields DEF IInv, UploadsStored
  <2>. QED
    BY <1>1, <1>4, <1>5, <2>1 DEF UploadsStored, Moves
<1>9. PhotoBeforeFeed'
  <2>. SUFFICES ASSUME NEW d \in Dates, docs[d] # Nothing, images'[d] = Nothing
                PROVE  \E j \in DOMAIN saves : saves'[j].date = d /\ saves'[j].upload = "failed"
    BY <1>1, <1>2 DEF PhotoBeforeFeed, Moves
  <2>1. PICK j \in DOMAIN saves : saves[j].date = d /\ saves[j].upload = "failed"
    BY <1>5 DEF IInv, PhotoBeforeFeed
  <2>2. CASE j = i
    BY <1>4, <1>5, <2>1, <2>2
  <2>3. CASE j # i
    BY <1>1, <2>1, <2>3 DEF Moves
  <2>. QED
    BY <2>2, <2>3
<1>10. Stamped'
  <2>. SUFFICES ASSUME NEW d \in Dates
                PROVE  /\ images'[d] # Nothing =>
                             \E j \in DOMAIN saves : saves'[j].date = d /\ saves'[j].phase # "uploading"
                       /\ docs[d] # Nothing =>
                             \E j \in DOMAIN saves : /\ saves'[j].date = d
                                                     /\ saves'[j].phase \notin {"uploading", "uploaded"}
    BY <1>1, <1>2 DEF Stamped, Moves
  <2>1. CASE d = saves[i].date
    BY <1>1, <1>2, <1>4, <2>1 DEF IInv, Stamped, Moves
  <2>2. CASE d # saves[i].date
    BY <1>1, <1>2, <1>5, <2>2 DEF IInv, Stamped, Moves
  <2>. QED
    BY <2>1, <2>2
<1>11. DatesApart'
  <2>1. "overlay" \notin touched => Elapsed(saves[i])'
    BY <1>1, <1>2, <1>4 DEF IInv, DatesApart, Elapsed, Moves
  <2>. QED
    BY <1>1, <1>2, <2>1, DatesMoved
<1>12. \A f : ContentOf(f)' = ContentOf(f)
  BY <1>2 DEF ContentOf, screen
<1>13. TextsKept'
  BY <1>1, <1>2, <1>12 DEF IInv, TextsKept, Moves, SameSave
<1>14. WrittenAsShown'
  BY <1>1, <1>2 DEF IInv, WrittenAsShown, Moves
<1>. QED
  BY <1>6, <1>7, <1>8, <1>9, <1>10, <1>11, <1>13, <1>14 DEF IInv

LEMMA CompletionKeeps ==
    ASSUME IInv, NEW i \in DOMAIN saves, UploadCompletion(i) PROVE IInv'
<1>1. /\ Moves(i, "waiting") /\ i \in InFlight
      /\ saves'[i].upload = saves[i].upload /\ saves'[i].wait = Delay
  BY CompletionMoves
<1>2. /\ docs' = [docs EXCEPT ![saves[i].date] = ContentOf(saves[i].form)]
      /\ UNCHANGED <<screen, overlay, clock, images, touched>> /\ saves[i].phase = "uploaded"
  BY DEF UploadCompletion
<1>3. /\ saves \in Seq(Save) /\ saves[i] \in Save /\ forms \in [Forms -> Form]
      /\ docs \in [Dates -> Content \cup {Nothing}]
  BY DEF IInv, TypeOK
<1>4. /\ saves[i].date \in Dates /\ ContentOf(saves[i].form) \in Content
      /\ saves'[i].date = saves[i].date
  BY <1>1, <1>3, SaveFields, ContentTyped DEF Moves, SameSave
<1>5. /\ docs' \in [Dates -> Content \cup {Nothing}]
      /\ docs'[saves[i].date] = ContentOf(saves[i].form)
      /\ \A d \in Dates : d # saves[i].date => docs'[d] = docs[d]
  BY <1>2, <1>3, <1>4
<1>6. TypeOK'
  BY <1>1, <1>2, <1>5 DEF IInv, TypeOK, Moves, screen
<1>7. Locked' /\ OnTop' /\ Stacked' /\ NoStaleMail'
  BY <1>1, <1>2, ScreenKept
<1>8. UploadsStored'
  BY <1>1, <1>2 DEF IInv, UploadsStored, Moves
<1>9. PhotoBeforeFeed'
  <2>1. \A j \in DOMAIN saves : saves'[j].date = saves[j].date /\ saves'[j].upload = saves[j].upload
    BY <1>1, <1>4 DEF Moves
  <2>2. images[saves[i].date] = Nothing => saves[i].upload = "failed"
    BY <1>2 DEF IInv, UploadsStored
  <2>. SUFFICES ASSUME NEW d \in Dates, docs'[d] # Nothing, images[d] = Nothing
                PROVE  \E j \in DOMAIN saves : saves[j].date = d /\ saves[j].upload = "failed"
    BY <1>1, <1>2, <2>1 DEF PhotoBeforeFeed, Moves
  <2>3. CASE d = saves[i].date
    BY <2>2, <2>3
  <2>4. CASE d # saves[i].date
    BY <1>5, <2>4 DEF IInv, PhotoBeforeFeed
  <2>. QED
    BY <2>3, <2>4
<1>10. Stamped'
  <2>. SUFFICES ASSUME NEW d \in Dates
                PROVE  /\ images[d] # Nothing =>
                             \E j \in DOMAIN saves : saves'[j].date = d /\ saves'[j].phase # "uploading"
                       /\ docs'[d] # Nothing =>
                             \E j \in DOMAIN saves : /\ saves'[j].date = d
                                                     /\ saves'[j].phase \notin {"uploading", "uploaded"}
    BY <1>1, <1>2 DEF Stamped, Moves
  <2>1. CASE d = saves[i].date
    BY <1>1, <1>4, <2>1 DEF Moves
  <2>2. CASE d # saves[i].date
    BY <1>1, <1>5, <2>2 DEF IInv, Stamped, Moves, SameSave
  <2>. QED
    BY <2>1, <2>2
<1>11. DatesApart'
  <2>1. "overlay" \notin touched => Elapsed(saves[i])'
    <3>1. saves[i].date \in Nat /\ clock \in Nat
      BY <1>4, BoundsAssumption DEF Dates, IInv, TypeOK
    <3>. QED
      BY <1>1, <1>2, <1>4, <3>1 DEF IInv, DatesApart, Elapsed, Moves, Delay
  <2>. QED
    BY <1>1, <1>2, <2>1, DatesMoved
<1>12. \A f : ContentOf(f)' = ContentOf(f)
  BY <1>2 DEF ContentOf, screen
<1>13. TextsKept'
  BY <1>1, <1>2, <1>12 DEF IInv, TextsKept, Moves, SameSave
<1>14. WrittenAsShown'
  <2>. SUFFICES ASSUME touched \cap {"overlay", "keyboard"} = {}, NEW j \in DOMAIN saves,
                       saves'[j].phase \in {"waiting", "done"}
                PROVE  docs'[saves'[j].date] = saves'[j].tapped
    BY <1>1, <1>2 DEF WrittenAsShown, Moves
  <2>1. CASE j = i
    BY <1>1, <1>2, <1>5, <2>1 DEF IInv, TextsKept, Moves, SameSave
  <2>2. CASE j # i
    <3>1. saves'[j] = saves[j] /\ docs[saves[j].date] = saves[j].tapped
      BY <1>1, <2>2 DEF IInv, WrittenAsShown, Moves
    <3>2. saves[j].date # saves[i].date /\ saves[j].date \in Dates
      BY <1>3, <2>2, DatesDiffer, SaveFields
    <3>. QED
      BY <1>5, <3>1, <3>2
  <2>. QED
    BY <2>1, <2>2
<1>. QED
  BY <1>6, <1>7, <1>8, <1>9, <1>10, <1>11, <1>13, <1>14 DEF IInv

\* What the timer pops: the top screen of the saver's stack, if it is on one.
LEMMA TimerPops ==
    ASSUME IInv, NEW i \in DOMAIN saves, TimerFires(i)
    PROVE  \/ /\ saves[i].form \in Range(stack) /\ stack # <<>> /\ stack' = Front(stack)
              /\ Len(stack) - 1 \in Nat /\ Len(stack) - 1 < Len(stack)
              /\ Restack(Front(stack), Released(forms, Front(stack), InFlight \ {i}))
           \/ /\ saves[i].form \notin Range(stack) /\ UNCHANGED <<stack, mailbox>>
              /\ forms' = Released(forms, stack, InFlight \ {i})
<1>1. stack \in Seq(Forms)
  BY DEF IInv, TypeOK
<1>2. CASE saves[i].form \in Range(stack)
  <2>1. stack # <<>> /\ Len(stack) - 1 \in Nat
    BY <1>1, <1>2 DEF Range
  <2>2. Restack(Front(stack), Released(forms, Front(stack), InFlight \ {i}))
    BY <1>2 DEF TimerFires, TimerEnds
  <2>3. stack' = Front(stack)
    BY <2>2 DEF Restack, Appear
  <2>. QED
    BY <1>1, <1>2, <2>1, <2>2, <2>3
<1>3. CASE saves[i].form \notin Range(stack)
  BY <1>3 DEF TimerFires, TimerEnds
<1>. QED
  BY <1>2, <1>3

LEMMA TimerKeeps ==
    ASSUME IInv, NEW i \in DOMAIN saves, TimerFires(i) PROVE IInv'
<1>1. Moves(i, "done") /\ i \in InFlight /\ saves'[i].upload = saves[i].upload
  BY TimerMoves
<1>2. /\ overlay' = FALSE /\ UNCHANGED <<modal, clock, images, docs, touched, pushedOver>>
      /\ saves[i].phase = "waiting" /\ saves[i].wait = 0
  BY DEF TimerFires, TimerEnds, server
<1>3. /\ stack \in Seq(Forms) /\ forms \in [Forms -> Form]
      /\ saves \in Seq(Save) /\ saves[i] \in Save
  BY DEF IInv, TypeOK
<1>4. InFlight' = InFlight \ {i}
  BY <1>1, FlightMoved
<1>5. "overlay" \notin touched => InFlight' = {} /\ overlay /\ modal = NoModal
  BY <1>1, <1>4 DEF IInv, Locked
<1>6. /\ forms' \in [Forms -> Form] /\ stack' \in Seq(Forms)
      /\ mailbox' \in {mailbox, Nothing}
  <2>1. CASE saves[i].form \in Range(stack)
    <3>. DEFINE s == Front(stack)
                fs == Released(forms, s, InFlight \ {i})
    <3>1. s \in Seq(Forms) /\ fs \in [Forms -> Form]
      BY <1>3, <2>1, TimerPops, TopOf, ReleasedTyped
    <3>2. \/ Appear(s, fs, mailbox)
          \/ stack' = s /\ forms' = fs /\ mailbox' = mailbox
      BY <2>1, TimerPops DEF Restack
    <3>. HIDE DEF s, fs
    <3>. QED
      BY <3>1, <3>2, AppearTyped DEF IInv, TypeOK
  <2>2. CASE saves[i].form \notin Range(stack)
    <3>1. forms' = Released(forms, stack, InFlight \ {i}) /\ UNCHANGED <<stack, mailbox>>
      BY <2>2, TimerPops
    <3>2. forms' \in [Forms -> Form]
      BY <1>3, <3>1, ReleasedTyped
    <3>. QED
      BY <1>3, <3>1, <3>2
  <2>. QED
    BY <2>1, <2>2
<1>17. Stacked'
  <2>1. \A j \in InFlight' : saves'[j].form = saves[j].form
    BY <1>1, <1>4 DEF Moves, InFlight
  <2>2. stack' = stack \/ \E k \in Nat : k < Len(stack) /\ stack' = SubSeq(stack, 1, k)
    BY TimerPops DEF Front
  <2>. QED
    BY <1>2, <1>4, <2>1, <2>2, StackedKept
<1>7. TypeOK'
  BY <1>1, <1>2, <1>6 DEF IInv, TypeOK, Moves
<1>8. Locked'
  BY <1>2, <1>5 DEF Locked
<1>9. OnTop'
  BY <1>2, <1>5 DEF OnTop
<1>10. NoStaleMail'
  BY <1>2, <1>6 DEF IInv, NoStaleMail
<1>11. UploadsStored'
  BY <1>1, <1>2 DEF IInv, UploadsStored, Moves
<1>12. PhotoBeforeFeed'
  <2>1. \A j \in DOMAIN saves : saves'[j].date = saves[j].date /\ saves'[j].upload = saves[j].upload
    BY <1>1 DEF Moves, SameSave
  <2>. QED
    BY <1>1, <1>2, <2>1 DEF IInv, PhotoBeforeFeed, Moves
<1>13. Stamped'
  <2>1. \A j \in DOMAIN saves : /\ saves'[j].date = saves[j].date
                                /\ saves[j].phase # "uploading" => saves'[j].phase # "uploading"
                                /\ saves[j].phase \notin {"uploading", "uploaded"}
                                      => saves'[j].phase \notin {"uploading", "uploaded"}
    BY <1>1 DEF Moves, SameSave
  <2>. QED
    BY <1>1, <1>2, <2>1 DEF IInv, Stamped, Moves
<1>14. DatesApart'
  <2>1. "overlay" \notin touched => Elapsed(saves[i])'
    <3>1. saves[i].date \in Nat /\ clock \in Nat
      BY <1>3, SaveFields, BoundsAssumption DEF Dates, IInv, TypeOK
    <3>. QED
      BY <1>1, <1>2, <3>1 DEF IInv, DatesApart, Elapsed, Moves, SameSave, Delay
  <2>. QED
    BY <1>1, <1>2, <2>1, DatesMoved
<1>15. TextsKept'
  BY <1>2, <1>5 DEF TextsKept, InFlight
<1>16. WrittenAsShown'
  BY <1>1, <1>2 DEF IInv, WrittenAsShown, Moves, SameSave
<1>. QED
  BY <1>7, <1>8, <1>9, <1>10, <1>11, <1>12, <1>13, <1>14, <1>15, <1>16, <1>17 DEF IInv

-----------------------------------------------------------------------------
(***************************************************************************)
(* Time and the process.                                                   *)
(***************************************************************************)

LEMMA SecondPasses ==
    ASSUME NEW d \in Nat, NEW w \in Nat, NEW v \in Nat, NEW c \in Nat,
           v >= w - 1, d + Delay <= c + w
    PROVE  d + Delay <= (c + 1) + v
  BY DEF Delay

LEMMA TickKeeps ==
    ASSUME IInv, Tick PROVE IInv'
<1>. DEFINE left(w) == IF w > 0 THEN w - 1 ELSE w
<1>1. saves \in Seq(Save) /\ clock \in Dates /\ clock \in Nat /\ MaxClock \in Nat
  BY BoundsAssumption DEF IInv, TypeOK, Dates
<1>2. /\ clock' = IF clock < MaxClock THEN clock + 1 ELSE clock
      /\ UNCHANGED <<screen, overlay, server, touched>>
  BY DEF Tick
<1>3. saves' = [i \in DOMAIN saves |-> [saves[i] EXCEPT !.wait = left(saves[i].wait)]]
  BY DEF Tick
<1>4. ASSUME NEW i \in DOMAIN saves
      PROVE  /\ saves'[i] \in Save /\ SameSave(saves[i], saves'[i])
             /\ saves'[i].phase = saves[i].phase /\ saves'[i].upload = saves[i].upload
             /\ saves'[i].wait = left(saves[i].wait)
  <2>1. saves[i] \in Save
    BY <1>1
  <2>2. left(saves[i].wait) \in Nat
    BY <2>1, SaveFields
  <2>3. saves'[i] = [saves[i] EXCEPT !.wait = left(saves[i].wait)]
    BY <1>3
  <2>. QED
    BY <2>1, <2>2, <2>3 DEF Save, SameSave
<1>5. saves' \in Seq(Save) /\ DOMAIN saves' = DOMAIN saves
  <2>1. saves' = [i \in DOMAIN saves |-> saves'[i]]
    BY <1>3
  <2>. HIDE DEF left
  <2>. QED
    BY <1>1, <1>4, <2>1, Mapped
<1>. USE DEF SameSave
<1>. HIDE DEF left
<1>6. clock' \in Dates
  BY <1>1, <1>2 DEF Dates
<1>7. InFlight' = InFlight
  BY <1>4, <1>5 DEF InFlight
<1>8. TypeOK'
  BY <1>2, <1>5, <1>6 DEF IInv, TypeOK, screen, server
<1>9. Locked'
  BY <1>2, <1>7 DEF IInv, Locked, screen
<1>10. OnTop' /\ Stacked'
  <2>1. OnTop'
    BY <1>2 DEF IInv, OnTop, screen
  <2>2. \A i \in InFlight' : saves'[i].form = saves[i].form
    BY <1>4, <1>7 DEF InFlight
  <2>. QED
    BY <1>2, <1>7, <2>1, <2>2, StackedKept DEF screen
<1>11. NoStaleMail'
  BY <1>2 DEF IInv, NoStaleMail, screen
<1>12. UploadsStored'
  BY <1>2, <1>4, <1>5 DEF IInv, UploadsStored, server
<1>13. PhotoBeforeFeed'
  BY <1>2, <1>4, <1>5 DEF IInv, PhotoBeforeFeed, server
<1>14. Stamped'
  BY <1>2, <1>4, <1>5 DEF IInv, Stamped, server
<1>15. DatesApart'
  <2>. SUFFICES ASSUME "overlay" \notin touched
                PROVE  /\ \A i \in DOMAIN saves' : Elapsed(saves[i])'
                       /\ \A i, j \in DOMAIN saves' : i < j => saves'[i].date < saves'[j].date
    BY <1>2 DEF DatesApart
  <2>1. ASSUME NEW i \in DOMAIN saves PROVE Elapsed(saves[i])'
    <3>1. Elapsed(saves[i])
      BY DEF IInv, DatesApart
    <3>2. saves[i].wait \in Nat /\ saves[i].date \in Nat
      BY <1>1, SaveFields DEF Dates
    <3>3. saves'[i].date = saves[i].date /\ saves'[i].phase = saves[i].phase
      BY <1>4
    <3>4. saves'[i].wait \in Nat /\ saves'[i].wait >= saves[i].wait - 1
      BY <1>4, <3>2 DEF left
    <3>5. \/ clock < MaxClock /\ clock' = clock + 1
          \/ clock = MaxClock /\ clock' = clock
      <4>1. clock <= MaxClock
        BY <1>1 DEF Dates
      <4>. QED
        BY <1>1, <1>2, <4>1
    <3>6. clock' \in Nat /\ clock <= clock' /\ (clock = MaxClock => clock' = MaxClock)
      BY <1>1, <3>5
    <3>7. saves'[i].date <= clock'
      BY <1>1, <3>1, <3>2, <3>3, <3>6 DEF Elapsed
    <3>8. saves'[i].phase = "waiting" =>
              clock' = MaxClock \/ saves'[i].date + Delay <= clock' + saves'[i].wait
      <4>. SUFFICES ASSUME saves[i].phase = "waiting", clock' # MaxClock
                    PROVE  saves'[i].date + Delay <= clock' + saves'[i].wait
        BY <3>3
      <4>1. saves[i].date + Delay <= clock + saves[i].wait
        BY <3>1, <3>6 DEF Elapsed
      <4>2. clock' = clock + 1
        BY <3>5, <3>6
      <4>3. saves[i].date + Delay <= (clock + 1) + saves'[i].wait
        BY <1>1, <3>2, <3>4, <4>1, SecondPasses
      <4>. QED
        BY <3>3, <4>2, <4>3
    <3>9. /\ saves'[i].phase = "done" => clock' = MaxClock \/ saves'[i].date < clock'
          /\ saves'[i].phase = "lost" => saves'[i].date < clock'
      BY <1>1, <3>1, <3>2, <3>3, <3>6 DEF Elapsed
    <3>. QED
      BY <3>7, <3>8, <3>9 DEF Elapsed
  <2>2. \A i, j \in DOMAIN saves : i < j => saves[i].date < saves[j].date
    BY DEF IInv, DatesApart
  <2>. QED
    BY <1>4, <1>5, <2>1, <2>2
<1>16. \A f : ContentOf(f)' = ContentOf(f)
  BY <1>2 DEF ContentOf, screen
<1>17. TextsKept'
  BY <1>2, <1>4, <1>5, <1>16 DEF IInv, TextsKept
<1>18. WrittenAsShown'
  BY <1>2, <1>4, <1>5 DEF IInv, WrittenAsShown, server
<1>. QED
  BY <1>8, <1>9, <1>10, <1>11, <1>12, <1>13, <1>14, <1>15, <1>17, <1>18 DEF IInv

LEMMA RestartKeeps ==
    ASSUME IInv, Restart PROVE IInv'
<1>1. saves \in Seq(Save) /\ clock \in Dates /\ clock \in Nat /\ MaxClock \in Nat
  BY BoundsAssumption DEF IInv, TypeOK, Dates
<1>2. /\ clock < MaxClock /\ clock' = clock + 1
      /\ stack' = <<>> /\ modal' = NoModal /\ mailbox' = Nothing /\ overlay' = FALSE
      /\ forms' = [f \in Forms |-> EmptyForm]
      /\ UNCHANGED <<server, touched, pushedOver>>
  BY DEF Restart
<1>3. saves' = [i \in DOMAIN saves |->
                   IF i \in InFlight
                   THEN [saves[i] EXCEPT !.phase = "lost", !.wait = 0] ELSE saves[i]]
  BY DEF Restart
<1>4. ASSUME NEW i \in DOMAIN saves
      PROVE  /\ saves'[i] \in Save /\ SameSave(saves[i], saves'[i])
             /\ saves'[i].upload = saves[i].upload
             /\ saves'[i].phase = IF i \in InFlight THEN "lost" ELSE saves[i].phase
  <2>1. saves[i] \in Save
    BY <1>1
  <2>2. CASE i \in InFlight
    <3>1. saves'[i] = [saves[i] EXCEPT !.phase = "lost", !.wait = 0]
      BY <1>3, <2>2
    <3>2. saves'[i] \in Save
      BY <2>1, <3>1, SaveLost
    <3>3. saves'[i].phase = "lost" /\ saves'[i].upload = saves[i].upload
      BY <2>1, <3>1 DEF Save
    <3>4. SameSave(saves[i], saves'[i])
      BY <2>1, <3>1 DEF Save, SameSave
    <3>. QED
      BY <2>2, <3>2, <3>3, <3>4
  <2>3. CASE i \notin InFlight
    <3>1. saves'[i] = saves[i]
      BY <1>3, <2>3
    <3>. QED
      BY <2>1, <2>3, <3>1 DEF SameSave
  <2>. QED
    BY <2>2, <2>3
<1>5. DOMAIN saves' = DOMAIN saves /\ saves' \in Seq(Save)
  <2>1. saves' = [i \in DOMAIN saves |-> saves'[i]]
    BY <1>3
  <2>. QED
    BY <1>1, <1>4, <2>1, Mapped
<1>6. \A i \in DOMAIN saves : saves'[i].phase \in {"done", "lost"}
                             /\ (saves'[i].phase = "lost" => i \in InFlight \/ saves[i].phase = "lost")
                             /\ (saves'[i].phase = "done" => saves[i].phase = "done")
  BY <1>4 DEF InFlight
<1>7. InFlight' = {}
  BY <1>5, <1>6 DEF InFlight
<1>8. TypeOK'
  <2>1. forms' \in [Forms -> Form]
    BY <1>2, EmptyTyped
  <2>2. clock' \in Dates
    BY <1>1, <1>2 DEF Dates
  <2>3. stack' \in Seq(Forms)
    BY <1>2
  <2>. QED
    BY <1>2, <1>5, <2>1, <2>2, <2>3, NoModalTyped DEF IInv, TypeOK, server
<1>9. Locked' /\ OnTop' /\ Stacked' /\ NoStaleMail'
  BY <1>2, <1>7 DEF Locked, OnTop, Stacked, NoStaleMail
<1>10. UploadsStored' /\ TextsKept'
  BY <1>5, <1>6 DEF UploadsStored, TextsKept
<1>11. PhotoBeforeFeed'
  BY <1>2, <1>4, <1>5 DEF IInv, PhotoBeforeFeed, server, SameSave
<1>12. Stamped'
  BY <1>2, <1>4, <1>5, <1>6 DEF IInv, Stamped, server, SameSave
<1>13. DatesApart'
  <2>. SUFFICES ASSUME "overlay" \notin touched
                PROVE  /\ \A i \in DOMAIN saves' : Elapsed(saves[i])'
                       /\ \A i, j \in DOMAIN saves' : i < j => saves'[i].date < saves'[j].date
    BY <1>2 DEF DatesApart
  <2>1. ASSUME NEW i \in DOMAIN saves PROVE Elapsed(saves[i])'
    <3>1. Elapsed(saves[i])
      BY DEF IInv, DatesApart
    <3>2. saves'[i].date = saves[i].date /\ saves[i].date \in Nat
      BY <1>1, <1>4, SaveFields DEF Dates, SameSave
    <3>. QED
      BY <1>1, <1>2, <1>6, <3>1, <3>2 DEF Elapsed
  <2>2. \A i, j \in DOMAIN saves : i < j => saves[i].date < saves[j].date
    BY DEF IInv, DatesApart
  <2>. QED
    BY <1>4, <1>5, <2>1, <2>2 DEF SameSave
<1>14. WrittenAsShown'
  BY <1>2, <1>4, <1>5, <1>6 DEF IInv, WrittenAsShown, server, SameSave
<1>. QED
  BY <1>8, <1>9, <1>10, <1>11, <1>12, <1>13, <1>14 DEF IInv

-----------------------------------------------------------------------------
LEMMA InitIInv == Init => IInv
<1>. SUFFICES ASSUME Init PROVE IInv
  OBVIOUS
<1>. USE DEF Init
<1>1. TypeOK
  <2>1. forms \in [Forms -> Form] /\ stack \in Seq(Forms) /\ saves \in Seq(Save)
    BY EmptyTyped
  <2>2. clock \in Dates
    BY BoundsAssumption DEF Dates
  <2>3. images \in [Dates -> Photos \cup {Nothing}] /\ docs \in [Dates -> Content \cup {Nothing}]
    OBVIOUS
  <2>. QED
    BY <2>1, <2>2, <2>3, NoModalTyped DEF TypeOK
<1>2. saves = <<>> /\ DOMAIN saves = {}
  OBVIOUS
<1>3. InFlight = {}
  BY <1>2 DEF InFlight
<1>4. Locked /\ OnTop /\ Stacked /\ NoStaleMail
  BY <1>3 DEF Locked, OnTop, Stacked, NoStaleMail
<1>5. UploadsStored /\ DatesApart /\ TextsKept /\ WrittenAsShown
  BY <1>2 DEF UploadsStored, DatesApart, TextsKept, WrittenAsShown
<1>6. PhotoBeforeFeed /\ Stamped
  BY DEF PhotoBeforeFeed, Stamped
<1>. QED
  BY <1>1, <1>4, <1>5, <1>6 DEF IInv

LEMMA NextKeeps == IInv /\ [Next]_vars => IInv'
<1>. SUFFICES ASSUME IInv, [Next]_vars PROVE IInv'
  OBVIOUS
<1>1. ASSUME NEW f \in Forms, PlusButtonDidTap(f) PROVE IInv'
  BY <1>1, PlusKeeps
<1>2. ASSUME NEW f \in Forms, NEW content \in Content, ModifyCallback(f, content) PROVE IInv'
  BY <1>2, ModifyKeeps
<1>3. ASSUME NEW k \in {0, Len(stack) - 1}, BackDidTap(k) PROVE IInv'
  BY <1>3, BackKeeps
<1>4. CASE SwipeCancelled
  BY <1>4, SwipeKeeps
<1>5. ASSUME NEW kind \in {"sheet", "location"}, Present(kind) PROVE IInv'
  BY <1>5, PresentKeeps
<1>6. ASSUME NEW kind \in {"picker", "none"}, SheetDone(kind) PROVE IInv'
  BY <1>6, SheetKeeps
<1>7. ASSUME NEW photo \in Photos, PickerDone(photo) PROVE IInv'
  BY <1>7, PickerDoneKeeps
<1>8. CASE PickerCancelled
  BY <1>8, PickerCancelledKeeps
<1>9. ASSUME NEW address \in Place, DidTapConfirmButton(address) PROVE IInv'
  BY <1>9, ConfirmKeeps
<1>10. CASE BeginEditing \/ ShouldReturn
  BY <1>10, BeginEditingKeeps, ShouldReturnKeeps
<1>11. ASSUME NEW content \in Content, Type(content) PROVE IInv'
  BY <1>11, TypeKeeps
<1>12. CASE SaveFeedDidTap \/ OverlayDidTap
  BY <1>12, SaveKeeps, OverlayTapKeeps
<1>13. CASE SaveStep
  BY <1>13, UploadEndsKeeps, CompletionKeeps, TimerKeeps DEF SaveStep
<1>14. CASE Tick \/ Restart
  BY <1>14, TickKeeps, RestartKeeps
<1>15. CASE UNCHANGED vars
  <2>. USE <1>15 DEF vars, screen, server
  <2>1. InFlight' = InFlight
    BY DEF InFlight
  <2>2. TypeOK'
    BY DEF IInv, TypeOK
  <2>3. Locked' /\ OnTop' /\ Stacked' /\ NoStaleMail'
    BY <2>1, StackedStays DEF IInv, Locked, OnTop, NoStaleMail
  <2>4. Stored'
    BY StoredKept
  <2>5. TextsKept'
    BY DEF IInv, TextsKept, ContentOf
  <2>. QED
    BY <2>2, <2>3, <2>4, <2>5 DEF IInv, Stored
<1>. QED
  BY <1>1, <1>2, <1>3, <1>4, <1>5, <1>6, <1>7, <1>8, <1>9, <1>10, <1>11, <1>12, <1>13, <1>14, <1>15
     DEF Next

-----------------------------------------------------------------------------
\* The form's inductive invariant: the overlay locks, dates differ, texts are kept.
THEOREM InvariantHolds == Spec => []IInv
<1>. QED
  BY InitIInv, NextKeeps, PTL DEF Spec

\* Every variable keeps its type.
THEOREM TypeCorrect == Spec => []TypeOK
<1>1. IInv => TypeOK
  BY DEF IInv
<1>. QED
  BY <1>1, InvariantHolds, PTL

\* Unless the overlay was tapped away, at most one save is under way (saveFeedDidTap is
\* out of reach until the timer has dismissed the overlay).
THEOREM OneSaveAtATime == Spec => []SingleFlight
<1>1. IInv => SingleFlight
  <2>. SUFFICES ASSUME IInv, "overlay" \notin touched PROVE Cardinality(InFlight) <= 1
    BY DEF SingleFlight
  <2>1. CASE InFlight = {}
    BY <2>1, FS_EmptySet
  <2>2. CASE InFlight # {}
    <3>1. PICK i \in InFlight : TRUE
      BY <2>2
    <3>2. InFlight = {i}
      BY <3>1 DEF IInv, Locked
    <3>. QED
      BY <3>2, FS_Singleton
  <2>. QED
    BY <2>1, <2>2
<1>. QED
  BY <1>1, InvariantHolds, PTL

\* A document without its photo is one whose upload failed (putData's completion writes
\* the document).
THEOREM PhotosBeforeFeeds == Spec => []PhotoBeforeFeed
<1>1. IInv => PhotoBeforeFeed
  BY DEF IInv
<1>. QED
  BY <1>1, InvariantHolds, PTL

\* The mailbox of FeedDataManager is empty between the handlers: viewWillAppear takes
\* what the location screen left.
THEOREM MailIsTaken == Spec => []NoStaleMail
<1>1. IInv => NoStaleMail
  BY DEF IInv
<1>. QED
  BY <1>1, InvariantHolds, PTL

\* What saveData writes after the upload is what the form showed when it began.
THEOREM TextsAsShown == Spec => []WrittenAsShown
<1>1. IInv => WrittenAsShown
  BY DEF IInv
<1>. QED
  BY <1>1, InvariantHolds, PTL

\* No save overwrites what an earlier one stored: their dates differ.
THEOREM StoredFeedsStay == Spec => FeedsKept
<1>. DEFINE kept == \A d \in Dates : "overlay" \notin touched =>
                        /\ docs[d] # Nothing => docs'[d] = docs[d]
                        /\ images[d] # Nothing => images'[d] = images[d]
<1>1. IInv /\ [Next]_vars => kept
  <2>. SUFFICES ASSUME IInv, [Next]_vars, NEW d \in Dates, "overlay" \notin touched
                PROVE  /\ docs[d] # Nothing => docs'[d] = docs[d]
                       /\ images[d] # Nothing => images'[d] = images[d]
    OBVIOUS
  <2>1. saves \in Seq(Save) /\ docs \in [Dates -> Content \cup {Nothing}]
        /\ images \in [Dates -> Photos \cup {Nothing}]
    BY DEF IInv, TypeOK
  <2>2. ASSUME NEW i \in DOMAIN saves, UploadEnds(i), images[d] # Nothing
        PROVE  d # saves[i].date
    <3>1. PICK j \in DOMAIN saves : saves[j].date = d /\ saves[j].phase # "uploading"
      BY <2>2 DEF IInv, Stamped
    <3>. QED
      BY <2>2, <3>1, DatesDiffer DEF UploadEnds
  <2>3. ASSUME NEW i \in DOMAIN saves, UploadCompletion(i), docs[d] # Nothing
        PROVE  d # saves[i].date
    <3>1. PICK j \in DOMAIN saves : saves[j].date = d /\ saves[j].phase # "uploaded"
      BY <2>3 DEF IInv, Stamped
    <3>. QED
      BY <2>3, <3>1, DatesDiffer DEF UploadCompletion
  <2>4. ASSUME NEW i \in DOMAIN saves, UploadEnds(i)
        PROVE  docs'[d] = docs[d] /\ (images[d] # Nothing => images'[d] = images[d])
    BY <2>1, <2>2, <2>4 DEF UploadEnds
  <2>5. ASSUME NEW i \in DOMAIN saves, UploadCompletion(i)
        PROVE  images'[d] = images[d] /\ (docs[d] # Nothing => docs'[d] = docs[d])
    BY <2>1, <2>3, <2>5 DEF UploadCompletion
  <2>6. CASE UNCHANGED server
    BY <2>6 DEF server
  <2>7. (\E i \in DOMAIN saves : UploadEnds(i) \/ UploadCompletion(i)) \/ UNCHANGED server
    BY DEF Next, SaveStep, vars, PlusButtonDidTap, ModifyCallback, BackDidTap, SwipeCancelled,
           Present, SheetDone, PickerDone, PickerCancelled, DidTapConfirmButton, BeginEditing,
           ShouldReturn, Type, SaveFeedDidTap, OverlayDidTap, TimerFires, TimerEnds, Tick, Restart
  <2>. QED
    BY <2>4, <2>5, <2>6, <2>7
<1>. QED
  BY <1>1, InvariantHolds, PTL DEF Spec, FeedsKept

\* navigationController?.popViewController pops the form that was saved and nothing else,
\* whatever was tapped, popped and opened during the save, and leaves it on no stack: but
\* for a form that "modify" pushed over it.
THEOREM TimerPopsItsForm == Spec => TimerPopsSaver
<1>1. IInv => \A i \in DOMAIN saves : TimerFires(i) /\ i \notin pushedOver =>
                  /\ Range(stack) \ Range(stack') \subseteq {saves[i].form}
                  /\ saves[i].form \notin Range(stack')
  <2>. SUFFICES ASSUME IInv, NEW i \in DOMAIN saves, TimerFires(i), i \notin pushedOver
                PROVE  /\ Range(stack) \ Range(stack') \subseteq {saves[i].form}
                       /\ saves[i].form \notin Range(stack')
    OBVIOUS
  <2>1. CASE saves[i].form \notin Range(stack)
    BY <2>1, TimerPops
  <2>2. CASE saves[i].form \in Range(stack)
    <3>1. i \in InFlight
      BY DEF TimerFires, TimerEnds, InFlight
    <3>2. /\ stack \in Seq(Forms) /\ saves[i].form = Last(stack)
          /\ \A m, n \in DOMAIN stack : stack[m] = stack[n] => m = n
      BY <2>2, <3>1 DEF IInv, Stacked, TypeOK
    <3>. DEFINE k == Len(stack) - 1
    <3>3. stack # <<>> /\ k \in Nat /\ k < Len(stack) /\ stack' = SubSeq(stack, 1, k)
      BY <2>2, TimerPops DEF Front
    <3>. HIDE DEF k
    <3>4. Last(stack) \notin Range(stack')
      BY <3>2, <3>3, Shortened
    <3>5. ASSUME NEW n \in DOMAIN stack, stack[n] # Last(stack) PROVE stack[n] \in Range(stack')
      <4>1. n \in 1..k
        BY <3>2, <3>3, <3>5 DEF Last, k
      <4>2. n \in DOMAIN stack' /\ stack'[n] = stack[n]
        BY <3>2, <3>3, <4>1
      <4>. QED
        BY <4>2 DEF Range
    <3>. QED
      BY <3>2, <3>4, <3>5 DEF Range
  <2>. QED
    BY <2>1, <2>2
<1>. QED
  BY <1>1, InvariantHolds, PTL DEF TimerPopsSaver

\* didTapConfirmButton's address is shown by the form whose point field was tapped.
THEOREM PointsReachTheirForm == Spec => PointReachesAsker
<1>1. IInv => \A address \in Place : DidTapConfirmButton(address) /\ touched = {} =>
                  forms'[modal.form].point = address /\ mailbox' = Nothing
  <2>. SUFFICES ASSUME IInv, NEW address \in Place, DidTapConfirmButton(address), touched = {}
                PROVE  forms'[modal.form].point = address /\ mailbox' = Nothing
    OBVIOUS
  <2>1. modal # NoModal
    BY ModalUncovers DEF DidTapConfirmButton
  <2>2. stack # <<>> /\ modal.form = Last(stack) /\ stack \in Seq(Forms)
    BY <2>1 DEF IInv, OnTop, TypeOK
  <2>3. modal.form \in Forms /\ forms \in [Forms -> Form]
    BY <2>2, TopOf DEF IInv, TypeOK
  <2>4. address # Nothing
    BY NothingAssumption DEF Place
  <2>5. forms' = [forms EXCEPT ![modal.form].point = address] /\ mailbox' = Nothing
    BY <2>2, <2>4 DEF DidTapConfirmButton, Appear
  <2>. QED
    BY <2>3, <2>5, PointSet
<1>. QED
  BY <1>1, InvariantHolds, PTL DEF PointReachesAsker

=============================================================================

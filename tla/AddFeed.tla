------------------------------- MODULE AddFeed -------------------------------
(***************************************************************************)
(* The registration form: AddFeedViewController with its AddFeedView, the  *)
(* photo picker and the location screen it presents, the one-slot mailbox  *)
(* FeedDataManager.pointName, the loading overlay all saves share, and the *)
(* save itself: upload the photo, then write the document, then, three     *)
(* seconds later, take the overlay away and pop a screen.  What Firestore  *)
(* does with the document it is given is FeedSync's matter.                *)
(*                                                                         *)
(* Several forms exist over a run: "+" pushes one on the home screen, and  *)
(* the download "modify" started may push another over whatever is on top  *)
(* by then.  A form that was popped lives on in the closures of its saves. *)
(* Full-screen modals hide the navigation stack: dismissing one calls      *)
(* viewWillAppear on the top screen, which pushing or popping under it     *)
(* did not.                                                                *)
(***************************************************************************)
EXTENDS Naturals, Sequences, FiniteSets, SequencesExt

CONSTANTS
    Forms,      \* AddFeedViewController objects; a released one stands for a new one
    Points,     \* addresses: what the location screen finds
    Words,      \* what can be typed into rod, reel and lure (taken as one text)
    Photos,     \* pictures of the user's library
    Blank,      \* the empty text
    NoPhoto,    \* the default picture of a new form
    Nothing,    \* nil: an empty mailbox, an id nobody stored anything under
    MaxSaves,   \* bound on the saves of a run
    MaxClock    \* bound on the clock, in seconds

ASSUME TextsAssumption == Blank \notin Points \cup Words /\ NoPhoto \notin Photos
ASSUME NothingAssumption == Nothing \notin Points \cup Photos \cup {Blank}
ASSUME BoundsAssumption == MaxSaves \in Nat /\ MaxClock \in Nat

VARIABLES
    forms,      \* per form: its fields, its photo, whether the keyboard is up
    stack,      \* the navigation stack above the home screen
    modal,      \* what is presented, and the form that presented it
    mailbox,    \* FeedDataManager.pointName
    overlay,    \* HPGradientLoading is on screen
    saves,      \* the saves of this run, in the order they were tapped
    clock,      \* Date(), whose description has seconds for resolution
    images,     \* Storage: the photo under images/<date>
    docs,       \* Firestore: what setData was given for the document "<date>" of "feeds"
    touched,    \* history: what interfered with a form's work
    pushedOver  \* history: saves during which "modify" pushed a form over the saver

screen == <<forms, stack, modal, mailbox, pushedOver>>
server == <<images, docs>>
vars == <<screen, overlay, saves, clock, server, touched>>

Dates == 0..MaxClock
Text == Words \cup {Blank}
Place == Points \cup {Blank}
Form == [point : Place, texts : Text, photo : Photos \cup {NoPhoto}, editing : BOOLEAN]
Content == [point : Place, texts : Text]
Save == [form : Forms, date : Dates, tapped : Content, photo : Photos,
         phase : {"uploading", "uploaded", "waiting", "done", "lost"},
         upload : {"running", "stored", "failed"},
         wait : Nat]   \* seconds the timer has left
Interference == {"overlay", "keyboard", "push"}

EmptyForm == [point |-> Blank, texts |-> Blank, photo |-> NoPhoto, editing |-> FALSE]
NoModal == [kind |-> "none", form |-> Nothing]

ContentOf(f) == [point |-> forms[f].point, texts |-> forms[f].texts]
Covered == modal.kind \in {"picker", "location"}
InFlight == {i \in DOMAIN saves : saves[i].phase \notin {"done", "lost"}}
\* Forms something holds on to: the stack, a modal's closures, a save's closures.
Alive == Range(stack) \cup {modal.form} \cup {saves[i].form : i \in InFlight}
\* The forms fs with those released that stack s, modal and saves in flight let go.
Released(fs, s, flight) ==
    [f \in Forms |->
        IF f \in Range(s) \cup {modal.form} \cup {saves[i].form : i \in flight}
        THEN fs[f] ELSE EmptyForm]
\* The user can reach the top form (mutant: through the overlay, too).
OnFormThroughOverlay == stack # <<>> /\ modal = NoModal
OnForm == stack # <<>> /\ modal = NoModal /\ ~overlay

(***************************************************************************)
(* viewWillAppear of the top screen of stack s, given the forms fs and the *)
(* mailbox m: a form's point is replaced by the mail, or by nothing, and   *)
(* the mailbox is emptied.  The home screen leaves the mailbox alone.      *)
(***************************************************************************)
\* Mutants: the mail is taken but not removed; it is removed before it is taken.
AppearKeepingMail(s, fs, m) ==
    /\ stack' = s
    /\ forms' = IF s = <<>> THEN fs
                ELSE [fs EXCEPT ![Last(s)].point = IF m = Nothing THEN Blank ELSE m]
    /\ mailbox' = m

AppearClearingFirst(s, fs, m) ==
    /\ stack' = s
    /\ forms' = IF s = <<>> THEN fs ELSE [fs EXCEPT ![Last(s)].point = Blank]
    /\ mailbox' = IF s = <<>> THEN m ELSE Nothing

Appear(s, fs, m) ==
    /\ stack' = s
    /\ forms' = IF s = <<>> THEN fs
                ELSE [fs EXCEPT ![Last(s)].point = IF m = Nothing THEN Blank ELSE m]
    /\ mailbox' = IF s = <<>> THEN m ELSE Nothing

\* The stack becomes s: its top screen appears unless a modal hides it.
Restack(s, fs) ==
    \/ ~Covered /\ Appear(s, fs, mailbox)
    \/ Covered /\ stack' = s /\ forms' = fs /\ UNCHANGED mailbox

Init ==
    /\ forms = [f \in Forms |-> EmptyForm]
    /\ stack = <<>> /\ modal = NoModal /\ mailbox = Nothing
    /\ overlay = FALSE /\ saves = <<>> /\ clock = 0
    /\ images = [d \in Dates |-> Nothing]
    /\ docs = [d \in Dates |-> Nothing]
    /\ touched = {} /\ pushedOver = {}

-----------------------------------------------------------------------------
(***************************************************************************)
(* Navigation.                                                             *)
(***************************************************************************)

\* "+" on the home screen.
PlusButtonDidTap(f) ==
    /\ stack = <<>> /\ modal = NoModal /\ ~overlay
    /\ f \notin Alive
    /\ Restack(<<f>>, [forms EXCEPT ![f] = EmptyForm])
    /\ UNCHANGED <<modal, overlay, saves, clock, server, touched, pushedOver>>

\* The handler of "modify" fills a new form with a document's texts, then pushes it.
ModifyCallback(f, content) ==
    /\ f \notin Alive
    /\ Restack(Append(stack, f),
               [forms EXCEPT ![f] = [EmptyForm EXCEPT !.point = content.point,
                                                      !.texts = content.texts]])
    /\ touched' = touched \cup (IF stack = <<>> THEN {} ELSE {"push"})
    /\ pushedOver' = pushedOver \cup {i \in InFlight : saves[i].form \in Range(stack)}
    /\ UNCHANGED <<modal, overlay, saves, clock, server>>

\* The back button pops one screen, the tab bar all of them.
BackDidTap(k) ==
    /\ OnForm
    /\ LET s == SubSeq(stack, 1, k) IN Restack(s, Released(forms, s, InFlight))
    /\ UNCHANGED <<modal, overlay, saves, clock, server, touched, pushedOver>>

\* A swipe back let go half way: the screen below appeared, then the top one again.
SwipeCancelled ==
    /\ OnForm
    /\ LET below == Front(stack)
           mail == IF mailbox = Nothing THEN Blank ELSE mailbox IN
       IF below = <<>> THEN Appear(stack, forms, mailbox)
       ELSE Appear(stack, [forms EXCEPT ![Last(below)].point = mail], Nothing)
    /\ UNCHANGED <<modal, overlay, saves, clock, server, touched, pushedOver>>

-----------------------------------------------------------------------------
(***************************************************************************)
(* Filling in the form.                                                    *)
(***************************************************************************)

\* photoIVDidTap opens an action sheet, the point field's tap the location screen.
Present(kind) ==
    /\ OnForm
    /\ modal' = [kind |-> kind, form |-> Last(stack)]
    /\ UNCHANGED <<forms, stack, mailbox, overlay, saves, clock, server, touched, pushedOver>>

\* The sheet closes; "album" (and "camera", where there is one) presents the
\* picker, which fails when the form is no longer the screen on display.
SheetDone(kind) ==
    /\ modal.kind = "sheet"
    /\ kind = "picker" => stack # <<>> /\ Last(stack) = modal.form
    /\ modal' = IF kind = "picker" THEN [modal EXCEPT !.kind = kind] ELSE NoModal
    /\ UNCHANGED <<forms, stack, mailbox, overlay, saves, clock, server, touched, pushedOver>>

\* didCancel: dismissed, the form keeps its photo.
PickerCancelled ==
    /\ modal.kind = "picker"
    /\ modal' = NoModal
    /\ Appear(stack, forms, mailbox)
    /\ UNCHANGED <<overlay, saves, clock, server, touched, pushedOver>>

\* didFinishPicking: the form gets the photo, then the picker is dismissed.
PickerDone(photo) ==
    /\ modal.kind = "picker"
    /\ modal' = NoModal
    /\ Appear(stack, [forms EXCEPT ![modal.form].photo = photo], mailbox)
    /\ UNCHANGED <<overlay, saves, clock, server, touched, pushedOver>>

\* didTapConfirmButton: the address found so far, maybe none, goes to the mailbox.
DidTapConfirmButton(address) ==
    /\ modal.kind = "location"
    /\ modal' = NoModal
    /\ Appear(stack, forms, address)
    /\ UNCHANGED <<overlay, saves, clock, server, touched, pushedOver>>

\* A field gets the keyboard, which stays above the overlay when one comes.
BeginEditing ==
    /\ OnForm
    /\ forms' = [forms EXCEPT ![Last(stack)].editing = TRUE]
    /\ UNCHANGED <<stack, modal, mailbox, overlay, saves, clock, server, touched, pushedOver>>

Type(content) ==
    /\ stack # <<>> /\ modal = NoModal
    /\ forms[Last(stack)].editing
    /\ forms' = [forms EXCEPT ![Last(stack)].point = content.point,
                              ![Last(stack)].texts = content.texts]
    /\ touched' = touched \cup (IF overlay THEN {"keyboard"} ELSE {})
    /\ UNCHANGED <<stack, modal, mailbox, overlay, saves, clock, server, pushedOver>>

ShouldReturn ==
    /\ stack # <<>> /\ modal = NoModal
    /\ forms[Last(stack)].editing
    /\ forms' = [forms EXCEPT ![Last(stack)].editing = FALSE]
    /\ UNCHANGED <<stack, modal, mailbox, overlay, saves, clock, server, touched, pushedOver>>

-----------------------------------------------------------------------------
(***************************************************************************)
(* Saving.                                                                 *)
(***************************************************************************)

\* asyncAfter(deadline: .now() + 3), in seconds (mutant: at once).
NoDelay == 0
Delay == 3

\* The guards of saveFeedDidTap: a text field's text is never nil, so only the
\* default photo turns a save away.
Complete(f) == forms[f].photo # NoPhoto

\* Mutant of saveData: the overlay is not shown.
SaveUnlocked ==
    /\ OnForm
    /\ Complete(Last(stack))
    /\ Len(saves) < MaxSaves /\ clock < MaxClock
    /\ saves' = Append(saves, [form |-> Last(stack), date |-> clock,
                               tapped |-> ContentOf(Last(stack)),
                               photo |-> forms[Last(stack)].photo,
                               phase |-> "uploading", upload |-> "running", wait |-> 0])
    /\ UNCHANGED <<screen, overlay, clock, server, touched>>

\* saveFeedDidTap -> saveData: overlay up, the upload starts under the date's name.
SaveFeedDidTap ==
    /\ OnForm
    /\ Complete(Last(stack))
    /\ Len(saves) < MaxSaves /\ clock < MaxClock
    /\ overlay' = TRUE
    /\ saves' = Append(saves, [form |-> Last(stack), date |-> clock,
                               tapped |-> ContentOf(Last(stack)),
                               photo |-> forms[Last(stack)].photo,
                               phase |-> "uploading", upload |-> "running", wait |-> 0])
    /\ UNCHANGED <<screen, clock, server, touched>>

\* The upload succeeds with the photo the save read, or gives up.
UploadEnds(i) ==
    /\ saves[i].phase = "uploading"
    /\ \/ /\ saves' = [saves EXCEPT ![i].phase = "uploaded", ![i].upload = "stored"]
          /\ images' = [images EXCEPT ![saves[i].date] = saves[i].photo]
       \/ /\ saves' = [saves EXCEPT ![i].phase = "uploaded", ![i].upload = "failed"]
          /\ UNCHANGED images
    /\ UNCHANGED <<screen, overlay, clock, docs, touched>>

\* Mutants of putData's completion: an upload error ends it; the document is
\* dated when it is written.
CompletionStopsOnError(i) ==
    /\ saves[i].phase = "uploaded"
    /\ IF saves[i].upload = "stored"
       THEN /\ docs' = [docs EXCEPT ![saves[i].date] = ContentOf(saves[i].form)]
            /\ saves' = [saves EXCEPT ![i].phase = "waiting", ![i].wait = Delay]
       ELSE /\ saves' = [saves EXCEPT ![i].phase = "done"]
            /\ UNCHANGED docs
    /\ UNCHANGED <<screen, overlay, clock, images, touched>>

CompletionRedates(i) ==
    /\ saves[i].phase = "uploaded"
    /\ docs' = [docs EXCEPT ![clock] = ContentOf(saves[i].form)]
    /\ saves' = [saves EXCEPT ![i].phase = "waiting", ![i].wait = Delay]
    /\ UNCHANGED <<screen, overlay, clock, images, touched>>

\* putData's completion, error or not: the document gets the texts the form has by
\* now, and the timer starts.
UploadCompletion(i) ==
    /\ saves[i].phase = "uploaded"
    /\ docs' = [docs EXCEPT ![saves[i].date] = ContentOf(saves[i].form)]
    /\ saves' = [saves EXCEPT ![i].phase = "waiting", ![i].wait = Delay]
    /\ UNCHANGED <<screen, overlay, clock, images, touched>>

\* The timer of save i takes the overlay away; pops says whether a screen goes, too.
TimerEnds(i, pops) ==
    /\ saves[i].phase = "waiting"
    /\ saves[i].wait = 0
    /\ overlay' = FALSE
    /\ saves' = [saves EXCEPT ![i].phase = "done"]
    /\ \/ /\ pops
          /\ Restack(Front(stack), Released(forms, Front(stack), InFlight \ {i}))
       \/ /\ ~pops
          /\ forms' = Released(forms, stack, InFlight \ {i})
          /\ UNCHANGED <<stack, mailbox>>
    /\ UNCHANGED <<modal, clock, server, touched, pushedOver>>

\* Mutant: the top screen of whatever stack there is goes.
TimerPopsTop(i) == TimerEnds(i, stack # <<>>)

\* self.navigationController?.popViewController: the saver's stack loses its top screen,
\* and a saver that is on no stack any more pops nothing.
TimerFires(i) == TimerEnds(i, saves[i].form \in Range(stack))

\* isEnableDismissWhenTap: the user takes the overlay away.
OverlayDidTap ==
    /\ overlay
    /\ overlay' = FALSE
    /\ touched' = touched \cup {"overlay"}
    /\ UNCHANGED <<screen, saves, clock, server>>

\* A second passes; from MaxClock on no save starts and only timers run down.
Tick ==
    /\ clock < MaxClock \/ \E i \in DOMAIN saves : saves[i].wait > 0
    /\ clock' = IF clock < MaxClock THEN clock + 1 ELSE clock
    /\ saves' = [i \in DOMAIN saves |->
                   [saves[i] EXCEPT !.wait = IF @ > 0 THEN @ - 1 ELSE @]]
    /\ UNCHANGED <<screen, overlay, server, touched>>

\* The process dies and is started again, a second later at the earliest: only
\* the two stores survive.
Restart ==
    /\ clock < MaxClock
    /\ clock' = clock + 1
    /\ stack # <<>> \/ InFlight # {} \/ mailbox # Nothing
    /\ stack' = <<>> /\ modal' = NoModal /\ mailbox' = Nothing
    /\ forms' = [f \in Forms |-> EmptyForm]
    /\ overlay' = FALSE
    /\ saves' = [i \in DOMAIN saves |->
                   IF i \in InFlight
                   THEN [saves[i] EXCEPT !.phase = "lost", !.wait = 0] ELSE saves[i]]
    /\ UNCHANGED <<server, touched, pushedOver>>

-----------------------------------------------------------------------------
SaveStep == \E i \in DOMAIN saves : UploadEnds(i) \/ UploadCompletion(i) \/ TimerFires(i)

Next ==
    \/ \E f \in Forms : PlusButtonDidTap(f)
    \/ \E f \in Forms, content \in Content : ModifyCallback(f, content)
    \/ \E k \in {0, Len(stack) - 1} : BackDidTap(k)
    \/ SwipeCancelled
    \/ \E kind \in {"sheet", "location"} : Present(kind)
    \/ \E kind \in {"picker", "none"} : SheetDone(kind)
    \/ \E photo \in Photos : PickerDone(photo)
    \/ PickerCancelled
    \/ \E address \in Place : DidTapConfirmButton(address)
    \/ BeginEditing \/ ShouldReturn
    \/ \E content \in Content : Type(content)
    \/ SaveFeedDidTap \/ OverlayDidTap
    \/ SaveStep
    \/ Tick \/ Restart

Spec == Init /\ [][Next]_vars

\* Time passes, Storage ends every upload (it gives up after its retry time), and
\* the main queue runs completions and timers.
FairSpec == Spec /\ WF_vars(SaveStep) /\ WF_vars(Tick)

-----------------------------------------------------------------------------
(***************************************************************************)
(* Properties.  Most say what holds as long as nothing got behind the      *)
(* overlay: the code protects a save by nothing else, and the overlay can  *)
(* be tapped away.                                                         *)
(***************************************************************************)

\* The values every variable takes.
TypeOK ==
    /\ forms \in [Forms -> Form]
    /\ stack \in Seq(Forms)
    /\ modal \in [kind : {"none", "sheet", "picker", "location"}, form : Forms \cup {Nothing}]
    /\ mailbox \in Place \cup {Nothing}
    /\ overlay \in BOOLEAN
    /\ saves \in Seq(Save)
    /\ clock \in Dates
    /\ images \in [Dates -> Photos \cup {Nothing}]
    /\ docs \in [Dates -> Content \cup {Nothing}]
    /\ touched \in SUBSET Interference
    /\ pushedOver \subseteq DOMAIN saves

\* The overlay is the lock of saveData: unless the user taps it away, no second
\* save starts before the first one's timer has fired.
SingleFlight == "overlay" \notin touched => Cardinality(InFlight) <= 1

\* A feed's id is the second its save was tapped in.  The overlay and the three
\* seconds keep two saves of one run apart, so that no document and no photo is
\* overwritten by a later save.
FeedsKept ==
    [][\A d \in Dates : "overlay" \notin touched =>
          /\ docs[d] # Nothing => docs'[d] = docs[d]
          /\ images[d] # Nothing => images'[d] = images[d]]_vars

\* The texts are read when the upload is over, from a form that may have been
\* covered, uncovered (which resets its point) or popped meanwhile: what is written
\* is still what the user saw when saving, but for the overlay and the keyboard.
WrittenAsShown ==
    touched \cap {"overlay", "keyboard"} = {} =>
        \A i \in DOMAIN saves :
            saves[i].phase \in {"waiting", "done"} => docs[saves[i].date] = saves[i].tapped

\* The timer pops the top screen of the saver's stack three seconds after the document
\* was written.  Whatever the user did meanwhile - tapped the overlay away, went back,
\* opened another form, saved that one - no screen goes but the form that was saved, and
\* that one is gone then; only a form that "modify" pushed over it during the save takes
\* its place.
TimerPopsSaver ==
    [][\A i \in DOMAIN saves : TimerFires(i) /\ i \notin pushedOver =>
          /\ Range(stack) \ Range(stack') \subseteq {saves[i].form}
          /\ saves[i].form \notin Range(stack')]_vars

\* An address confirmed on the location screen reaches the form that asked for it,
\* and no form pushed later.
PointReachesAsker ==
    [][\A address \in Place : DidTapConfirmButton(address) /\ touched = {} =>
          forms'[modal.form].point = address /\ mailbox' = Nothing]_vars

\* No address waits in the mailbox for a form that did not ask for it: a form shows
\* its address the moment the location screen closes.
NoStaleMail == "overlay" \notin touched => mailbox = Nothing

\* A document without its photo is one whose upload failed: the write waits for
\* the upload, and a restart between the two leaves a photo, never a document.
PhotoBeforeFeed ==
    \A d \in Dates : docs[d] # Nothing /\ images[d] = Nothing =>
        \E i \in DOMAIN saves : saves[i].date = d /\ saves[i].upload = "failed"

(***************************************************************************)
(* Why these hold: the parts of the inductive invariant.                   *)
(***************************************************************************)

\* Nothing is presented while the overlay is up, and it is up for as long as a save runs.
Locked ==
    /\ overlay => modal = NoModal
    /\ "overlay" \notin touched =>
          \A i \in InFlight : overlay /\ \A j \in InFlight : i = j

\* A modal is over a form; what a form presented finds it on top unless another was
\* pushed over it.
OnTop ==
    /\ "overlay" \notin touched /\ modal # NoModal => stack # <<>>
    /\ touched = {} /\ modal # NoModal => stack # <<>> /\ modal.form = Last(stack)

\* A form is on the stack once; one that is being saved is on top or off it, unless
\* another was pushed over it since.
Stacked ==
    /\ \A m, n \in DOMAIN stack : stack[m] = stack[n] => m = n
    /\ \A i \in InFlight \ pushedOver :
          saves[i].form \in Range(stack) => saves[i].form = Last(stack)

\* When an upload is over its photo is stored, unless it failed.
UploadsStored ==
    \A i \in DOMAIN saves : saves[i].phase = "uploaded" =>
        saves[i].upload = "failed" \/ images[saves[i].date] # Nothing

\* What is stored under a date was stored by a save of that date.
Stamped ==
    \A d \in Dates :
        /\ images[d] # Nothing =>
              \E i \in DOMAIN saves : saves[i].date = d /\ saves[i].phase # "uploading"
        /\ docs[d] # Nothing =>
              \E i \in DOMAIN saves : /\ saves[i].date = d
                                     /\ saves[i].phase \notin {"uploading", "uploaded"}

\* The three seconds: a save that is over was dated before now, so that the next one has
\* a date of its own.
Elapsed(save) ==
    /\ save.date <= clock
    /\ save.phase = "waiting" => clock = MaxClock \/ save.date + Delay <= clock + save.wait
    /\ save.phase = "done" => clock = MaxClock \/ save.date < clock
    /\ save.phase = "lost" => save.date < clock

DatesApart ==
    "overlay" \notin touched =>
        /\ \A i \in DOMAIN saves : Elapsed(saves[i])
        /\ \A i, j \in DOMAIN saves : i < j => saves[i].date < saves[j].date

\* Until its document is written, a save's form keeps the texts.
TextsKept ==
    touched \cap {"overlay", "keyboard"} = {} =>
        \A i \in DOMAIN saves :
            saves[i].phase \in {"uploading", "uploaded"} =>
                ContentOf(saves[i].form) = saves[i].tapped

IInv == /\ TypeOK /\ Locked /\ OnTop /\ Stacked /\ NoStaleMail
        /\ UploadsStored /\ PhotoBeforeFeed
        /\ Stamped /\ DatesApart /\ TextsKept /\ WrittenAsShown

\* The user is not locked out: the overlay of a save goes away without a tap.
OverlayGoes == overlay ~> ~overlay

\* A save that was not lost with the process writes its document, even when the
\* form was popped before the upload ended.
EverySaveWrites ==
    \A i \in 1..MaxSaves :
        (i \in InFlight) ~> (/\ i \in DOMAIN saves
                             /\ saves[i].phase = "lost" \/ docs[saves[i].date] # Nothing)

(***************************************************************************)
(* What comments of the source promise and the code does not do.           *)
(***************************************************************************)

\* AddFeedViewController.swift:86, "check by conditions whether there is an empty
\* field": no document has one.
NoBlankSaved ==
    \A d \in Dates : docs[d] # Nothing => docs[d].point # Blank /\ docs[d].texts # Blank

\* AddFeedViewController.swift:84, "save the feed image and the contents in
\* Firebase": a saved feed has its image.
PhotoSavedWithFeed == \A d \in Dates : docs[d] # Nothing => images[d] # Nothing

\* MainViewController.swift:145, "go to the registration page, with the image and
\* the texts all filled in": the form shows the texts of the document.  A document with
\* texts, as "+" opens the same form as "modify" does for one without.
ModifyFormFilled ==
    [][\A f \in Forms, content \in Content :
          ModifyCallback(f, content) /\ content.texts # Blank => ContentOf(f)' = content]_vars

=============================================================================

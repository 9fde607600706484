-------------------------- MODULE PointScreensProofs --------------------------
(***************************************************************************)
(* PointScreens keeps its invariant for every set of places and all bounds. *)
(*                                                                         *)
(* IInv is inductive as it stands.  Its parts lean on each other: an answer *)
(* is for a location its visit was told (TypeOK), such a visit was allowed *)
(* (AskedForNothing, through NewestIsOpen), and visits only grow.          *)
(***************************************************************************)
EXTENDS PointScreens, TLAPS

-----------------------------------------------------------------------------
(***************************************************************************)
(* Visits as values.                                                       *)
(***************************************************************************)

LEMMA Fields ==
    ASSUME NEW x \in Visit
    PROVE  /\ x.open \in BOOLEAN /\ x.allowed \in BOOLEAN /\ x.updating \in BOOLEAN
           /\ x.fixes \in Seq(Places) /\ x.tempStored \in Name
  BY DEF Visit

LEMMA ToldOf ==
    ASSUME NEW x \in Visit, NEW f \in Seq(Places),
           NEW y, y = [x EXCEPT !.updating = FALSE, !.fixes = f]
    PROVE  /\ y \in Visit
           /\ y.open = x.open /\ y.allowed = x.allowed /\ y.tempStored = x.tempStored
           /\ y.updating = FALSE /\ y.fixes = f
  BY DEF Visit

LEMMA Found ==
    ASSUME NEW x \in Visit, NEW n \in Name, NEW y, y = [x EXCEPT !.tempStored = n]
    PROVE  /\ y \in Visit
           /\ y.open = x.open /\ y.allowed = x.allowed /\ y.tempStored = n
           /\ y.updating = x.updating /\ y.fixes = x.fixes
  BY DEF Visit

LEMMA Closed ==
    ASSUME NEW x \in Visit, NEW y, y = [x EXCEPT !.open = FALSE, !.updating = FALSE]
    PROVE  /\ y \in Visit
           /\ y.open = FALSE /\ y.allowed = x.allowed /\ y.tempStored = x.tempStored
           /\ y.updating = FALSE /\ y.fixes = x.fixes
  BY DEF Visit

LEMMA Pinned ==
    ASSUME NEW x \in Map, NEW pin \in {"shown", "nothing"}, NEW y, y = [x EXCEPT !.pin = pin]
    PROVE  y \in Map
  BY DEF Map

LEMMA Replaced ==
    ASSUME NEW S, NEW s \in Seq(S), NEW v \in DOMAIN s, NEW x \in S,
           NEW t, t = [s EXCEPT ![v] = x]
    PROVE  /\ t \in Seq(S) /\ Len(t) = Len(s) /\ DOMAIN t = DOMAIN s
           /\ t[v] = x /\ \A w \in DOMAIN s : w # v => t[w] = s[w]
  OBVIOUS

LEMMA Grown ==
    ASSUME NEW S, NEW s \in Seq(S), NEW x \in S, NEW t, t = Append(s, x)
    PROVE  /\ t \in Seq(S) /\ Len(t) = Len(s) + 1
           /\ DOMAIN t = DOMAIN s \cup {Len(t)} /\ Len(t) \notin DOMAIN s
           /\ t[Len(t)] = x /\ \A w \in DOMAIN s : t[w] = s[w]
  OBVIOUS

LEMMA VisitsTyped ==
    ASSUME IInv
    PROVE  /\ visits \in Seq(Visit)
           /\ \A v \in DOMAIN visits : visits[v] \in Visit /\ v \in 1..Len(visits) /\ Len(visits) \in Nat
<1>1. visits \in Seq(Visit)
  BY DEF IInv, TypeOK
<1>. QED
  BY <1>1

-----------------------------------------------------------------------------
(***************************************************************************)
(* The steps.                                                              *)
(***************************************************************************)

\* The first visit finds no address, and nothing is handed over.
LEMMA InitIInv == Init => IInv
<1> SUFFICES ASSUME Init PROVE IInv
  OBVIOUS
<1>1. visits = <<>> /\ geocodes = {} /\ maps = <<>> /\ crash = "no" /\ alert = FALSE
  BY DEF Init
<1>2. DOMAIN visits = {} /\ visits \in Seq(Visit) /\ maps \in Seq(Map)
  BY <1>1
<1>3. pointName \in [visit : Nat, name : Name] /\ pointName.visit = 0
  BY DEF Init, Name
<1>4. TypeOK
  BY <1>1, <1>2, <1>3 DEF Init, TypeOK
<1>. QED
  BY <1>1, <1>2, <1>3, <1>4
     DEF IInv, NewestIsOpen, PointIsOfItsVisit, AskedForNothing, MailIsOfItsVisit, CrashCauses

\* A new visit leaves the others what they were.
LEMMA ViewDidLoadKeeps == IInv /\ ViewDidLoad => IInv'
<1> SUFFICES ASSUME IInv, ViewDidLoad PROVE IInv'
  OBVIOUS
<1> DEFINE new == [open |-> TRUE, allowed |-> permission = "granted",
                   updating |-> permission = "granted", fixes |-> <<>>,
                   tempStored |-> NoAddress]
<1>1. new \in Visit
  <2>1. <<>> \in Seq(Places) /\ NoAddress \in Name
    BY DEF Name
  <2>. QED
    BY <2>1 DEF Visit
<1>2. /\ new.open /\ (new.updating => new.allowed) /\ new.fixes = <<>>
      /\ new.tempStored = NoAddress
  OBVIOUS
<1>3. /\ visits' = Append(visits, new)
      /\ UNCHANGED <<permission, geocodes, pointName, maps, crash>>
      /\ alert' \in BOOLEAN
  BY DEF ViewDidLoad
<1> HIDE DEF new
<1>4. /\ visits' \in Seq(Visit) /\ Len(visits') = Len(visits) + 1
      /\ DOMAIN visits' = DOMAIN visits \cup {Len(visits')} /\ Len(visits') \notin DOMAIN visits
      /\ visits'[Len(visits')] = new /\ \A w \in DOMAIN visits : visits'[w] = visits[w]
  BY <1>1, <1>3, VisitsTyped, Grown
<1>5. \A v \in DOMAIN visits : ~visits[v].open
  BY DEF ViewDidLoad, OnScreen
<1>6. TypeOK'
  <2>1. \A g \in geocodes' : g.visit \in DOMAIN visits' /\ g.fix \in DOMAIN visits'[g.visit].fixes
    BY <1>3, <1>4 DEF IInv, TypeOK
  <2>. QED
    BY <1>3, <1>4, <2>1 DEF IInv, TypeOK
<1>7. NewestIsOpen'
  <2>1. \A v \in DOMAIN visits : ~visits'[v].open /\ ~visits'[v].updating
    BY <1>4, <1>5 DEF IInv, NewestIsOpen
  <2>2. \E v \in DOMAIN visits' : visits'[v].open
    BY <1>2, <1>4
  <2>3. \A v \in DOMAIN visits' : visits'[v].open => v = Len(visits')
    BY <1>4, <2>1
  <2>4. \A v \in DOMAIN visits' : visits'[v].updating => visits'[v].open /\ visits'[v].allowed
    BY <1>2, <1>4, <2>1
  <2>. QED
    BY <2>2, <2>3, <2>4 DEF NewestIsOpen, OnScreen
<1>8. PointIsOfItsVisit'
  BY <1>2, <1>4 DEF IInv, PointIsOfItsVisit
<1>9. AskedForNothing'
  BY <1>2, <1>4 DEF IInv, AskedForNothing
<1>10. MailIsOfItsVisit'
  BY <1>3, <1>4 DEF IInv, MailIsOfItsVisit
<1>11. CrashCauses'
  BY <1>3, <1>4 DEF IInv, CrashCauses
<1>. QED
  BY <1>6, <1>7, <1>8, <1>9, <1>10, <1>11 DEF IInv

\* A location is for a visit that was allowed, and changes nothing it had found.
LEMMA DidUpdateKeeps ==
    ASSUME IInv, NEW v \in DOMAIN visits, NEW place \in Places, DidUpdateLocations(v, place)
    PROVE  IInv'
<1> DEFINE fixes == Append(visits[v].fixes, place)
           told == [visits[v] EXCEPT !.updating = FALSE, !.fixes = fixes]
<1>1. visits \in Seq(Visit) /\ visits[v] \in Visit
  BY VisitsTyped
<1>2. visits[v].fixes \in Seq(Places)
  BY <1>1, Fields
<1>3. /\ fixes \in Seq(Places) /\ Len(fixes) = Len(visits[v].fixes) + 1
      /\ DOMAIN fixes = DOMAIN visits[v].fixes \cup {Len(fixes)}
      /\ \A i \in DOMAIN visits[v].fixes : fixes[i] = visits[v].fixes[i]
  BY <1>2, Grown
<1>4. /\ visits' = [visits EXCEPT ![v] = told]
      /\ geocodes' = geocodes \cup {[visit |-> v, fix |-> Len(visits[v].fixes) + 1]}
      /\ UNCHANGED <<permission, alert, pointName, maps, crash>>
      /\ visits[v].updating \/ visits[v].fixes # <<>>
  BY DEF DidUpdateLocations, location
<1> HIDE DEF fixes
<1>5. /\ told \in Visit
      /\ told.open = visits[v].open /\ told.allowed = visits[v].allowed
      /\ told.tempStored = visits[v].tempStored /\ told.updating = FALSE /\ told.fixes = fixes
  <2>1. visits[v] \in Visit /\ fixes \in Seq(Places)
    BY <1>1, <1>3
  <2>. QED
    BY <2>1 DEF Visit
<1> HIDE DEF told
<1>6. /\ visits' \in Seq(Visit) /\ Len(visits') = Len(visits) /\ DOMAIN visits' = DOMAIN visits
      /\ visits'[v] = told /\ \A w \in DOMAIN visits : w # v => visits'[w] = visits[w]
  BY <1>1, <1>4, <1>5, Replaced
<1>7. \A w \in DOMAIN visits : /\ visits'[w].open = visits[w].open
                              /\ visits'[w].allowed = visits[w].allowed
                              /\ visits'[w].tempStored = visits[w].tempStored
  BY <1>5, <1>6
<1>8. \A w \in DOMAIN visits : \A i \in DOMAIN visits[w].fixes :
          i \in DOMAIN visits'[w].fixes /\ visits'[w].fixes[i] = visits[w].fixes[i]
  BY <1>3, <1>5, <1>6
<1>9. TypeOK'
  <2>1. Len(visits[v].fixes) + 1 \in DOMAIN visits'[v].fixes
    <3>1. Len(fixes) \in DOMAIN fixes
      BY <1>3
    <3>. QED
      BY <1>3, <1>5, <1>6, <3>1
  <2>2. ASSUME NEW g \in geocodes'
        PROVE  g.visit \in DOMAIN visits' /\ g.fix \in DOMAIN visits'[g.visit].fixes
    <3>1. CASE g \in geocodes
      BY <1>6, <1>8, <3>1 DEF IInv, TypeOK
    <3>2. CASE g.visit = v /\ g.fix = Len(visits[v].fixes) + 1
      BY <1>6, <2>1, <3>2
    <3>. QED
      BY <1>4, <3>1, <3>2
  <2>. QED
    BY <1>4, <1>6, <2>2 DEF IInv, TypeOK
<1>10. NewestIsOpen'
  <2>1. \A w \in DOMAIN visits : visits'[w].updating => visits[w].updating
    BY <1>5, <1>6
  <2>. QED
    BY <1>4, <1>6, <1>7, <2>1 DEF IInv, NewestIsOpen, OnScreen
<1>11. PointIsOfItsVisit'
  BY <1>6, <1>7, <1>8 DEF IInv, PointIsOfItsVisit
<1>12. AskedForNothing'
  <2>1. visits[v].allowed
    BY <1>4 DEF IInv, NewestIsOpen, AskedForNothing
  <2>. QED
    BY <1>6, <1>7, <2>1 DEF IInv, AskedForNothing
<1>13. MailIsOfItsVisit'
  BY <1>4, <1>6, <1>7, <1>8 DEF IInv, MailIsOfItsVisit
<1>14. CrashCauses'
  <2>1. visits'[v].fixes # <<>>
    <3>1. fixes # <<>>
      BY <1>2 DEF fixes
    <3>. QED
      BY <1>5, <1>6, <3>1
  <2>2. \A w \in DOMAIN visits : visits[w].fixes # <<>> => visits'[w].fixes # <<>>
    BY <1>6, <2>1
  <2>. QED
    BY <1>4, <1>6, <1>8, <2>2 DEF IInv, CrashCauses
<1>. QED
  BY <1>9, <1>10, <1>11, <1>12, <1>13, <1>14 DEF IInv

\* An answer is for a location the visit was told.
LEMMA GeocodeKeeps ==
    ASSUME IInv, NEW g \in geocodes, GeocodeAnswers(g) PROVE IInv'
<1> DEFINE v == g.visit
           here == visits[v].fixes[g.fix]
<1>1. visits \in Seq(Visit) /\ v \in DOMAIN visits /\ g.fix \in DOMAIN visits[v].fixes
  BY DEF IInv, TypeOK
<1>2. visits[v] \in Visit /\ visits[v].fixes # <<>>
  BY <1>1, VisitsTyped
<1>3. /\ geocodes' \subseteq geocodes
      /\ UNCHANGED <<permission, alert, pointName, maps>>
      /\ \/ here \in Address /\ visits' = Stored(g) /\ UNCHANGED crash
         \/ here \in Sea /\ crash' = "no country" /\ UNCHANGED visits
         \/ crash' = "no placemark" /\ UNCHANGED visits
  BY DEF GeocodeAnswers, location
<1>4. CASE here \in Address /\ visits' = Stored(g) /\ UNCHANGED crash
  <2> DEFINE found == [visits[v] EXCEPT !.tempStored = here]
  <2>1. visits' = [visits EXCEPT ![v] = found]
    BY <1>4 DEF Stored
  <2>2. /\ found \in Visit
        /\ found.open = visits[v].open /\ found.allowed = visits[v].allowed
        /\ found.tempStored = here /\ found.updating = visits[v].updating
        /\ found.fixes = visits[v].fixes
    BY <1>2, <1>4, Found DEF Name
  <2> HIDE DEF found
  <2>3. /\ visits' \in Seq(Visit) /\ Len(visits') = Len(visits) /\ DOMAIN visits' = DOMAIN visits
        /\ visits'[v] = found /\ \A w \in DOMAIN visits : w # v => visits'[w] = visits[w]
    BY <1>1, <2>1, <2>2, Replaced
  <2>4. \A w \in DOMAIN visits : /\ visits'[w].open = visits[w].open
                                /\ visits'[w].allowed = visits[w].allowed
                                /\ visits'[w].fixes = visits[w].fixes
                                /\ visits'[w].updating = visits[w].updating
    BY <2>2, <2>3
  <2>5. TypeOK'
    <3>1. \A h \in geocodes' : h.visit \in DOMAIN visits' /\ h.fix \in DOMAIN visits'[h.visit].fixes
      BY <1>3, <2>3, <2>4 DEF IInv, TypeOK
    <3>. QED
      BY <1>3, <1>4, <2>3, <3>1 DEF IInv, TypeOK
  <2>6. NewestIsOpen'
    BY <1>3, <2>3, <2>4 DEF IInv, NewestIsOpen, OnScreen
  <2>7. PointIsOfItsVisit'
    BY <1>1, <2>2, <2>3, <2>4 DEF IInv, PointIsOfItsVisit
  <2>8. AskedForNothing'
    BY <1>2, <2>2, <2>3, <2>4 DEF IInv, AskedForNothing
  <2>9. MailIsOfItsVisit'
    BY <1>3, <2>3, <2>4 DEF IInv, MailIsOfItsVisit
  <2>10. CrashCauses'
    BY <1>3, <1>4, <2>3, <2>4 DEF IInv, CrashCauses
  <2>. QED
    BY <2>5, <2>6, <2>7, <2>8, <2>9, <2>10 DEF IInv
<1>5. CASE UNCHANGED visits /\ crash' \in {"no country", "no placemark"}
            /\ (crash' = "no country" => here \in Sea)
  <2>1. TypeOK'
    <3>1. \A h \in geocodes' : h.visit \in DOMAIN visits' /\ h.fix \in DOMAIN visits'[h.visit].fixes
      BY <1>3, <1>5 DEF IInv, TypeOK
    <3>. QED
      BY <1>3, <1>5, <3>1 DEF IInv, TypeOK
  <2>2. NewestIsOpen' /\ PointIsOfItsVisit' /\ AskedForNothing' /\ MailIsOfItsVisit'
    BY <1>3, <1>5
       DEF IInv, NewestIsOpen, OnScreen, PointIsOfItsVisit, AskedForNothing, MailIsOfItsVisit
  <2>3. CrashCauses'
    BY <1>1, <1>2, <1>5 DEF CrashCauses
  <2>. QED
    BY <2>1, <2>2, <2>3 DEF IInv
<1>. QED
  BY <1>3, <1>4, <1>5

\* What is confirmed is what the visit has found.
LEMMA ConfirmKeeps ==
    ASSUME IInv, NEW v \in DOMAIN visits, DidTapConfirmButton(v) PROVE IInv'
<1> DEFINE closed == [visits[v] EXCEPT !.open = FALSE, !.updating = FALSE]
<1>1. visits \in Seq(Visit) /\ visits[v] \in Visit /\ v \in Nat
  BY VisitsTyped
<1>2. /\ visits' = [visits EXCEPT ![v] = closed]
      /\ pointName' = [visit |-> v, name |-> visits[v].tempStored]
      /\ ~alert /\ UNCHANGED <<permission, alert, geocodes, maps, crash>>
  BY DEF DidTapConfirmButton, location
<1>3. /\ closed \in Visit
      /\ closed.open = FALSE /\ closed.allowed = visits[v].allowed
      /\ closed.tempStored = visits[v].tempStored /\ closed.updating = FALSE
      /\ closed.fixes = visits[v].fixes
  BY <1>1, Closed
<1> HIDE DEF closed
<1>4. /\ visits' \in Seq(Visit) /\ Len(visits') = Len(visits) /\ DOMAIN visits' = DOMAIN visits
      /\ visits'[v] = closed /\ \A w \in DOMAIN visits : w # v => visits'[w] = visits[w]
  BY <1>1, <1>2, <1>3, Replaced
<1>5. \A w \in DOMAIN visits : /\ visits'[w].allowed = visits[w].allowed
                              /\ visits'[w].fixes = visits[w].fixes
                              /\ visits'[w].tempStored = visits[w].tempStored
  BY <1>3, <1>4
<1>6. TypeOK'
  <2>1. pointName' \in [visit : Nat, name : Name]
    BY <1>1, <1>2, Fields
  <2>2. \A g \in geocodes' : g.visit \in DOMAIN visits' /\ g.fix \in DOMAIN visits'[g.visit].fixes
    BY <1>2, <1>4, <1>5 DEF IInv, TypeOK
  <2>. QED
    BY <1>2, <1>4, <2>1, <2>2 DEF IInv, TypeOK
<1>7. NewestIsOpen'
  <2>1. ~visits'[v].open /\ ~visits'[v].updating
    BY <1>3, <1>4
  <2>2. \A w \in DOMAIN visits' : visits'[w].open => w = Len(visits')
    BY <1>4, <2>1 DEF IInv, NewestIsOpen
  <2>3. \A w \in DOMAIN visits' : visits'[w].updating => visits'[w].open /\ visits'[w].allowed
    BY <1>4, <2>1 DEF IInv, NewestIsOpen
  <2>. QED
    BY <1>2, <2>2, <2>3 DEF NewestIsOpen
<1>8. PointIsOfItsVisit' /\ AskedForNothing'
  BY <1>4, <1>5 DEF IInv, PointIsOfItsVisit, AskedForNothing
<1>9. CrashCauses'
  BY <1>2, <1>4, <1>5 DEF IInv, CrashCauses
<1>10. MailIsOfItsVisit'
  <2>1. pointName'.visit = v /\ pointName'.name = visits'[v].tempStored /\ ~visits'[v].open
    BY <1>2, <1>3, <1>4
  <2>. QED
    BY <1>4, <1>8, <2>1 DEF PointIsOfItsVisit, MailIsOfItsVisit
<1>. QED
  BY <1>6, <1>7, <1>8, <1>9, <1>10 DEF IInv

\* The steps that leave the visits alone.
LEMMA OthersKeep ==
    ASSUME IInv,
           \/ \E answer \in {"denied", "granted"} : AnswerAlert(answer)
           \/ ChangeSettings
           \/ \E name \in Name : SearchMap(name)
           \/ \E m \in DOMAIN maps : GoToAnnotation(m)
           \/ UNCHANGED vars
    PROVE  IInv'
<1>1. /\ UNCHANGED <<visits, geocodes, pointName>>
      /\ permission' \in {"notDetermined", "denied", "granted"}
      /\ alert' = FALSE \/ UNCHANGED alert
  <2>1. permission \in {"notDetermined", "denied", "granted"} /\ alert \in BOOLEAN
    BY DEF IInv, TypeOK
  <2>2. ASSUME NEW answer \in {"denied", "granted"}, AnswerAlert(answer)
        PROVE  alert' = FALSE /\ permission' = answer /\ UNCHANGED <<visits, geocodes, pointName>>
    BY <2>1, <2>2 DEF AnswerAlert
  <2>. QED
    BY <2>1, <2>2 DEF ChangeSettings, SearchMap, GoToAnnotation, location, vars
<1>2. maps' \in Seq(Map)
  <2>1. maps \in Seq(Map)
    BY DEF IInv, TypeOK
  <2>2. ASSUME NEW name \in Name, SearchMap(name) PROVE maps' \in Seq(Map)
    <3>1. [name |-> name, pin |-> "searching"] \in Map
      BY DEF Map
    <3>. QED
      BY <2>1, <2>2, <3>1 DEF SearchMap
  <2>3. ASSUME NEW m \in DOMAIN maps, GoToAnnotation(m) PROVE maps' \in Seq(Map)
    <3>1. CASE UNCHANGED maps
      BY <2>1, <3>1
    <3>2. ASSUME NEW pin \in {"shown", "nothing"}, maps' = [maps EXCEPT ![m].pin = pin]
          PROVE  maps' \in Seq(Map)
      <4> DEFINE done == [maps[m] EXCEPT !.pin = pin]
      <4>1. maps[m] \in Map
        BY <2>1
      <4>2. done \in Map
        BY <4>1, Pinned
      <4>3. maps' = [maps EXCEPT ![m] = done]
        BY <3>2
      <4> HIDE DEF done
      <4>. QED
        BY <2>1, <4>2, <4>3, Replaced
    <3>. QED
      BY <2>3, <3>1, <3>2 DEF GoToAnnotation
  <2>. QED
    BY <2>1, <2>2, <2>3 DEF AnswerAlert, ChangeSettings, vars
<1>3. \/ UNCHANGED <<maps, crash>>
      \/ crash = "no" /\ crash' = "no"
      \/ crash' = "no location" /\ UNCHANGED maps /\ \E m \in DOMAIN maps : maps[m].pin = "searching"
  BY DEF AnswerAlert, ChangeSettings, SearchMap, GoToAnnotation, vars, Running
<1>4. TypeOK'
  BY <1>1, <1>2, <1>3 DEF IInv, TypeOK
<1>5. NewestIsOpen'
  BY <1>1 DEF IInv, NewestIsOpen, OnScreen
<1>6. PointIsOfItsVisit' /\ AskedForNothing' /\ MailIsOfItsVisit'
  BY <1>1 DEF IInv, PointIsOfItsVisit, AskedForNothing, MailIsOfItsVisit
<1>7. CrashCauses'
  BY <1>1, <1>3 DEF IInv, CrashCauses
<1>. QED
  BY <1>4, <1>5, <1>6, <1>7 DEF IInv

-----------------------------------------------------------------------------
\* The location screens keep their visits apart (IInv), for all places and bounds.
THEOREM InvariantHolds == Spec => []IInv
<1>1. IInv /\ [Next]_vars => IInv'
  BY ViewDidLoadKeeps, DidUpdateKeeps, GeocodeKeeps, ConfirmKeeps, OthersKeep DEF Next
<1>. QED
  BY InitIInv, <1>1, PTL DEF Spec

\* An address found, and one handed to the form, is of a place of its own visit
\* (PointIsOfItsVisit, MailIsOfItsVisit).
THEOREM AddressesKeepTheirVisit == Spec => [](PointIsOfItsVisit /\ MailIsOfItsVisit)
<1>1. IInv => PointIsOfItsVisit /\ MailIsOfItsVisit
  BY DEF IInv
<1>. QED
  BY InvariantHolds, <1>1, PTL

=============================================================================

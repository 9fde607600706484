---------------------------- MODULE PointScreens ----------------------------
(***************************************************************************)
(* The two map screens: AddFishingPointViewController, which finds where    *)
(* the phone is and hands the address to the form, and                     *)
(* FishingPointViewController, which shows the address of a feed.          *)
(*                                                                         *)
(* Both ask a geocoder and force-unwrap what it answers.  The answers come *)
(* on the main queue, in any order, maybe after the screen was left: the    *)
(* completion handlers keep their screen alive.  Places with one address   *)
(* are one place here.                                                     *)
(***************************************************************************)
EXTENDS Naturals, Sequences

CONSTANTS
    Places,      \* where the phone can be
    Sea,         \* the places in no country
    NoAddress,   \* the empty string
    MaxVisits,   \* bound on the visits to the location screen
    MaxFixes,    \* bound on the locations one visit is told
    MaxMaps      \* bound on the maps opened

ASSUME PlacesAssumption == Sea \subseteq Places /\ NoAddress \notin Places
ASSUME BoundsAssumption == MaxVisits \in Nat /\ MaxFixes \in Nat /\ MaxMaps \in Nat

VARIABLES
    permission,  \* CLLocationManager.authorizationStatus, with the services enabled
    alert,       \* the request for permission is on display
    visits,      \* the location screens, in the order they were opened
    geocodes,    \* reverseGeocodeLocation: the visit, and which of its locations
    pointName,   \* the mailbox, with the visit it is from (0: none yet)
    maps,        \* the maps opened, with what came of their search
    crash        \* why the app has crashed

location == <<permission, alert>>
vars == <<location, visits, geocodes, pointName, maps, crash>>

Address == Places \ Sea
Name == Address \cup {NoAddress}
Visit == [open : BOOLEAN,
          allowed : BOOLEAN,     \* history: permitted when the screen loaded
          updating : BOOLEAN,    \* startUpdatingLocation, not yet stopped
          fixes : Seq(Places),   \* the locations it was told
          tempStored : Name]
Map == [name : Name, pin : {"searching", "shown", "nothing"}]

Running == crash = "no"
OnScreen == \E v \in DOMAIN visits : visits[v].open
Alive(v) == visits[v].open \/ \E g \in geocodes : g.visit = v

Init ==
    /\ permission \in {"notDetermined", "denied", "granted"} /\ alert = FALSE
    /\ visits = <<>> /\ geocodes = {}
    /\ pointName = [visit |-> 0, name |-> NoAddress]
    /\ maps = <<>> /\ crash = "no"

-----------------------------------------------------------------------------
(***************************************************************************)
(* The user and the phone.                                                 *)
(***************************************************************************)

\* The alert is answered; nobody is told of it.
AnswerAlert(answer) ==
    /\ Running /\ alert
    /\ alert' = FALSE /\ permission' = answer
    /\ UNCHANGED <<visits, geocodes, pointName, maps, crash>>

\* The user changes his mind in the settings.
ChangeSettings ==
    /\ permission # "notDetermined"
    /\ permission' = IF permission = "granted" THEN "denied" ELSE "granted"
    /\ UNCHANGED <<alert, visits, geocodes, pointName, maps, crash>>

-----------------------------------------------------------------------------
(***************************************************************************)
(* AddFishingPointViewController.                                          *)
(***************************************************************************)

\* viewDidLoad, checkAuthorizationStatus: ask, do nothing, or start.
ViewDidLoad ==
    /\ Running /\ ~OnScreen /\ Len(visits) < MaxVisits
    /\ visits' = Append(visits, [open |-> TRUE, allowed |-> permission = "granted",
                                 updating |-> permission = "granted", fixes |-> <<>>,
                                 tempStored |-> NoAddress])
    /\ alert' = (permission = "notDetermined")
    /\ UNCHANGED <<permission, geocodes, pointName, maps, crash>>

\* Mutant: an old location is not worth an address, and the updates stop all the same.
DidUpdateOldLocation(v, place) ==
    /\ Running /\ permission = "granted" /\ Len(visits[v].fixes) < MaxFixes
    /\ visits[v].updating
    /\ visits' = [visits EXCEPT ![v].updating = FALSE, ![v].fixes = Append(@, place)]
    /\ UNCHANGED <<location, geocodes, pointName, maps, crash>>

\* didUpdateLocations: look the address up and stop.  A second location may be on its
\* way when the updates stop.
DidUpdateLocations(v, place) ==
    /\ Running /\ permission = "granted" /\ Len(visits[v].fixes) < MaxFixes
    /\ visits[v].updating \/ (visits[v].fixes # <<>> /\ Alive(v))
    /\ visits' = [visits EXCEPT ![v].updating = FALSE, ![v].fixes = Append(@, place)]
    /\ geocodes' = geocodes \cup {[visit |-> v, fix |-> Len(visits[v].fixes) + 1]}
    /\ UNCHANGED <<location, pointName, maps, crash>>

\* Mutant: all visits share one tempStored, that of the newest.
StoredInNewest(g) ==
    [visits EXCEPT ![Len(visits)].tempStored = visits[g.visit].fixes[g.fix]]

\* The address goes to the screen that asked.
Stored(g) == [visits EXCEPT ![g.visit].tempStored = visits[g.visit].fixes[g.fix]]

\* The completion handler: placemarks! and country! trap.
GeocodeAnswers(g) ==
    /\ Running
    /\ geocodes' = geocodes \ {g}
    /\ \/ visits[g.visit].fixes[g.fix] \in Address /\ visits' = Stored(g) /\ UNCHANGED crash
       \/ visits[g.visit].fixes[g.fix] \in Sea /\ crash' = "no country" /\ UNCHANGED visits
       \/ crash' = "no placemark" /\ UNCHANGED visits
    /\ UNCHANGED <<location, pointName, maps>>

\* Whatever address there is goes into the mailbox.  Nothing listens to a screen that
\* is gone.
DidTapConfirmButton(v) ==
    /\ Running /\ ~alert /\ visits[v].open
    /\ pointName' = [visit |-> v, name |-> visits[v].tempStored]
    /\ visits' = [visits EXCEPT ![v].open = FALSE, ![v].updating = FALSE]
    /\ UNCHANGED <<location, geocodes, maps, crash>>

-----------------------------------------------------------------------------
(***************************************************************************)
(* FishingPointViewController.                                             *)
(***************************************************************************)

\* presentMapView, viewDidLoad: search for the feed's point.
SearchMap(name) ==
    /\ Running /\ ~OnScreen /\ Len(maps) < MaxMaps
    /\ maps' = Append(maps, [name |-> name, pin |-> "searching"])
    /\ UNCHANGED <<location, visits, geocodes, pointName, crash>>

\* An error or no placemark leaves the map as it is; location! traps.
GoToAnnotation(m) ==
    /\ Running /\ maps[m].pin = "searching"
    /\ \/ /\ \E pin \in {"shown", "nothing"} : maps' = [maps EXCEPT ![m].pin = pin]
          /\ UNCHANGED crash
       \/ crash' = "no location" /\ UNCHANGED maps
    /\ UNCHANGED <<location, visits, geocodes, pointName>>

-----------------------------------------------------------------------------
Next ==
    \/ \E answer \in {"denied", "granted"} : AnswerAlert(answer)
    \/ ChangeSettings \/ ViewDidLoad
    \/ \E v \in DOMAIN visits, place \in Places : DidUpdateLocations(v, place)
    \/ \E v \in DOMAIN visits : DidTapConfirmButton(v)
    \/ \E g \in geocodes : GeocodeAnswers(g)
    \/ \E name \in Name : SearchMap(name)
    \/ \E m \in DOMAIN maps : GoToAnnotation(m)

Spec == Init /\ [][Next]_vars

\* A phone that may be located is; the geocoder answers.
FairSpec ==
    /\ Spec
    /\ \A v \in 1..MaxVisits :
           SF_vars(v \in DOMAIN visits /\ \E place \in Places : DidUpdateLocations(v, place))
    /\ \A v \in 1..MaxVisits, i \in 1..MaxFixes :
           WF_vars([visit |-> v, fix |-> i] \in geocodes
                   /\ GeocodeAnswers([visit |-> v, fix |-> i]))

-----------------------------------------------------------------------------
(***************************************************************************)
(* Properties.                                                             *)
(***************************************************************************)

\* The values every variable takes.
TypeOK ==
    /\ permission \in {"notDetermined", "denied", "granted"} /\ alert \in BOOLEAN
    /\ visits \in Seq(Visit)
    /\ \A g \in geocodes : g.visit \in DOMAIN visits /\ g.fix \in DOMAIN visits[g.visit].fixes
    /\ pointName \in [visit : Nat, name : Name]
    /\ maps \in Seq(Map)
    /\ crash \in {"no", "no country", "no placemark", "no location"}

\* One location screen is open at a time, the newest; the request is on display over it.
NewestIsOpen ==
    /\ \A v \in DOMAIN visits : visits[v].open => v = Len(visits)
    /\ \A v \in DOMAIN visits : visits[v].updating => visits[v].open /\ visits[v].allowed
    /\ alert => OnScreen

\* The address a visit has found is of a place the phone was at during this visit, however
\* late it came and whatever visits were before and after.
PointIsOfItsVisit ==
    \A v \in DOMAIN visits :
        visits[v].tempStored = NoAddress \/ \E i \in DOMAIN visits[v].fixes :
                                                visits[v].tempStored = visits[v].fixes[i]

\* A visit that had to ask for permission never finds one, whatever the answer.
AskedForNothing ==
    \A v \in DOMAIN visits :
        ~visits[v].allowed => visits[v].fixes = <<>> /\ visits[v].tempStored = NoAddress

\* What the form is given is what the visit had found when it was confirmed: a place of
\* that visit, or nothing.
MailIsOfItsVisit ==
    pointName.visit # 0 =>
        /\ pointName.visit \in DOMAIN visits /\ ~visits[pointName.visit].open
        /\ \/ pointName.name = NoAddress
           \/ \E i \in DOMAIN visits[pointName.visit].fixes :
                  pointName.name = visits[pointName.visit].fixes[i]

\* The app stops only for a location it was told, at sea or unknown to the geocoder, or for
\* a map it searches.
CrashCauses ==
    /\ crash = "no country" => \E v \in DOMAIN visits : \E i \in DOMAIN visits[v].fixes :
                                   visits[v].fixes[i] \in Sea
    /\ crash = "no placemark" => \E v \in DOMAIN visits : visits[v].fixes # <<>>
    /\ crash = "no location" => \E m \in DOMAIN maps : maps[m].pin = "searching"

IInv == /\ TypeOK /\ NewestIsOpen /\ PointIsOfItsVisit /\ AskedForNothing /\ MailIsOfItsVisit
        /\ CrashCauses

\* A visit with permission finds the address, unless it is confirmed before, the permission
\* is taken back for good, or the app crashes - which it may do after the visit, too.
AllowedVisitLocates ==
    \A v \in 1..MaxVisits :
        (v \in DOMAIN visits /\ visits[v].allowed)
            ~> \/ permission = "denied" \/ ~Running
               \/ v \in DOMAIN visits /\ (visits[v].tempStored # NoAddress \/ ~visits[v].open)

=============================================================================

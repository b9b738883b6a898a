-------------------------------- MODULE MCSite --------------------------------
(***************************************************************************)
(* The public site in one tab: the shell's session, its navigation, and    *)
(* what the tab tells the traffic collector.  They share no state, so a    *)
(* behaviour runs one of them, in the way its scenario names.              *)
(***************************************************************************)
EXTENDS SiteSession, SiteNavigation, Traffic, TLC

CONSTANTS Scenarios

VARIABLE scenario

vars == <<sessionVars, navigationVars, trafficVars, scenario>>

MCPages == {"/", "/publicatie"}
MCMissing == {"/publicatie/8f21", "/nergens"}
MCParentRoute == "/publicatie/8f21" :> "/publicatie" @@ "/nergens" :> NoRoute

FirstResident == CHOOSE r \in Resident : TRUE

MCInit ==
  /\ TabInit /\ NavInit
  /\ scenario \in Scenarios
  /\ TrafficInit
  /\ settings.record = (scenario = "recorded")
  /\ scenario \notin {"measured", "recorded"} => settings.consentRequired /\ settings.persist
  /\ inTurn = (scenario = "calm tab") /\ secret = inTurn
  /\ patient /\ (scenario # "pages" => mayEdit)
  /\ page = "opening"

(* Bound: the first of the residents to sign in is always the same.         *)
CalmTab == TabNext /\ (minted = 0 /\ minted' = 1 => bearer'[1].who = FirstResident)

(* Any order; bounds: one sign-in, no invitation, no dev login, no branch   *)
(* and no data asked for again.                                            *)
OverlappingTab ==
  /\ TabNext
  /\ page' # "minted" /\ narrow' = Quiet
  /\ load'.phase = "lists" => page = "opening" \/ load.phase = "lists"
  /\ minted' # minted => minted = 0 \/ page # "away"

(* A visit that is not recorded, and one that is, of one page and session.  *)
MeasuredVisit == TrafficNext /\ pushes' = 0
RecordedVisit == TrafficNext /\ client'.place # "/zoeken" /\ browser'.made <= 1

MCNext ==
  /\ \/ /\ UNCHANGED <<navigationVars, trafficVars>>
        /\ \/ scenario = "tab" /\ OverlappingTab
           \/ scenario = "calm tab" /\ CalmTab
     \/ /\ UNCHANGED <<sessionVars, trafficVars>>
        /\ scenario = "pages" /\ NavNext
     \/ /\ UNCHANGED <<sessionVars, navigationVars>>
        /\ \/ scenario = "measured" /\ MeasuredVisit
           \/ scenario = "recorded" /\ RecordedVisit
  /\ UNCHANGED scenario

TabOnly == UNCHANGED <<navigationVars, trafficVars, scenario, inTurn>>

(* The foreground page runs its timers, time passes and the session is read; *)
(* no other request need ever be answered, unless the requests are in turn  *)
(* and the end waits for one.                                              *)
Fairness ==
  /\ WF_vars(Tick /\ TabOnly)
  /\ WF_vars((\E t \in Tracker : WarnTimer(t)) /\ TabOnly)
  /\ WF_vars((\E t \in Tracker : EndTimer(t)) /\ TabOnly)

MCSpec == MCInit /\ [][MCNext]_vars /\ Fairness
=============================================================================

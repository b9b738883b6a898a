---------------------------- MODULE SiteNavigation ----------------------------
(***************************************************************************)
(* Which page of the portal the tab shows, and which one its editing door  *)
(* opens (site/App.vue: go, onPopState, loadRoute, refreshEditingContext,  *)
(* enterEditMode, leaveEditMode, refreshShownPage).                        *)
(*                                                                         *)
(* Nothing stops a second loadRoute() while one is under way: each resumes  *)
(* after its own awaits and writes what the shell shows.  A published page  *)
(* is its route and a version; the browser's cache may answer an older one  *)
(* to a read that is not fresh.                                            *)
(*                                                                         *)
(* Which answer is shown is then a race.  What the shell promises, it       *)
(* promises a visitor who waits for it: "patient" says of a behaviour that  *)
(* every step the visitor takes finds no read under way.                   *)
(***************************************************************************)
EXTENDS Integers

CONSTANTS
  Home,          \* the route "/"
  Pages,         \* routes a published page answers, Home among them
  Locked,        \* routes behind the sign-in
  Missing,       \* routes no page answers
  ParentRoute,   \* [Missing -> routes and NoRoute]: one level up
  AccountRoutes, \* routes of the signed-in area
  SharedRoutes,  \* routes of a shared dossier
  MaxReads,      \* bound: reads under way at a time
  MaxVersion     \* bound: publications of one page

NoRoute == "none"
NoContext == "no context"
Routes == Pages \cup Locked \cup Missing \cup AccountRoutes \cup SharedRoutes
Read == 1..MaxReads

ASSUME SiteNavigationAssumption ==
  /\ Home \in Pages /\ {NoRoute, NoContext} \cap Routes = {}
  /\ Pages \cap (AccountRoutes \cup SharedRoutes) = {}
  /\ Missing \cap (Pages \cup Locked \cup AccountRoutes \cup SharedRoutes) = {}
  /\ Locked \cap (Pages \cup AccountRoutes \cup SharedRoutes) = {}
  /\ ParentRoute \in [Missing -> Pages \cup Missing \cup {NoRoute}]
  /\ MaxReads \in Nat \ {0} /\ MaxVersion \in Nat

VARIABLES
  version,      \* the CMS: the version of each page that is published
  cached,       \* the browser's cache: the version it holds of each page
  mayEdit,      \* whether this visitor is an editor
  route,        \* App.route
  shown,        \* App.page: a page and its version, or NoPage
  error,        \* App.error: "none", or why there is no page
  routeParam,   \* App.routeParam is set
  loading,      \* App.loading
  signInNeeded, \* App.signInNeeded
  editing,      \* App.editing: NoContext, or the page the context names
  denied,       \* App.editingDenied
  editMode,     \* App.editMode
  entering,     \* enterEditMode() waits for the editor's bundle
  mounted,      \* the page the mounted editor edits, or NoRoute
  reads,        \* the calls of loadRoute() and refreshShownPage() under way
  owed,         \* history: the page the editor last left, as it was published by then
  patient       \* what this visitor is like; fixed

navigationVars == <<version, cached, mayEdit, route, shown, error, routeParam, loading, signInNeeded,
                    editing, denied, editMode, entering, mounted, reads, owed, patient>>
screen == <<shown, error, routeParam, loading, signInNeeded>>
door == <<editing, denied, editMode, entering, mounted>>
server == <<version, cached, mayEdit>>

NoPage == [of |-> NoRoute, version |-> 0]
NoRead == [phase |-> "no", route |-> NoRoute, fresh |-> FALSE]
Page == [of : Pages, version : 0..MaxVersion]
Answer == [page : Page \cup {NoPage}, error : {"none", "missing", "locked", "failed"}]

(* fetchPage(): a read that is not fresh may be answered from the cache.    *)
Found(r, v) == [page |-> [of |-> r, version |-> v], error |-> "none"]
Refused(why) == [page |-> NoPage, error |-> why]
FetchPage(r, fresh) ==
  {Refused("failed")} \cup
  IF r \in Pages THEN {Found(r, version[r])} \cup IF fresh THEN {} ELSE {Found(r, cached[r])}
  ELSE IF r \in Locked THEN {Refused("locked")}
  ELSE {Refused("missing")}
Cache(answer) ==
  cached' = IF answer.error = "none" THEN [cached EXCEPT ![answer.page.of] = answer.page.version] ELSE cached

ReadBecomes(i, state) == reads' = [reads EXCEPT ![i] = state]
AllQuiet == \A i \in Read : reads[i].phase = "no"

NavInit ==
  /\ version = [p \in Pages |-> 0] /\ cached = [p \in Pages |-> 0] /\ mayEdit \in BOOLEAN
  /\ route = Home /\ shown = NoPage /\ error = "none" /\ routeParam = FALSE
  /\ loading = TRUE /\ signInNeeded = FALSE
  /\ editing = NoContext /\ denied = FALSE /\ editMode = FALSE /\ entering = FALSE /\ mounted = NoRoute
  /\ reads = [i \in Read |-> IF i = 1 THEN [phase |-> "page", route |-> Home, fresh |-> FALSE] ELSE NoRead]
  /\ owed = NoPage
  /\ patient \in BOOLEAN

(* loadRoute() up to its first await.  The signed-in area and a shared      *)
(* dossier read no page, and leave the editing context as it was.          *)
StartLoad(r, fresh) ==
  /\ signInNeeded' = FALSE /\ error' = "none" /\ routeParam' = FALSE
  /\ IF r \in AccountRoutes \cup SharedRoutes
     THEN shown' = NoPage /\ loading' = FALSE /\ reads' = reads
     ELSE /\ loading' = TRUE /\ shown' = shown
          /\ \E i \in Read :
               reads[i].phase = "no" /\ ReadBecomes(i, [phase |-> "page", route |-> r, fresh |-> fresh])

(* go(), goSearch() and the browser's own back and forward.  While the     *)
(* page loads, the editor's host is not rendered, and the editor in it is  *)
(* gone.                                                                   *)
Go(r) ==
  /\ route' = r
  /\ StartLoad(r, FALSE)
  /\ mounted' = NoRoute
  /\ owed' = NoPage
  /\ UNCHANGED <<server, editing, denied, editMode, entering>>

AskContextOnce(i) ==
  IF denied \/ editing # NoContext THEN ReadBecomes(i, NoRead) ELSE ReadBecomes(i, [phase |-> "context", route |-> route, fresh |-> FALSE])

(* refreshEditingContext() asks about the route of the moment, and a        *)
(* visitor once refused is not asked for again.                            *)
AskContext(i) ==
  IF denied THEN ReadBecomes(i, NoRead) ELSE ReadBecomes(i, [phase |-> "context", route |-> route, fresh |-> FALSE])

(* A page that is missing makes its parent answer, one level up only.       *)
PageAnswered(i) ==
  /\ reads[i].phase = "page"
  /\ \E answer \in FetchPage(reads[i].route, reads[i].fresh) :
       /\ Cache(answer)
       /\ IF answer.error = "missing" /\ ParentRoute[reads[i].route] # NoRoute
          THEN ReadBecomes(i, [reads[i] EXCEPT !.phase = "parent"]) /\ UNCHANGED screen
          ELSE /\ shown' = answer.page
               /\ error' = IF answer.error = "none" THEN error ELSE answer.error
               /\ signInNeeded' = IF answer.error = "none" THEN signInNeeded ELSE answer.error = "locked"
               /\ loading' = FALSE
               /\ AskContext(i)
               /\ UNCHANGED routeParam
  /\ UNCHANGED <<version, mayEdit, route, door, owed>>

ParentAnswered(i) ==
  /\ reads[i].phase = "parent"
  /\ \E answer \in FetchPage(ParentRoute[reads[i].route], reads[i].fresh) :
       /\ Cache(answer)
       /\ shown' = answer.page
       /\ error' = IF answer.error = "none" THEN error ELSE answer.error
       /\ routeParam' = (routeParam \/ answer.error = "none")
  /\ loading' = FALSE
  /\ ReadBecomes(i, NoRead)
  /\ UNCHANGED <<version, mayEdit, route, signInNeeded, door, owed>>

(* The context names the page of the route asked about, or no page; any     *)
(* failure counts as a refusal.                                            *)
ContextAnswered(i) ==
  /\ reads[i].phase = "context"
  /\ \/ /\ mayEdit
        /\ editing' = IF reads[i].route \in Pages THEN reads[i].route ELSE NoRoute
        /\ UNCHANGED <<denied, mounted>>
     \/ editing' = NoContext /\ denied' = TRUE /\ mounted' = NoRoute
  /\ ReadBecomes(i, NoRead)
  /\ UNCHANGED <<server, route, screen, editMode, entering, owed>>

(* The editing door: shown with a context, opened on the page it names.     *)
DoorShown == editing # NoContext /\ ~editMode

EnterEditMode ==
  /\ DoorShown /\ editing # NoRoute
  /\ editMode' = TRUE /\ entering' = TRUE
  /\ UNCHANGED <<server, route, screen, editing, denied, mounted, reads, owed>>

(* The bundle arrived: the editor is mounted where its host is rendered,    *)
(* on the page the context names by then; or the bundle did not load.       *)
HostRendered ==
  /\ editMode /\ editing \notin {NoContext, NoRoute}
  /\ route \notin AccountRoutes \cup SharedRoutes
  /\ ~signInNeeded /\ ~loading /\ error = "none"

EditorLoaded ==
  /\ entering
  /\ entering' = FALSE
  /\ mounted' \in {mounted} \cup (IF HostRendered THEN {editing} ELSE {})
  /\ UNCHANGED <<server, route, screen, editing, denied, editMode, reads, owed>>

(* The editor publishes its page and tells the shell, which reads the page  *)
(* of its route again without a word; a page found through its child is    *)
(* left alone.                                                             *)
Publish ==
  /\ mounted # NoRoute /\ version[mounted] < MaxVersion
  /\ version' = [version EXCEPT ![mounted] = @ + 1]
  /\ IF routeParam THEN reads' = reads
     ELSE \E i \in Read :
            reads[i].phase = "no" /\ ReadBecomes(i, [phase |-> "shown", route |-> route, fresh |-> TRUE])
  /\ UNCHANGED <<cached, mayEdit, route, screen, door, owed>>

ShownPageAnswered(i) ==
  /\ reads[i].phase = "shown"
  /\ \E answer \in FetchPage(reads[i].route, TRUE) :
       /\ Cache(answer)
       /\ shown' = IF answer.error = "none" THEN answer.page ELSE shown
  /\ ReadBecomes(i, NoRead)
  /\ UNCHANGED <<version, mayEdit, route, error, routeParam, loading, signInNeeded, door, owed>>

LeaveEditModeFromCache ==
  /\ mounted # NoRoute
  /\ mounted' = NoRoute /\ editMode' = FALSE
  /\ StartLoad(route, FALSE)
  /\ owed' = [of |-> mounted, version |-> version[mounted]]
  /\ UNCHANGED <<server, route, editing, denied, entering>>

LeaveEditMode ==
  /\ mounted # NoRoute
  /\ mounted' = NoRoute /\ editMode' = FALSE
  /\ StartLoad(route, TRUE)
  /\ owed' = [of |-> mounted, version |-> version[mounted]]
  /\ UNCHANGED <<server, route, editing, denied, entering>>

(* What the visitor does, and what then arrives.                           *)
Act == (\E r \in Routes : Go(r)) \/ EnterEditMode \/ Publish \/ LeaveEditMode
Arrive ==
  \/ \E i \in Read : PageAnswered(i) \/ ParentAnswered(i) \/ ContextAnswered(i) \/ ShownPageAnswered(i)
  \/ EditorLoaded

NavNext ==
  /\ \/ (patient => AllQuiet /\ ~entering) /\ Act
     \/ Arrive
  /\ UNCHANGED patient

NavSpec == NavInit /\ [][NavNext]_navigationVars

----------------------------------------------------------------------------
(* With no read under way, the screen is the answer of its route: its page, *)
(* its parent's with the rest of the route as a parameter, the way in, or   *)
(* why there is none.                                                      *)
ScreenIsTheRoutes ==
  AllQuiet /\ error # "failed" =>
    IF route \in Pages THEN shown.of = route /\ error = "none" /\ ~routeParam
    ELSE /\ signInNeeded = (route \in Locked)
         /\ IF route \in Missing /\ ParentRoute[route] \in Pages
            THEN shown.of = ParentRoute[route] /\ routeParam
            ELSE shown = NoPage

(* On a page of its own, the editing door and the editor behind it are for  *)
(* that page, or there is none.                                            *)
DoorIsThePages ==
  AllQuiet /\ route \in Pages =>
    /\ editing \in {route, NoContext}
    /\ mounted \in {route, NoRoute}

(* Leaving the editor shows the page as published by then, not the copy the *)
(* cache still held, until the visitor goes elsewhere.                     *)
PublishedIsShown ==
  AllQuiet /\ owed # NoPage /\ shown.of = owed.of => shown.version >= owed.version

(* To a patient visitor the screen, the door and the editor are the route's *)
(* (loadRoute, refreshEditingContext, enterEditMode).                      *)
RouteIsOnScreenSerially == patient => ScreenIsTheRoutes /\ DoorIsThePages

(* A patient editor is shown what was published (leaveEditMode).            *)
PublishedIsShownSerially == patient => PublishedIsShown
=============================================================================

------------------------------ MODULE SitePanels ------------------------------
(***************************************************************************)
(* The two panels of edit mode that change the rest of the portal: the tree *)
(* of pages (editor/SitePagesPanel.vue, editor/pageTree.js) and the menu    *)
(* (editor/SiteMenuPanel.vue, editor/menuModel.js), both through            *)
(* editor/portalObjects.js.  The store is external; it refuses a write      *)
(* whose If-Match is not the version it has, and deletes without looking.   *)
(***************************************************************************)
EXTENDS Integers, Sequences, SequencesExt

CONSTANTS
  PageIds,       \* ids the store has or will give
  CurrentPage,   \* the one open in the editor
  Managers,      \* people with the panels open
  TypedRoutes,   \* routes as typed
  Address,       \* [TypedRoutes -> addresses]: normaliseRoute()
  MenuNames,
  MaxSends       \* bound: writes sent

Root == "the top"
NoOne == "no one"

ASSUME SitePanelsAssumption ==
  /\ Root \notin PageIds /\ NoOne \notin Managers /\ MaxSends \in Nat

Gone == [status |-> "gone"]
Unused == [status |-> "unused"]  \* an id the store has not given yet
IsPage(page) == page \notin {Gone, Unused}

VARIABLES
  site,      \* the store: per page id a page, Gone or Unused
  panel,     \* per manager: the pages as listed, the page to confirm, whether a write
             \* is busy, whether the list is hidden, and which lists are asked for
  request,   \* per manager: the write under way
  menu,      \* the store: the menu's items and version
  list,      \* per manager: the menu as loaded, its items as edited, dirty, loading
  saving,    \* per manager: the items being saved and the version they were loaded at
  sends,
  sole       \* fixed at the start: the only manager who changes pages, whose requests do not fail
             \* and who starts no write while a list is asked for; or NoOne

panelVars == <<site, panel, request, menu, list, saving, sends, sole>>

NoRequest == [kind |-> "no"]
Unlisted == <<>>
Fails == sole = NoOne

Page(status, route, parent) ==
  [status |-> status, route |-> route, parent |-> parent, title |-> 0, version |-> 1]

FirstPages == {p \in [PageIds -> {Unused} \cup [status : {"draft", "published"},
                       route : {Address[r] : r \in TypedRoutes}, parent : {Root},
                       title : {0}, version : {1}]] :
                 \A i, j \in PageIds : IsPage(p[i]) /\ IsPage(p[j]) /\ i # j => p[i].route # p[j].route}

PanelInit ==
  /\ site \in FirstPages
  /\ panel = [m \in Managers |->
       [pages |-> Unlisted, confirming |-> Root, busy |-> FALSE, loading |-> TRUE,
        asked |-> {"mounted"}]]
  /\ request = [m \in Managers |-> NoRequest]
  /\ menu = [items |-> <<>>, version |-> 1]
  /\ list = [m \in Managers |->
       [known |-> FALSE, items |-> <<>>, version |-> 0, dirty |-> FALSE, loading |-> TRUE]]
  /\ saving = [m \in Managers |-> NoRequest]
  /\ sends = 0 /\ sole \in Managers \cup {NoOne}

menuVars == <<menu, list, saving>>
pagesVars == <<site, panel, request>>

-----------------------------------------------------------------------------

Listed(m) == DOMAIN panel[m].pages

(* list(): the pages there are, each with its version.  The one asked for   *)
(* when the panel opened and the one after a write may be under way at once. *)
ListAnswered(m, why) ==
  /\ why \in panel[m].asked
  /\ LET answered == [panel[m] EXCEPT !.loading = FALSE, !.asked = @ \ {why},
                                     !.busy = @ /\ why = "mounted"]
     IN \/ panel' = [panel EXCEPT ![m] =
             [answered EXCEPT !.pages = [i \in {j \in PageIds : IsPage(site[j])} |-> site[i]]]]
        \/ Fails /\ panel' = [panel EXCEPT ![m] = answered]
  /\ UNCHANGED <<site, request, menuVars, sends, sole>>

(* A set of pages and what lies below one of them, as a list of pages says. *)
Closed(ids, pages) == \A p \in DOMAIN pages : pages[p].parent \in ids => p \in ids

(* These pages and all below them: the least closed set that has them.      *)
Beneath(top, pages) ==
  {p \in top \cup DOMAIN pages :
     \A ids \in SUBSET (top \cup DOMAIN pages) : top \subseteq ids /\ Closed(ids, pages) => p \in ids}

(* Mutant: only the page itself is refused.                                *)
SubtreeIdsSelf(id, pages) == {id}

SubtreeIds(id, pages) == Beneath({id}, pages)

(* buildPageTree(): what hangs from the top, or from a parent not listed.  *)
PageTree(pages) == Beneath({p \in DOMAIN pages : pages[p].parent \notin DOMAIN pages}, pages)

(* run(): one write at a time.                                             *)
Send(m, write) ==
  /\ ~panel[m].busy /\ sends < MaxSends
  /\ sends' = sends + 1
  /\ request' = [request EXCEPT ![m] = write]
  /\ panel' = [panel EXCEPT ![m].busy = TRUE,
                            ![m].confirming = IF write.kind = "delete" THEN Root ELSE @]
  /\ UNCHANGED <<site, menuVars, sole>>

(* What the rows offer: nothing while the list loads.                      *)
Rows(m) == IF panel[m].loading THEN {} ELSE PageTree(panel[m].pages)

Rename(m, id) ==
  Send(m, [kind |-> "check", page |-> id, payload |-> [panel[m].pages[id] EXCEPT !.title = 1 - @]])

MovePage(m, id, parent) ==
  /\ parent \notin SubtreeIds(id, panel[m].pages)
  /\ Send(m, [kind |-> "check", page |-> id, payload |-> [panel[m].pages[id] EXCEPT !.parent = parent]])

(* remove(): a draft other than the page being edited, on the second click. *)
AskRemove(m, id) ==
  /\ panel[m].pages[id].status = "draft" /\ id # CurrentPage
  /\ panel[m].confirming # id /\ ~panel[m].busy
  /\ panel' = [panel EXCEPT ![m].confirming = id]
  /\ UNCHANGED <<site, request, menuVars, sends, sole>>

CancelRemove(m) ==
  /\ panel[m].confirming \in Rows(m)
  /\ panel' = [panel EXCEPT ![m].confirming = Root]
  /\ UNCHANGED <<site, request, menuVars, sends, sole>>

RemovePage(m, id) ==
  /\ panel[m].pages[id].status = "draft"
  /\ panel[m].confirming = id
  /\ Send(m, [kind |-> "delete", page |-> id])

Free(m, address) == \A i \in Listed(m) : panel[m].pages[i].route # address

(* create(): the form is there while the list loads too.                    *)
Create(m, route, parent) ==
  /\ Free(m, Address[route])
  /\ Send(m, [kind |-> "post", payload |-> Page("draft", Address[route], parent)])

(* What run() does when the write was answered: the list again after a      *)
(* success or a conflict.                                                  *)
Finish(m, again) ==
  /\ request' = [request EXCEPT ![m] = NoRequest]
  /\ panel' = [panel EXCEPT ![m].busy = again, ![m].loading = @ \/ again,
                            ![m].asked = IF again THEN @ \cup {"written"} ELSE @]

CheckAnswered(m) ==
  /\ request[m].kind = "check"
  /\ LET id == request[m].page IN
     \/ /\ site[id] # Gone /\ site[id].version = request[m].payload.version
        /\ request' = [request EXCEPT ![m].kind = "put"]
        /\ UNCHANGED panel
     \/ site[id] # Gone /\ site[id].version # request[m].payload.version /\ Finish(m, TRUE)
     \/ (Fails \/ site[id] = Gone) /\ Finish(m, FALSE)
  /\ UNCHANGED <<site, menuVars, sends, sole>>

PutAnswered(m) ==
  /\ request[m].kind = "put"
  /\ LET id == request[m].page
         page == request[m].payload IN
     \/ /\ site[id] # Gone /\ site[id].version = page.version
        /\ site' = [site EXCEPT ![id] = [page EXCEPT !.version = @ + 1]]
        /\ \/ Finish(m, TRUE)
           \/ Fails /\ Finish(m, FALSE)
     \/ site[id] # Gone /\ site[id].version # page.version /\ Finish(m, TRUE) /\ UNCHANGED site
     \/ (Fails \/ site[id] = Gone) /\ Finish(m, FALSE) /\ UNCHANGED site
  /\ UNCHANGED <<menuVars, sends, sole>>

DeleteAnswered(m) ==
  /\ request[m].kind = "delete"
  /\ \/ site' = [site EXCEPT ![request[m].page] = Gone] /\ Finish(m, site[request[m].page] # Gone)
     \/ Fails /\ Finish(m, FALSE) /\ UNCHANGED site
  /\ UNCHANGED <<menuVars, sends, sole>>

CreateAnswered(m) ==
  /\ request[m].kind = "post"
  /\ \/ /\ \E id \in {i \in PageIds : site[i] = Unused} :
             site' = [site EXCEPT ![id] = request[m].payload]
        /\ \/ Finish(m, TRUE)
           \/ Fails /\ Finish(m, FALSE)
     \/ Fails /\ Finish(m, FALSE) /\ UNCHANGED site
  /\ UNCHANGED <<menuVars, sends, sole>>

PagesStep(m) ==
  \/ \E why \in panel[m].asked : ListAnswered(m, why)
  \/ CheckAnswered(m) \/ PutAnswered(m) \/ DeleteAnswered(m) \/ CreateAnswered(m)
  \/ CancelRemove(m)
  \/ \E id \in Rows(m) :
       \/ Rename(m, id) \/ AskRemove(m, id) \/ RemovePage(m, id)
       \/ \E parent \in (Rows(m) \ {id}) \cup {Root} : MovePage(m, id, parent)
  \/ \E route \in TypedRoutes, parent \in PageTree(panel[m].pages) \cup {Root} : Create(m, route, parent)

PagesNext ==
  \E m \in Managers :
    /\ PagesStep(m)
    /\ sole # NoOne => m = sole /\ (request'[m] = NoRequest \/ panel[m].asked = {})

-----------------------------------------------------------------------------

(* load() and pick(): the menu as stored, and its items to edit.           *)
Picked(known) ==
  [known |-> known, items |-> menu.items, version |-> menu.version, dirty |-> FALSE, loading |-> FALSE]

MenuLoaded(m) ==
  /\ list[m].loading
  /\ \/ list' = [list EXCEPT ![m] = Picked(TRUE)]
     \/ Fails /\ list' = [list EXCEPT ![m].loading = FALSE]
  /\ saving' = [saving EXCEPT ![m] = NoRequest]
  /\ UNCHANGED <<menu, pagesVars, sends, sole>>

(* apply(): a change to the items on screen, which are hidden while loading. *)
Apply(m, items) ==
  /\ list[m].known /\ ~list[m].loading
  /\ list' = [list EXCEPT ![m].items = items, ![m].dirty = TRUE]
  /\ UNCHANGED <<menu, saving, pagesVars, sends, sole>>

AddItem(m, name) ==
  Len(list[m].items) < Cardinality(MenuNames) /\ Apply(m, Append(list[m].items, name))

RenameItem(m, i, name) == Apply(m, [list[m].items EXCEPT ![i] = name])
RaiseItem(m, i) ==
  LET items == list[m].items IN
  i > 1 /\ Apply(m, [items EXCEPT ![i - 1] = items[i], ![i] = items[i - 1]])
RemoveItem(m, i) == Apply(m, RemoveAt(list[m].items, i))

SaveMenu(m) ==
  /\ list[m].known /\ ~list[m].loading /\ list[m].dirty /\ saving[m] = NoRequest
  /\ sends < MaxSends /\ sends' = sends + 1
  /\ saving' = [saving EXCEPT ![m] =
       [kind |-> "check", items |-> list[m].items, base |-> list[m].version]]
  /\ UNCHANGED <<menu, list, pagesVars, sole>>

(* Mutant: a save that failed counts as saved.                             *)
MenuRefusedClean(m) ==
  /\ saving' = [saving EXCEPT ![m] = NoRequest]
  /\ list' = [list EXCEPT ![m].dirty = FALSE]

MenuRefused(m) == saving' = [saving EXCEPT ![m] = NoRequest] /\ UNCHANGED list

MenuChecked(m) ==
  /\ saving[m].kind = "check"
  /\ \/ menu.version = saving[m].base /\ saving' = [saving EXCEPT ![m].kind = "put"] /\ UNCHANGED list
     \/ (Fails \/ menu.version # saving[m].base) /\ MenuRefused(m)
  /\ UNCHANGED <<menu, pagesVars, sends, sole>>

MenuPut(m) ==
  /\ saving[m].kind = "put"
  /\ \/ /\ menu.version = saving[m].base
        /\ menu' = [items |-> saving[m].items, version |-> menu.version + 1]
        /\ \/ /\ saving' = [saving EXCEPT ![m].kind = "load"]
              /\ list' = [list EXCEPT ![m].loading = TRUE]
           \/ Fails /\ MenuRefused(m)
     \/ (Fails \/ menu.version # saving[m].base) /\ MenuRefused(m) /\ UNCHANGED menu
  /\ UNCHANGED <<pagesVars, sends, sole>>

MenuNext ==
  \E m \in Managers :
    \/ MenuLoaded(m) \/ SaveMenu(m) \/ MenuChecked(m) \/ MenuPut(m)
    \/ \E name \in MenuNames : AddItem(m, name)
    \/ \E i \in DOMAIN list[m].items :
         \/ RaiseItem(m, i) \/ RemoveItem(m, i) \/ \E name \in MenuNames : RenameItem(m, i, name)

PanelNext == PagesNext \/ MenuNext
PanelSpec == PanelInit /\ [][PanelNext]_panelVars

-----------------------------------------------------------------------------

Pages == {i \in PageIds : IsPage(site[i])}

(* Every page is found from the top of the portal, so no page is lost from  *)
(* the list that could put it back (movePagePayload, buildPageTree).  A     *)
(* page whose parent is gone is shown at the top.                          *)
EveryPageIsListed == Pages \subseteq PageTree([p \in Pages |-> site[p]])

(* No two pages have one address (newPagePayload).                         *)
RoutesAreUnique == \A i, j \in Pages : i # j => site[i].route # site[j].route

(* Both hold of one manager whose lists are answered before the next write. *)
PageTreeIsSoundCalm == sole # NoOne => EveryPageIsListed /\ RoutesAreUnique

(* A menu that is not called dirty is the stored one of its version (load,  *)
(* pick, apply and save of SiteMenuPanel.vue).                             *)
CleanMenuIsStored ==
  \A m \in Managers :
    list[m].known /\ ~list[m].dirty /\ list[m].version = menu.version => list[m].items = menu.items
=============================================================================

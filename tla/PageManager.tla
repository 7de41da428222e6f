----------------------------- MODULE PageManager -----------------------------
(***************************************************************************)
(* The page manager of the weather application's framework (PM_Base.cpp,   *)
(* PM_Router.cpp, PM_State.cpp, PM_Drag.cpp): a stack of pages, each with  *)
(* a life cycle driven by Push, Pop and BackHome and by the ends of the    *)
(* two animations that a switch starts.  Everything runs in the LVGL task; *)
(* between two handlers any animation may end and any input may arrive.    *)
(***************************************************************************)
EXTENDS Naturals, Sequences

CONSTANTS Pages,      \* pages the factory can make, by application name
          NoPage,     \* nullptr
          CacheMode,  \* per page: SetCustomCacheEnable(true or false), or automatic
          AnimType,   \* per page: its custom animation type, or "global"
          GlobalAnim, \* the type set by SetGlobalLoadAnimType
          Routes,     \* pairs of a page in front (or none) and a page pushed from there
          StashSizes, \* sizes of the stashes passed to Push
          Careful     \* callers leave the bottom page alone, and uninstall at rest only, as
              \* this program's do

ASSUME PageAssumption ==
  /\ NoPage \notin Pages
  /\ CacheMode \in [Pages -> {"auto", "on", "off"}]
  /\ AnimType \in [Pages -> {"over", "move", "fade", "none", "global"}]
  /\ GlobalAnim \in {"over", "move", "fade", "none"}
  /\ Routes \subseteq (Pages \cup {NoPage}) \X Pages
  /\ StashSizes \subseteq Nat \ {0}
  /\ Careful \in BOOLEAN

VARIABLES PagePool,     \* installed pages
          PageStack,    \* the top is the last element
          PagePrev, PageCurrent,
          page,         \* per page: the fields of PageBase
          IsSwitchReq, IsPushing, AnimCurrent,  \* AnimState of a page switch
          IsBusy,       \* AnimState.IsBusy: a page springs back after a drag
          springs,      \* the pages whose roots LVGL moves back
          pressed       \* the page whose root is under the finger: LVGL's act_obj

switchVars == <<PagePool, PageStack, PagePrev, PageCurrent, page,
                IsSwitchReq, IsPushing, AnimCurrent>>
dragVars   == <<IsBusy, springs, pressed>>
pageVars   == <<switchVars, dragVars>>

States == {"IDLE", "LOAD", "WILL_APPEAR", "DID_APPEAR", "ACTIVITY",
           "WILL_DISAPPEAR", "DID_DISAPPEAR", "UNLOAD"}
Calls  == {"load", "willAppear", "didAppear", "willDisappear", "didDisappear", "unload"}

PageBase ==
  [state : States,
   root : BOOLEAN,              \* root # nullptr
   cached : BOOLEAN,            \* IsCached
   busy : BOOLEAN,              \* Anim.IsBusy: a switch animation is running
   drag : BOOLEAN,              \* the root has the drag callbacks
   stash : StashSizes \cup {0},
   life : Calls \cup {"broken"}, \* history: the last callback made on the page
   lost : BOOLEAN]              \* history: a root was overwritten

PageTypeOK ==
  /\ PagePool \subseteq Pages
  /\ PageStack \in Seq(Pages)
  /\ {PagePrev, PageCurrent, pressed} \subseteq Pages \cup {NoPage}
  /\ page \in [Pages -> PageBase]
  /\ IsSwitchReq \in BOOLEAN
  /\ IsPushing \in BOOLEAN
  /\ AnimCurrent \in {"over", "move", "fade", "none"}
  /\ IsBusy \in BOOLEAN /\ springs \subseteq Pages

\* A page as Install leaves it.
NewPage == [state |-> "IDLE", root |-> FALSE, cached |-> FALSE, busy |-> FALSE,
            drag |-> FALSE, stash |-> 0, life |-> "unload", lost |-> FALSE]

\* PageManager::PageManager; no page has been installed, and AnimCurrent, set by
\* the first Push, has no meaning yet.
PageInit ==
  /\ PagePool = {}
  /\ PageStack = <<>>
  /\ PagePrev = NoPage /\ PageCurrent = NoPage
  /\ page = [p \in Pages |-> NewPage]
  /\ IsSwitchReq = FALSE /\ IsPushing = FALSE
  /\ AnimCurrent = "over"
  /\ IsBusy = FALSE /\ springs = {} /\ pressed = NoPage

InStack(p) == \E i \in 1..Len(PageStack) : PageStack[i] = p
TopOf(stk) == IF stk = <<>> THEN NoPage ELSE stk[Len(stk)]
GetStackTop == TopOf(PageStack)
\* GetStackTopAfter, on a stack.
TopAfterOf(stk) == IF Len(stk) < 2 THEN NoPage ELSE stk[Len(stk) - 1]

-----------------------------------------------------------------------------
(* PM_State.cpp: what the life cycle does to one page r.                   *)

\* History: the callbacks that may follow a callback.
MayFollow(call) ==
  CASE call = "unload"        -> {"load"}
    [] call = "load"          -> {"willAppear"}
    [] call = "willAppear"    -> {"didAppear"}
    [] call = "didAppear"     -> {"willDisappear"}
    [] call = "willDisappear" -> {"didDisappear"}
    [] call = "didDisappear"  -> {"willAppear", "unload"}
    [] OTHER                  -> {}

Called(r, call) == [r EXCEPT !.life = IF call \in MayFollow(@) THEN call ELSE "broken"]

\* A new root is created whether or not there is one.
StateLoadExecute(r, mode, dragOn) ==
  Called([r EXCEPT !.root = TRUE, !.lost = @ \/ r.root, !.drag = dragOn,
                   !.cached = (mode # "off"), !.state = "WILL_APPEAR"], "load")

\* SwitchAnimCreate starts an animation for every type the pages can have.
StateWillAppearExecute(r) ==
  Called([r EXCEPT !.busy = TRUE, !.state = "DID_APPEAR"], "willAppear")

StateDidAppearExecute(r) == Called([r EXCEPT !.state = "ACTIVITY"], "didAppear")

StateWillDisappearExecute(r) ==
  Called([r EXCEPT !.busy = TRUE, !.state = "DID_DISAPPEAR"], "willDisappear")

StateDidDisappearExecute(r) ==
  Called([r EXCEPT !.state = IF r.cached THEN "WILL_APPEAR" ELSE "UNLOAD"], "didDisappear")

\* Mutant: root is not set to nullptr.
UnloadKeepsRoot(r) ==
  IF r.root
  THEN Called([r EXCEPT !.cached = FALSE, !.drag = FALSE, !.stash = 0,
                        !.state = "IDLE"], "unload")
  ELSE [r EXCEPT !.state = "IDLE"]

StateUnloadExecute(r) ==
  IF r.root
  THEN Called([r EXCEPT !.root = FALSE, !.cached = FALSE, !.drag = FALSE, !.stash = 0,
                        !.state = "IDLE"], "unload")
  ELSE [r EXCEPT !.state = "IDLE"]

\* PageManager::StateUpdate; its recursion never goes deeper than one level.
StateUpdate(r, mode, dragOn) ==
  CASE r.state = "IDLE"        -> r
    [] r.state = "LOAD"        -> StateWillAppearExecute(StateLoadExecute(r, mode, dragOn))
    [] r.state = "WILL_APPEAR" -> StateWillAppearExecute(r)
    [] r.state = "DID_APPEAR"  -> StateDidAppearExecute(r)
    [] r.state \in {"ACTIVITY", "WILL_DISAPPEAR"} -> StateWillDisappearExecute(r)
    [] r.state = "DID_DISAPPEAR" ->
         IF r.cached THEN StateDidDisappearExecute(r)
                     ELSE StateUnloadExecute(StateDidDisappearExecute(r))
    [] r.state = "UNLOAD"      -> StateUnloadExecute(r)

\* Mutant: an active page is unloaded without disappearing.
UnloadAtOnce(r) == StateUnloadExecute(r)

\* PageManager::FourceUnload.
FourceUnload(r) ==
  StateUnloadExecute(IF r.state = "ACTIVITY"
                     THEN Called(Called(r, "willDisappear"), "didDisappear") ELSE r)

-----------------------------------------------------------------------------
(* PM_Router.cpp.                                                          *)

SwitchAnimStateCheck == ~IsSwitchReq /\ ~IsBusy

\* lv_obj_del_async: before the next input or animation LVGL deletes the roots that
\* were unloaded; it forgets that one was pressed, and drops its animations
\* without their ready callback.
RootsAreDeleted ==
  /\ springs' = {p \in springs : page'[p].root}
  /\ pressed' = IF pressed \in Pages /\ page'[pressed].root THEN pressed ELSE NoPage
  /\ UNCHANGED IsBusy

\* PageManager::SwitchAnimTypeUpdate.
SwitchAnimTypeUpdate(p) == IF AnimType[p] = "global" THEN GlobalAnim ELSE AnimType[p]

\* Mutant: the page below is not looked at.
DragWheneverOver(stk, pg, type) == type = "over"

\* A page with drag callbacks: an animation of the "over" kind is playing and
\* the page below is cached.
DragEnabled(stk, pg, type) ==
  type = "over" /\ TopAfterOf(stk) # NoPage /\ pg[TopAfterOf(stk)].cached

\* PageManager::SwitchTo(newNode, isPushAct), on the given stack and pages.  A
\* spring-back that was taken for another's, and that the animation of its root
\* replaces, may as well end during the switch: IsBusy is false.
SwitchTo(newNode, isPushAct, stk, pages, prev) ==
  LET type == IF isPushAct THEN SwitchAnimTypeUpdate(newNode) ELSE AnimCurrent
      pg1  == [pages EXCEPT ![newNode].state =
                 IF pages[newNode].cached THEN "WILL_APPEAR" ELSE "LOAD"]
      drag == DragEnabled(stk, pg1, type)
      pg2  == [p \in Pages |->
                 IF p = prev THEN StateUpdate(pg1[p], CacheMode[p], drag) ELSE pg1[p]]
  IN /\ IsSwitchReq' = TRUE
     /\ PageCurrent' = newNode
     /\ IsPushing' = isPushAct
     /\ AnimCurrent' = type
     /\ page' = [pg2 EXCEPT ![newNode] = StateUpdate(@, CacheMode[newNode], drag)]
     /\ PagePrev' = prev
     /\ RootsAreDeleted

\* What SwitchTo stores of a stash of size s (0: none): a page that holds one of
\* another size keeps it, and an allocation may fail.
Stashed(r, s) ==
  {IF s # 0 /\ (r.stash = 0 \/ r.stash = s) THEN s ELSE r.stash}
    \cup (IF r.stash = 0 THEN {0} ELSE {})

Push(p, s) ==
  /\ SwitchAnimStateCheck
  /\ <<GetStackTop, p>> \in Routes
  /\ p \in PagePool /\ ~InStack(p)
  /\ PageStack' = Append(PageStack, p)
  /\ \E st \in Stashed(page[p], s) :
       SwitchTo(p, TRUE, PageStack', [page EXCEPT ![p].stash = st], PagePrev)
  /\ UNCHANGED PagePool

\* The automatic cache is given up by a page that leaves the stack.
Popped(p) == [page EXCEPT ![p].cached = @ /\ CacheMode[p] # "auto"]

Pop ==
  /\ SwitchAnimStateCheck
  /\ PageStack # <<>>
  /\ Careful => Len(PageStack) > 1
  /\ PageStack' = SubSeq(PageStack, 1, Len(PageStack) - 1)
  /\ IF PageStack' = <<>>
     THEN /\ page' = Popped(GetStackTop)
          /\ UNCHANGED <<PagePrev, PageCurrent, IsSwitchReq, IsPushing, AnimCurrent, dragVars>>
     ELSE SwitchTo(TopOf(PageStack'), FALSE, PageStack', Popped(GetStackTop), PagePrev)
  /\ UNCHANGED PagePool

\* SetStackClear(true): every page but the bottom one ends its life.
SetStackClear ==
  [p \in Pages |-> IF InStack(p) /\ p # PageStack[1] THEN FourceUnload(page[p]) ELSE page[p]]

BackHome ==
  /\ SwitchAnimStateCheck
  /\ Careful => Len(PageStack) > 1
  /\ IF PageStack = <<>>
     THEN /\ PagePrev' = NoPage
          /\ UNCHANGED <<PageStack, PageCurrent, page, IsSwitchReq, IsPushing,
                         AnimCurrent, dragVars>>
     ELSE /\ PageStack' = <<PageStack[1]>>
          /\ SwitchTo(PageStack[1], FALSE, PageStack', SetStackClear, NoPage)
  /\ UNCHANGED PagePool

\* Mutant: the page that leaves is forgotten.
CurrentIsDone(pages) == ~pages[PageCurrent].busy

\* Mutant: no previous page counts as a busy one.
BothAreDone(pages) ==
  ~pages[PageCurrent].busy /\ PagePrev # NoPage /\ ~pages[PagePrev].busy

\* PageManager::SwitchReqCheck: both animations of the switch are over.
SwitchReqCheck(pages) ==
  /\ ~pages[PageCurrent].busy
  /\ PagePrev # NoPage => ~pages[PagePrev].busy

\* PageManager::onSwitchAnimFinish of page p.
onSwitchAnimFinish(p) ==
  LET pages == [page EXCEPT ![p] =
                  [StateUpdate(@, CacheMode[p], FALSE) EXCEPT !.busy = FALSE]]
      finished == SwitchReqCheck(pages)
  IN /\ page[p].busy
     /\ page' = pages
     /\ IsSwitchReq' = (IsSwitchReq /\ ~finished)
     /\ PagePrev' = IF finished THEN PageCurrent ELSE PagePrev
     /\ AnimCurrent' = IF finished /\ ~IsPushing
                       THEN SwitchAnimTypeUpdate(PageCurrent) ELSE AnimCurrent
     /\ RootsAreDeleted
     /\ UNCHANGED <<PagePool, PageStack, PageCurrent, IsPushing>>

-----------------------------------------------------------------------------
(* PM_Drag.cpp: the callbacks of a draggable root.  LVGL calls them for the*)
(* root under the finger, and for no other until the finger goes up        *)
(* (PRESS_LOCK), whatever becomes of its page meanwhile: a gesture may pop *)
(* it.  Where the roots lie is left out: a touch may hit any of them.      *)

\* LV_EVENT_PRESSED interrupts the spring-back of this root, and takes the
\* manager's for it.
DragPressed(p) ==
  /\ pressed = NoPage /\ page[p].drag
  /\ pressed' = p
  /\ IF IsSwitchReq \/ ~IsBusy
     THEN UNCHANGED <<IsBusy, springs>>
     ELSE IsBusy' = FALSE /\ springs' = springs \ {p}
  /\ UNCHANGED switchVars

\* LV_EVENT_RELEASED, after the LV_EVENT_PRESSINGs, which only move the root.  A
\* drag past the middle sends LV_EVENT_LEAVE, which no page of this program
\* handles; elsewhere the root springs back, unless it is in place.  All of them
\* call the getter of the current type, and without one the program ends there.
DragReleased(p) ==
  /\ pressed = p
  /\ IsSwitchReq \/ AnimCurrent # "none"
  /\ pressed' = NoPage
  /\ \/ UNCHANGED <<IsBusy, springs>>
     \/ ~IsSwitchReq /\ IsBusy' = TRUE /\ springs' = springs \cup {p}
  /\ UNCHANGED switchVars

onRootAnimFinish(p) ==
  /\ p \in springs
  /\ springs' = springs \ {p} /\ IsBusy' = FALSE
  /\ UNCHANGED <<switchVars, pressed>>

-----------------------------------------------------------------------------
(* PM_Base.cpp: the page pool.                                             *)

\* Install of a name that is not taken, with Register.
Install(p) ==
  /\ p \notin PagePool
  /\ PagePool' = PagePool \cup {p}
  /\ page' = [page EXCEPT ![p] = NewPage]
  /\ UNCHANGED <<PageStack, PagePrev, PageCurrent, IsSwitchReq, IsPushing,
                 AnimCurrent, dragVars>>

\* Uninstall, with Unregister, of a page that is not in the stack.
Uninstall(p) ==
  /\ p \in PagePool /\ ~InStack(p)
  /\ Careful => SwitchAnimStateCheck
  /\ PagePool' = PagePool \ {p}
  /\ page' = [page EXCEPT ![p] = IF @.cached THEN StateUnloadExecute(@) ELSE @]
  /\ RootsAreDeleted
  /\ UNCHANGED <<PageStack, PagePrev, PageCurrent, IsSwitchReq, IsPushing, AnimCurrent>>

PageNext ==
  \/ \E p \in Pages : Install(p) \/ Uninstall(p) \/ onSwitchAnimFinish(p)
  \/ \E p \in Pages : DragPressed(p) \/ DragReleased(p) \/ onRootAnimFinish(p)
  \/ \E p \in Pages, s \in StashSizes \cup {0} : Push(p, s)
  \/ Pop \/ BackHome

\* LVGL's animation timer brings every animation to its end.
PageFairness ==
  \A p \in Pages : WF_pageVars(onRootAnimFinish(p)) /\ WF_pageVars(onSwitchAnimFinish(p))

PageSpec == PageInit /\ [][PageNext]_pageVars /\ PageFairness

-----------------------------------------------------------------------------
\* Every page sees onViewLoad, WillAppear, DidAppear, WillDisappear,
\* DidDisappear and DidUnload in this order, appearing again only after it
\* disappeared, whatever mixture of animations, BackHome and caching it meets;
\* and StateLoadExecute never finds a root to overwrite.  (All variables keep their
\* types.)
LifecycleInOrder == PageTypeOK /\ \A p \in Pages : page[p].life # "broken" /\ ~page[p].lost

\* When no switch is in progress the top of the stack is the only page in
\* front, PagePrev and PageCurrent both name it, and every other page is either
\* unloaded or loaded, cached and waiting to appear.
TopIsShown ==
  (~IsSwitchReq /\ PageStack # <<>>) =>
    /\ PagePrev = GetStackTop /\ PageCurrent = GetStackTop
    /\ page[GetStackTop].state = "ACTIVITY" /\ page[GetStackTop].root
    /\ \A p \in Pages \ {GetStackTop} :
         \/ page[p].state = "IDLE" /\ ~page[p].root
         \/ page[p].state = "WILL_APPEAR" /\ page[p].root /\ page[p].cached

\* Uninstall frees a page that neither the manager nor an animation refers to,
\* and whose root is gone; with the root, StateUnloadExecute frees the stash.
NoFreedPage ==
  /\ {PagePrev, PageCurrent} \subseteq PagePool \cup {NoPage}
  /\ \A p \in Pages \ PagePool : ~page[p].busy /\ ~page[p].root
  /\ \A p \in Pages : page[p].state = "IDLE" => page[p].stash = 0

\* The drag callbacks call the getter of the current animation type, whichever
\* page they are of, and LOAD_ANIM_NONE has no getter.  While that type is current
\* no page of the stack has the callbacks, though they were attached at load time
\* by another type: only a page that was popped and is cached for good still has
\* them, and a finger that has been on it since ends the program.
DragHasGetter ==
  AnimCurrent = "none" =>
    \A p \in Pages : page[p].drag => ~InStack(p) /\ CacheMode[p] = "on"

\* The manager never stays busy: Push, Pop and BackHome, which it ignores while
\* a switch or a spring-back is playing, are accepted again.
ManagerIsServed == ~SwitchAnimStateCheck ~> SwitchAnimStateCheck
=============================================================================

------------------------------- MODULE Screen -------------------------------
(***************************************************************************)
(* VanPilotScreen.kt over the conversations and the pictures.              *)
(*                                                                         *)
(* invalidate() asks the host for a new template; the host calls           *)
(* onGetTemplate, on its own thread, some time later.  There the ids of    *)
(* the sub-agents and the messages of the active tab are two looks at the  *)
(* tab manager, with the polling thread in between.  The user clicks on    *)
(* what the last template shows.                                           *)
(***************************************************************************)
EXTENDS ConversationTabs, DisplayHistory

CONSTANTS
  MaxRows,   \* MAX_MESSAGES_PER_TAB
  Scenes     \* bound: what goes on beside the screen: "talk", "pictures"

Visual == "visual_card"
Tabs == Speakers \cup {Visual}

ASSUME ScreenAssumption ==
  /\ MaxRows \in Nat \ {0} /\ Scenes \subseteq SUBSET {"talk", "pictures"}
  /\ Visual \notin Speakers

VARIABLES
  scene,      \* the chosen member of Scenes
  activeTab,  \* activeTabId
  dirty,      \* invalidate() was called, and onGetTemplate was not since
  ids,        \* validTabIds of an onGetTemplate that goes on, or {}
  template    \* what the host shows

screenVars == <<activeTab, dirty, ids, template>>
vars == <<scene, tabVars, pictureVars, screenVars>>

Template ==
  [tabs : SUBSET Tabs, active : Tabs, rows : Seq(Messages),
   back : BOOLEAN, forward : BOOLEAN]

Init ==
  /\ scene \in Scenes
  /\ TabsInit
  /\ PicturesInit
  /\ activeTab = Visual
  /\ dirty = FALSE
  /\ ids = {}
  /\ template = [tabs |-> {Visual, Lead}, active |-> Visual, rows |-> <<>>,
                 back |-> FALSE, forward |-> FALSE]

-----------------------------------------------------------------------------
(* onGetTemplate, up to the sub-agents' tabs.                              *)
BeginTemplate ==
  /\ dirty /\ ids = {}
  /\ dirty' = FALSE
  /\ ids' = {Visual, Lead} \cup {order[i] : i \in 1..Len(order)}
  /\ UNCHANGED <<scene, activeTab, template, tabVars, pictureVars>>

(* Variant: the tab selected last is taken for one of the tabs.            *)
EffectiveTab_Selected == activeTab

(* The tab selected last, while it is one of the tabs.                     *)
EffectiveTab == IF activeTab \in ids THEN activeTab ELSE Visual

TakeLast(s) ==
  SubSeq(s, (IF Len(s) > MaxRows THEN Len(s) - MaxRows ELSE 0) + 1, Len(s))

(* The contents of that tab; the host shows the template.                  *)
BuildTemplate ==
  /\ ids # {}
  /\ ids' = {}
  /\ template' =
       [tabs |-> ids,
        active |-> EffectiveTab,
        rows |-> IF EffectiveTab = Visual THEN <<>>
                 ELSE TakeLast(messages[EffectiveTab]),
        back |-> EffectiveTab = Visual /\ CanGoBack,
        forward |-> EffectiveTab = Visual /\ CanGoForward]
  /\ UNCHANGED <<scene, activeTab, dirty, tabVars, pictureVars>>

(* The user selects a tab.                                                 *)
SelectTab(t) ==
  /\ ids = {} /\ t \in template.tabs
  /\ activeTab' = t
  /\ dirty' = TRUE
  /\ UNCHANGED <<scene, ids, template, tabVars, pictureVars>>

(* The user clicks on an arrow.                                            *)
ClickArrow ==
  /\ ids = {} /\ template.active = Visual
  /\ (template.back /\ GoBack) \/ (template.forward /\ GoForward)
  /\ dirty' = (dirty \/ ~ missed')
  /\ UNCHANGED <<scene, activeTab, ids, template, tabVars>>

(* The embedding shows a new picture.                                      *)
ShowPicture(k) ==
  /\ "pictures" \in scene /\ ids = {}
  /\ Display(k)
  /\ dirty' = TRUE
  /\ UNCHANGED <<scene, activeTab, ids, template, tabVars>>

(* Variant: the screen is told of a new tab only.                          *)
OnUpdate_NewTab ==
  /\ route = "update"
  /\ route' = "idle"
  /\ dirty' = (dirty \/ Len(messages[Agent]) < 2)
  /\ UNCHANGED <<scene, activeTab, ids, template, order, messages, from,
                 crowdedOut, removed, pictureVars>>

(* The end of a text message: onUpdate is invalidate().                    *)
OnUpdate ==
  /\ route = "update"
  /\ route' = "idle"
  /\ dirty' = TRUE
  /\ UNCHANGED <<scene, activeTab, ids, template, order, messages, from,
                 crowdedOut, removed, pictureVars>>

Talk ==
  /\ "talk" \in scene
  /\ \/ \E a \in Speakers : RouteTextMessage(a)
     \/ AddSubAgent
     \/ AddMessage
     \/ \E a \in Agents : RemoveSubAgent(a)
  /\ UNCHANGED <<scene, screenVars, pictureVars>>

Pictures ==
  /\ "pictures" \in scene
  /\ \/ \E k \in Keys : CachePut(k)
     \/ ids = {} /\ (SurfaceAvailable \/ SurfaceDestroyed \/ ClearBitmap)
  /\ UNCHANGED <<scene, screenVars, tabVars>>

Next ==
  \/ BeginTemplate \/ BuildTemplate
  \/ \E t \in Tabs : SelectTab(t)
  \/ ClickArrow
  \/ \E k \in Keys : ShowPicture(k)
  \/ OnUpdate
  \/ Talk
  \/ Pictures

Spec == Init /\ [][Next]_vars

TypeOK ==
  /\ scene \in Scenes
  /\ TabsTypeOK
  /\ PicturesTypeOK
  /\ activeTab \in Tabs
  /\ dirty \in BOOLEAN
  /\ ids \in SUBSET Tabs
  /\ template \in Template

-----------------------------------------------------------------------------
(* The host takes the template: the active tab is one of its tabs, and     *)
(* there are no more than the visual card, the lead agent and MaxSubTabs   *)
(* others (the tab selected last may have been removed, before             *)
(* onGetTemplate or between its two looks at the tab manager).             *)
TemplateIsValid ==
  /\ template.active \in template.tabs
  /\ Cardinality(template.tabs) <= 2 + MaxSubTabs

(* No update is forgotten: when no template is being made or asked for and *)
(* no message is on its way, the screen shows a tab for every sub-agent    *)
(* and the last messages of the active one, and its arrows lead where the  *)
(* history has entries - but for a step whose bitmap is not drawn, which   *)
(* moves the history and does not tell the screen.                         *)
UpdatesAreShown ==
  ~ dirty /\ ids = {} /\ route \in {"idle", "add"} =>
    /\ \A a \in Agents : HasTab(a) => a \in template.tabs
    /\ LET t == template.active IN
         /\ t = Lead \/ HasTab(t) => template.rows = TakeLast(messages[t])
         /\ t = Visual /\ ~ missed =>
              template.back = CanGoBack /\ template.forward = CanGoForward

(* The picture on the screen is the history's current one, unless the last *)
(* step was not drawn - no cache, an evicted bitmap, or one that does not  *)
(* decode -, and the surface, when there is one, has been drawn with it.   *)
PictureOfHistory ==
  /\ picture # NoKey => missed \/ picture = CurrentKey
  /\ surface # "none" => surface = IF picture = NoKey THEN Blank ELSE picture
=============================================================================

--------------------------- MODULE DashboardEditor ---------------------------
(***************************************************************************)
(* Editing a dashboard: components dropped, moved and deleted, undo and redo       *)
(* over the history that redux-undo keeps, and saving, whose request carries the    *)
(* layout of when it was sent and whose answer marks everything saved               *)
(* (dashboard/actions/dashboardLayout.js and dashboardState.js).                      *)
(***************************************************************************)
EXTENDS DashboardLayout

CONSTANTS
    UNDO_LIMIT,
    Begin,      \* the layouts of the dashboards that may be opened
    NewTypes,   \* what the builder pane offers
    MaxEdits    \* bound: the edits of a behaviour, undos and redos apart

ASSUME EditorAssumption ==
    /\ UNDO_LIMIT \in Nat /\ MaxEdits \in Nat
    /\ NewTypes \subseteq {"ROW", "COLUMN", "TABS", "CHART", "HEADER"}

IsLayout(l) ==
    DOMAIN l \subseteq {Root, Grid} \cup Ids /\ \A c \in DOMAIN l : l[c] \in Component

\* A dashboard is opened with a layout that this editor could have saved.
ASSUME BeginAssumption == \A l \in Begin : IsLayout(l) /\ IsFiniteSet(DOMAIN l) /\ IsTree(l)

VARIABLES
    layout,       \* dashboardLayout under redux-undo: past, present, future, and whether
                  \* it has the present one to record (_latestUnfiltered is not null)
    settings,     \* the settings that no longer have the values they were loaded with
    flags,        \* those of hasUnsavedChanges, maxUndoHistoryExceeded,
                  \* updatedColorScheme and editMode that are set
    put,          \* the request to save, what it carries and whether it is stored, or
                  \* that it is for a dashboard no longer open
    saved,        \* what the server has
    edits,        \* the edits so far
    mishaps       \* history: what the code does not prevent and has happened

vars == <<layout, settings, flags, put, saved, edits, mishaps>>

Settings == {"css", "colour"}
Flags == {"unsaved", "exceeded", "recoloured", "editing"}
Excused == {"css", "overtaken", "lost", "adrift", "undone"}
Mishaps == {"inside", "elsewhere"} \cup Excused
Content(l, s) == [layout |-> l, settings |-> s]
Showing == Content(layout.present, settings)
Nothing == [stage |-> "none"]
Foreign == [stage |-> "foreign"]

TypeOK ==
    /\ DOMAIN layout = {"past", "present", "future", "latest"} /\ layout.latest \in BOOLEAN
    /\ IsLayout(layout.present) /\ IsLayout(saved.layout)
    /\ \A k \in DOMAIN layout.past : IsLayout(layout.past[k])
    /\ \A k \in DOMAIN layout.future : IsLayout(layout.future[k])
    /\ Len(layout.past) <= UNDO_LIMIT + 1
    /\ settings \subseteq Settings /\ flags \subseteq Flags
    /\ put \in {Nothing, Foreign} \/ (put.stage \in {"sent", "stored"} /\ IsLayout(put.content.layout))
    /\ edits \in 0 .. MaxEdits
    /\ mishaps \subseteq Mishaps

Init ==
    /\ \E l \in Begin :
        /\ layout = [past |-> <<>>, present |-> l, future |-> <<>>, latest |-> TRUE]
        /\ saved = Content(l, {})
    /\ settings = {} /\ flags = {"editing"}
    /\ put = Nothing /\ edits = 0 /\ mishaps = {}
-----------------------------------------------------------------------------
l0 == layout.present

\* Tabs on top that are also under themselves are rendered for ever: the page fails
\* (whichever of their tabs is shown: that only those are rendered is left out).
Renders == TopLevel(l0) \notin Under(l0, TopLevel(l0))

Editing == "editing" \in flags /\ Renders

RecordedMutant(h, l) ==   \* a layout too many is kept
    LET kept == IF Len(h.past) + 1 > UNDO_LIMIT + 2 THEN Tail(h.past) ELSE h.past
    IN  [past |-> IF h.latest THEN Append(kept, h.present) ELSE kept,
         present |-> l, future |-> <<>>, latest |-> TRUE]

\* redux-undo records the layout before each action that undoableDashboardLayout
\* includes, but the one that clearHistory left (ignoreInitialState).
Recorded(h, l) ==
    LET kept == IF Len(h.past) + 1 >= UNDO_LIMIT + 2 THEN Tail(h.past) ELSE h.past
    IN  [past |-> IF h.latest THEN Append(kept, h.present) ELSE kept,
         present |-> l, future |-> <<>>, latest |-> TRUE]

\* The flag that the header sets when it sees more than UNDO_LIMIT layouts recorded.
Noticed(h) == IF Len(h.past) > UNDO_LIMIT THEN {"exceeded"} ELSE {}

\* setUnsavedChangesAfterAction.
Dispatched(h) ==
    /\ layout' = h
    /\ flags' = flags \cup {"unsaved"} \cup Noticed(h)
    /\ UNCHANGED <<settings, put, saved>>

Known == UNION {DOMAIN l : l \in
            {l0, saved.layout} \cup ToSet(layout.past) \cup ToSet(layout.future)
                \cup (IF put.stage \in {"sent", "stored"} THEN {put.content.layout} ELSE {})}

\* Two ids never used.
FreshId == CHOOSE x \in Ids \ Known : TRUE
OtherId == CHOOSE x \in Ids \ (Known \cup {FreshId}) : TRUE

Spare == \E id, other \in Ids \ Known : id # other

\* What can be dragged, or deleted on its own: all but the root, the grid and the tabs
\* on top, which have no menu.
Movable == Shown(l0) \ {Root, Grid, TopLevel(l0)}

Place(c) == CHOOSE i \in DOMAIN l0[findParentId(l0, c)].children :
                l0[findParentId(l0, c)].children[i] = c
-----------------------------------------------------------------------------
\* handleComponentDrop of a new component on the root or in a container.
DropNew(type, dest, i) ==
    /\ isValidChild(l0, type, dest) /\ (dest = Root => ~HasTopLevelTabs(l0))
    /\ i <= Len(l0[dest].children) + 1
    /\ Spare
    /\ Dispatched(Recorded(layout,
           IF dest = Root THEN CreateTopLevelTabs(l0, FreshId, OtherId)
           ELSE CreateComponent(l0, type, dest, i, FreshId, OtherId)))
    /\ UNCHANGED mishaps

\* handleComponentDrop of tabs on the root.  Tabs without a tab make the reducer throw.
DropOnRoot(c) ==
    /\ l0[c].type = "TABS" /\ ~HasTopLevelTabs(l0) /\ l0[c].children # <<>>
    /\ Dispatched(Recorded(layout, MakeTopLevel(l0, c)))
    /\ mishaps' = mishaps \cup (IF findParentId(l0, c) = Grid THEN {} ELSE {"elsewhere"})

EmptiedMutant(h, src) ==   \* without looking whether other children of a row are left
    IF \/ h.present[src].type = "ROW"
       \/ h.present[src].type = "TABS" /\ h.present[src].children = <<>>
    THEN Recorded(h, DeleteComponent(h.present, src, findParentId(h.present, src)))
    ELSE h

\* "if we moved a child from a Tab or Row parent and it was the only child, delete the
\* parent", as an action of its own.
Emptied(h, src) ==
    IF h.present[src].type \in {"TABS", "ROW"} /\ h.present[src].children = <<>>
    THEN Recorded(h, DeleteComponent(h.present, src, findParentId(h.present, src)))
    ELSE h

\* handleComponentDrop of a component in a container, unless it is too wide.
DropOld(c, dest, i) ==
    LET src == findParentId(l0, c)
    IN  /\ dest # Root /\ isValidChild(l0, l0[c].type, dest)
        /\ i <= Len(l0[dest].children) + (IF dest = src THEN 0 ELSE 1)
        /\ dest = src /\ i = Place(c) => i = Len(l0[src].children)
        /\ ~(src = TopLevel(l0) /\ l0[src].type = "TABS" /\ l0[dest].type = "TABS" /\ dest # src)
        /\ Spare
        /\ Dispatched(Emptied(Recorded(layout, MoveComponent(l0, src, Place(c), dest, i, FreshId)), src))
        /\ mishaps' = mishaps \cup (IF dest \in Under(l0, c) THEN {"inside"} ELSE {})

\* The plus of tabs.
AddTab(tabs) ==
    /\ l0[tabs].type = "TABS"
    /\ Spare
    /\ Dispatched(Recorded(layout,
           CreateComponent(l0, "TAB", tabs, Len(l0[tabs].children) + 1, FreshId, OtherId)))
    /\ UNCHANGED mishaps

\* deleteComponent.
Delete(c) ==
    /\ Dispatched(Recorded(layout, DeleteComponent(l0, c, findParentId(l0, c))))
    /\ UNCHANGED mishaps

\* deleteTopLevelTabs.
CollapseTabs ==
    /\ HasTopLevelTabs(l0)
    /\ Dispatched(Recorded(layout, DeleteTopLevelTabs(l0)))
    /\ UNCHANGED mishaps

Undone(h) ==
    IF h.past = <<>> THEN h
    ELSE [past |-> Front(h.past), present |-> Last(h.past),
          future |-> <<h.present>> \o h.future, latest |-> TRUE]

\* What an undo that leaves nothing flagged passes over: css, and that the history did
\* not start with what is saved.
Unseen ==
    IF "unsaved" \in flags' THEN {}
    ELSE (IF "css" \in settings \ saved.settings THEN {"css"} ELSE {})
         \cup (IF "adrift" \in mishaps /\ layout'.present # saved.layout THEN {"undone"} ELSE {})

UndoMutant ==   \* without maxUndoHistoryExceeded
    /\ layout' = Undone(layout)
    /\ flags' = IF layout'.past = <<>> /\ "recoloured" \notin flags THEN flags \ {"unsaved"} ELSE flags
    /\ mishaps' = mishaps \cup Unseen
    /\ UNCHANGED <<settings, put, saved>>

\* undoLayoutAction.
Undo ==
    /\ layout' = Undone(layout)
    /\ flags' = IF layout'.past = <<>> /\ flags \cap {"exceeded", "recoloured"} = {}
                THEN flags \ {"unsaved"} ELSE flags
    /\ mishaps' = mishaps \cup Unseen
    /\ UNCHANGED <<settings, put, saved>>

\* redoLayoutAction.
Redo ==
    /\ Dispatched(IF layout.future = <<>> THEN layout
                  ELSE [past |-> Append(layout.past, l0), present |-> Head(layout.future),
                        future |-> Tail(layout.future), latest |-> TRUE])
    /\ UNCHANGED mishaps

\* updateCss and onChange, setColorSchemeAndUnsavedChanges.
Change(s) ==
    /\ s \notin settings
    /\ settings' = settings \cup {s}
    /\ flags' = flags \cup {"unsaved"} \cup (IF s = "colour" THEN {"recoloured"} ELSE {})
    /\ UNCHANGED <<layout, put, saved, mishaps>>
-----------------------------------------------------------------------------
\* overwriteDashboard, saveDashboardRequest.
Save ==
    /\ "unsaved" \in flags /\ put = Nothing /\ Editing
    /\ put' = [stage |-> "sent", content |-> Showing]
    /\ UNCHANGED <<layout, settings, flags, saved, edits, mishaps>>

Store ==
    /\ put.stage = "sent"
    /\ put' = [put EXCEPT !.stage = "stored"] /\ saved' = put.content
    /\ UNCHANGED <<layout, settings, flags, edits, mishaps>>

\* onUpdateSuccess, saveDashboardRequestSuccess: ON_SAVE, clearHistory.
Answer ==
    /\ put.stage \in {"stored", "foreign"}
    /\ put' = Nothing
    /\ flags' = {}
    /\ layout' = [layout EXCEPT !.past = <<>>, !.future = <<>>, !.latest = FALSE]
    /\ mishaps' = {"adrift"} \cup
           IF Showing = saved THEN mishaps \ Excused ELSE mishaps \cup {"overtaken"}
    /\ UNCHANGED <<settings, saved, edits>>

\* onError: the server refused, or its answer is lost.
Fail ==
    /\ put # Nothing
    /\ put' = Nothing
    /\ mishaps' = mishaps \cup (IF put.stage = "stored" THEN {"lost"} ELSE {})
    /\ UNCHANGED <<layout, settings, flags, saved, edits>>

\* HYDRATE_DASHBOARD: another dashboard is opened in the same page, whose store keeps
\* the history and updatedColorScheme.  (A page that fails has to be loaded again.)
Open(l) ==
    /\ edits < MaxEdits /\ edits' = edits + 1 /\ Renders
    /\ layout' = Recorded(layout, l) /\ saved' = Content(l, {})
    /\ settings' = {} /\ flags' = flags \cap {"recoloured"}
    /\ put' = IF put = Nothing THEN Nothing ELSE Foreign
    /\ mishaps' = (mishaps \ Excused) \cup {"adrift"}

\* toggleEditMode.
Edit ==
    /\ "editing" \notin flags
    /\ flags' = flags \cup {"editing"} \cup Noticed(layout)
    /\ UNCHANGED <<layout, settings, put, saved, edits, mishaps>>
-----------------------------------------------------------------------------
\* What is done in edit mode, on a page that renders.
EditStep ==
    /\ edits < MaxEdits /\ edits' = edits + 1 /\ Editing
    /\ \/ \E s \in Settings : Change(s)
       \/ \E dest \in Shown(l0) : \E i \in 1 .. Len(l0[dest].children) + 1 :
            \E type \in NewTypes : DropNew(type, dest, i)
       \/ \E c \in Movable :
            \/ \E dest \in Shown(l0) : \E i \in 1 .. Len(l0[dest].children) + 1 : DropOld(c, dest, i)
            \/ DropOnRoot(c) \/ Delete(c)
       \/ \E tabs \in Shown(l0) : AddTab(tabs)
       \/ CollapseTabs

Next ==
    \/ EditStep
    \/ Editing /\ (Undo \/ Redo) /\ UNCHANGED edits
    \/ Save \/ Store \/ Answer \/ Fail \/ Edit
    \/ \E l \in Begin : Open(l)

Spec == Init /\ [][Next]_vars
-----------------------------------------------------------------------------
\* Unless a component was dropped inside itself or tabs from inside a row or tab made
\* top-level, the layout is a tree: every component but an unused grid is shown, once,
\* under a parent that may have it, and the grid is unused under top-level tabs.
LayoutIsTree == mishaps \cap {"inside", "elsewhere"} = {} => IsTree(l0)

\* Only deleting, undoing, redoing or opening another dashboard takes a chart from what
\* is shown, unless the step drops a component inside itself.
Charts(l) == {c \in Shown(l) : l[c].type \in {"CHART", "HEADER"}}
ChartsKept ==
    [][\/ Charts(l0) \subseteq Charts(l0')
       \/ Undo \/ Redo \/ \E l \in Begin : Open(l)
       \/ \E c \in Movable : Delete(c)
       \/ \E c \in Movable, dest \in DOMAIN l0 : \E i \in 1 .. Len(l0[dest].children) + 1 :
            DropOld(c, dest, i) /\ dest \in Under(l0, c)]_vars

\* While nothing is being saved, a dashboard that differs from the server's has the
\* Save button enabled: unless a save was overtaken by an edit or its answer lost, or an
\* undo left nothing flagged although css was changed, or although the history, since a
\* save or since another dashboard was opened, did not start with what is saved.
UnsavedShown ==
    /\ put = Nothing
    /\ mishaps \cap {"css", "overtaken", "lost", "undone"} = {}
    /\ Showing # saved
    => "unsaved" \in flags
=============================================================================

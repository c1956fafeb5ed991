--------------------------- MODULE DashboardLayout ---------------------------
(***************************************************************************)
(* The layout of a Superset dashboard and what the reducer does to it           *)
(* (dashboard/reducers/dashboardLayout.js): components of a type with a list of  *)
(* children, from the root down.  CHART stands for charts and markdown, HEADER    *)
(* for headers and dividers.  Dynamic components of extensions (charts that are   *)
(* not wrapped in rows), widths, texts and the `parents' lists are left out.       *)
(***************************************************************************)
EXTENDS Integers, Sequences, FiniteSets, SequencesExt

CONSTANT Ids   \* the ids of the components ever made

Root == "ROOT_ID"
Grid == "GRID_ID"

ASSUME IdsAssumption == Root \notin Ids /\ Grid \notin Ids

Types == {"ROOT", "GRID", "ROW", "COLUMN", "TABS", "TAB", "CHART", "HEADER"}

Component == [type : Types, children : Seq(Ids \cup {Grid})]

Children(l, c) == ToSet(l[c].children)
Parents(l, c) == {p \in DOMAIN l : c \in Children(l, p)}

\* What is reached from c in one step or more: c itself only if it is in a cycle.
Closure(l, step, c) ==
    LET reached[n \in 0 .. Cardinality(DOMAIN l)] ==
            IF n = 0 THEN step[c]
            ELSE LET before == reached[n-1] IN before \cup UNION {step[x] : x \in before}
    IN  reached[Cardinality(DOMAIN l)]

Under(l, c) == Closure(l, [x \in DOMAIN l |-> Children(l, x)], c)
Above(l, c) == Closure(l, [x \in DOMAIN l |-> Parents(l, x)], c)

Shown(l) == {Root} \cup Under(l, Root)

findParentId(l, c) == CHOOSE p \in Parents(l, c) : TRUE

TopLevel(l) == Head(l[Root].children)
HasTopLevelTabs(l) == l[TopLevel(l)].type = "TABS"
-----------------------------------------------------------------------------
\* parentMaxDepthLookup: the parents of a type, and how deep each may be.
MaxDepth(parent, child) ==
    CASE parent = "ROOT" /\ child = "TABS" -> 0
      [] parent = "GRID" /\ child \in {"CHART", "COLUMN", "HEADER", "ROW", "TABS"} -> 1
      [] parent = "ROW" /\ child \in {"CHART", "COLUMN"} -> 4
      [] parent = "TABS" /\ child = "TAB" -> 3
      [] parent = "TAB" /\ child \in {"CHART", "HEADER"} -> 5
      [] parent = "TAB" /\ child \in {"COLUMN", "ROW", "TABS"} -> 3
      [] parent = "COLUMN" /\ child \in {"CHART", "HEADER"} -> 5
      [] parent = "COLUMN" /\ child \in {"ROW", "TABS"} -> 3
      [] OTHER -> -1

\* The depth a component is rendered at: each component above it counts but tabs and
\* the tabs inside the grid.
Depth(l, c) ==
    Cardinality({a \in Above(l, c) :
        /\ l[a].type # "TABS"
        /\ l[a].type = "TAB" => a \in Children(l, TopLevel(l))})

isValidChild(l, type, parent) ==
    LET max == MaxDepth(l[parent].type, type) IN max >= 0 /\ Depth(l, parent) <= max

shouldWrapChildInRow(parent, child) == parent \in {"GRID", "TAB"} /\ child \in {"CHART", "COLUMN"}
-----------------------------------------------------------------------------
New(l, id, type, children) ==
    [x \in DOMAIN l \cup {id} |-> IF x = id THEN [type |-> type, children |-> children] ELSE l[x]]

Insert(l, p, i, c) == [l EXCEPT ![p].children = InsertAt(@, i, c)]

\* c is taken from its parent, and everything under it from the layout.
recursivelyDeleteChildren(l, c, p) ==
    [x \in DOMAIN l \ ({c} \cup Under(l, c)) |->
        IF x = p THEN [l[x] EXCEPT !.children = RemoveFirst(@, c)] ELSE l[x]]

\* DELETE_COMPONENT: with c, its parent if that is a row left empty.
DeleteComponent(l, c, p) ==
    LET deleted == recursivelyDeleteChildren(l, c, p)
    IN  IF deleted[p].type = "ROW" /\ deleted[p].children = <<>>
        THEN recursivelyDeleteChildren(deleted, p, findParentId(deleted, p))
        ELSE deleted

\* CREATE_COMPONENT, newEntitiesFromDrop: the new component at place i of dest, in a
\* row of its own or, tabs, with a first tab.
CreateComponent(l, type, dest, i, id, other) ==
    IF shouldWrapChildInRow(l[dest].type, type)
    THEN Insert(New(New(l, id, type, <<>>), other, "ROW", <<id>>), dest, i, other)
    ELSE IF type = "TABS"
    THEN Insert(New(New(l, other, "TAB", <<>>), id, type, <<other>>), dest, i, id)
    ELSE Insert(New(l, id, type, <<>>), dest, i, id)

\* MOVE_COMPONENT, reorderItem: child si of src becomes child di of dest, in a row if
\* need be.  (The code wraps nothing, by an index out of range, when a chart or column that
\* stands in the grid or a tab without a row is moved to the end of that same list: no
\* edit leaves one there, only a dashboard made elsewhere could have it.)
MoveComponent(l, src, si, dest, di, row) ==
    LET c == l[src].children[si]
        taken == [l EXCEPT ![src].children = RemoveAt(@, si)]
    IN  IF shouldWrapChildInRow(l[dest].type, l[c].type)
        THEN Insert(New(taken, row, "ROW", <<c>>), dest, di, row)
        ELSE Insert(taken, dest, di, c)

MakeTopLevelMutant(l, tabs) ==   \* what is dragged moves along with the rest
    [l EXCEPT ![Root].children = <<tabs>>,
              ![TopLevel(l)].children = <<>>,
              ![Head(l[tabs].children)].children = @ \o l[TopLevel(l)].children]

\* CREATE_TOP_LEVEL_TABS from tabs that exist: the first tab takes in what the grid
\* shows, but for the tabs themselves (a list of children names nothing twice).
MakeTopLevel(l, tabs) ==
    [l EXCEPT ![Root].children = <<tabs>>,
              ![TopLevel(l)].children = <<>>,
              ![Head(l[tabs].children)].children =
                  @ \o RemoveFirst(l[TopLevel(l)].children, tabs)]

\* CREATE_TOP_LEVEL_TABS from new ones.
CreateTopLevelTabs(l, tabs, tab) ==
    LET emptied == [l EXCEPT ![Root].children = <<tabs>>, ![TopLevel(l)].children = <<>>]
    IN  New(New(emptied, tab, "TAB", l[TopLevel(l)].children), tabs, "TABS", <<tab>>)

\* DELETE_TOP_LEVEL_TABS: what the tabs show goes to the grid.
DeleteTopLevelTabs(l) ==
    LET top == TopLevel(l)
        tabs == l[top].children
        kept == [x \in DOMAIN l \ ({top} \cup ToSet(tabs)) |-> l[x]]
    IN  [kept EXCEPT ![Root].children = <<Grid>>,
                     ![Grid].children = FlattenSeq([k \in DOMAIN tabs |-> l[tabs[k]].children])]
-----------------------------------------------------------------------------
MayHave(l, p, c) == IF c = Grid THEN p = Root ELSE MaxDepth(l[p].type, l[c].type) >= 0

\* Every component is shown but an unused grid, once, under a parent that may have it; the
\* root has one child, the grid or tabs over an unused grid.
IsTree(l) ==
    LET under == Under(l, Root)
    IN  /\ DOMAIN l = {Root, Grid} \cup under
        /\ Root \notin under
        /\ \A c \in DOMAIN l : Children(l, c) \subseteq DOMAIN l /\ IsInjective(l[c].children)
        /\ \A c \in under : \E p \in DOMAIN l : Parents(l, c) = {p} /\ MayHave(l, p, c)
        /\ l[Root].type = "ROOT" /\ l[Grid].type = "GRID"
        /\ \E top \in DOMAIN l :
            /\ l[Root].children = <<top>>
            /\ top = Grid \/ (l[top].type = "TABS" /\ l[Grid].children = <<>>)
=============================================================================

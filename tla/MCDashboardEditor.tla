-------------------------- MODULE MCDashboardEditor --------------------------
(* DashboardEditor with ten ids and two dashboards to open, for TLC. *)
EXTENDS DashboardEditor, TLC

Of(type, children) == [type |-> type, children |-> children]

\* A column with a chart in a row.
Plain ==
    (Root :> Of("ROOT", <<Grid>>)) @@ (Grid :> Of("GRID", <<"a">>))
        @@ ("a" :> Of("ROW", <<"b">>)) @@ ("b" :> Of("COLUMN", <<"c">>)) @@ ("c" :> Of("CHART", <<>>))

\* Tabs on top, one of them with nested tabs.
Tabbed ==
    (Root :> Of("ROOT", <<"a">>)) @@ (Grid :> Of("GRID", <<>>))
        @@ ("a" :> Of("TABS", <<"b", "c">>)) @@ ("b" :> Of("TAB", <<"d">>)) @@ ("c" :> Of("TAB", <<"f">>))
        @@ ("d" :> Of("TABS", <<"e">>)) @@ ("e" :> Of("TAB", <<>>))
        @@ ("f" :> Of("HEADER", <<>>))

Some == {"a", "b", "c", "d", "e", "f", "g", "h", "i", "j"}
Opened == {Plain, Tabbed}
=============================================================================

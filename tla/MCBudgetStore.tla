--------------------------- MODULE MCBudgetStore ----------------------------
(* Instances of BudgetStore for TLC.                                        *)
EXTENDS BudgetStore

KillOnEdit  == [kill |-> "on", lim |-> <<>>]
KillOffEdit == [kill |-> "off", lim |-> <<>>]
MonthEdit   == [kill |-> "keep", lim |-> [usdMonth |-> 1000]]
RunEdit(n)  == [kill |-> "keep", lim |-> [tokensRun |-> n]]
PanelEdit   == [kill |-> "off", lim |-> [usdMonth |-> 0, usdDay |-> 200, tokensRun |-> 7]]

ShellEdits == {KillOnEdit, KillOffEdit, MonthEdit, RunEdit(4001), RunEdit(-1)}
AllEdits   == ShellEdits \cup {PanelEdit}
FewEdits   == {KillOnEdit, MonthEdit}

=============================================================================

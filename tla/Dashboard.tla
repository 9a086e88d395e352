------------------------------- MODULE Dashboard ------------------------------
(***************************************************************************)
(* The overview dashboard that is generated beside the alerting document:  *)
(* which panels it holds, and where.  A panel is [id, x, y, w, h] on       *)
(* Grafana's grid; queries, columns and colours are left out.              *)
(***************************************************************************)
EXTENDS Integers, FiniteSets, FiniteSetsExt

Panel(id, x, y, w, h) == [id |-> id, x |-> x, y |-> y, w |-> w, h |-> h]

\* grafana/dashboard-templates/overview.json.
Template ==
    {Panel(1, 0, 0, 12, 8), Panel(2, 12, 0, 12, 8), Panel(3, 0, 8, 24, 8),
     Panel(4, 0, 16, 12, 8), Panel(5, 12, 16, 12, 8), Panel(7, 0, 24, 24, 8),
     Panel(6, 0, 32, 24, 12), Panel(8, 0, 44, 24, 12)}

EventPanel == 6
MultisigPanels == {7, 8}

\* `rpc_polling_panels`: a row of four below the template, and one below them.
PollingPanels ==
    {Panel(9, 0, 56, 24, 1), Panel(14, 0, 63, 24, 8)}
    \union {Panel(10 + i, 6 * i, 57, 6, 6) : i \in 0..3}

Height(panel) == panel.h
TotalHeight(panels) == MapThenSumSet(Height, panels)

RemovedAbove(panels, ids, panel) ==
    {other \in panels : other.id \in ids /\ other.y < panel.y}

\* `remove_panels`: what was below a removed panel moves up by its height.
RemovePanels(panels, ids) ==
    {[panel EXCEPT !.y = @ - TotalHeight(RemovedAbove(panels, ids, panel))] :
        panel \in {each \in panels : each.id \notin ids}}

AllPanels(pollsRpc) == Template \union (IF pollsRpc THEN PollingPanels ELSE {})

WithoutMultisig == [pollsRpc \in BOOLEAN |-> RemovePanels(AllPanels(pollsRpc), MultisigPanels)]

\* `overview_document`: the panels of the poller if it runs, those of the multisig if
\* one is configured, and that of the events if the decoder was built with any.
OverviewDocument(hasMultisig, pollsRpc, programEvents) ==
    LET scoped == IF hasMultisig THEN AllPanels(pollsRpc) ELSE WithoutMultisig[pollsRpc]
    IN IF programEvents THEN scoped ELSE RemovePanels(scoped, {EventPanel})

Overlap(a, b) ==
    /\ a.x < b.x + b.w /\ b.x < a.x + a.w
    /\ a.y < b.y + b.h /\ b.y < a.y + a.h
===============================================================================

----------------------------- MODULE MCMessages -----------------------------
EXTENDS Messaging, TLC

(* All is wanted; all but alerts, with hours of rest within the day; alerts*)
(* only; hours of rest around midnight, and of no length.                  *)
FewChoices ==
    {Default, [wanted |-> Categories \ {"criticalAlerts"}, dnd |-> <<0, 1>>],
     [wanted |-> {"criticalAlerts"}, dnd |-> NoRest],
     [wanted |-> Categories, dnd |-> <<2, 1>>],
     [wanted |-> Categories, dnd |-> <<1, 1>>]}

FirstPosts == 1..3

Interchangeable ==
    Permutations(Messages) \cup Permutations(Conversations) \cup Permutations(Devices)
=============================================================================

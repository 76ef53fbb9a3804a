------------------------------ MODULE Messaging ------------------------------
(***************************************************************************)
(* Chat, push notifications and the radio history share no state: what one *)
(* does is nothing to the others.  So that their states add up, and do not *)
(* multiply, TLC explores each by itself: while one acts the others rest.  *)
(***************************************************************************)
EXTENDS Chat, Push, RadioHistory

VARIABLE acting     \* which of the three

messagingVars == <<acting, chatVars, pushVars, historyVars>>

MessagingInit ==
    /\ acting \in {"chat", "push", "history"}
    /\ ChatInit
    /\ PushInit
    /\ HistoryInit

MessagingNext ==
    \/ /\ acting = "chat"
       /\ ChatNext
       /\ UNCHANGED <<acting, pushVars, historyVars>>
    \/ /\ acting = "push"
       /\ PushNext
       /\ UNCHANGED <<acting, chatVars, historyVars>>
    \/ /\ acting = "history"
       /\ HistoryNext
       /\ UNCHANGED <<acting, chatVars, pushVars>>

MessagingSpec == MessagingInit /\ [][MessagingNext]_messagingVars

(* Every variable of the three has its type. *)
MessagingTypes == ChatTypes /\ PushTypes /\ HistoryTypes
=============================================================================

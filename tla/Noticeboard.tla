----------------------------- MODULE Noticeboard -----------------------------
(***************************************************************************)
(* What advertising promises, whatever threads, connections and servers do *)
(* in between: an author posts notices, numbered as they come, and a board *)
(* elsewhere shows one of them or none.  The board may lag behind, and may *)
(* be cleared at any time, but while it shows something it never goes back *)
(* to an older notice, and it comes to show the latest one that stays.     *)
(***************************************************************************)
EXTENDS Naturals

VARIABLES latest, \* how many notices have been posted
          wanted, \* the latest one has not been withdrawn
          shown   \* the notice the board shows, or 0

board == <<latest, wanted, shown>>

Init == latest = 0 /\ wanted = FALSE /\ shown = 0

Post == latest' = latest + 1 /\ wanted' = TRUE /\ UNCHANGED shown

Withdraw == wanted /\ wanted' = FALSE /\ UNCHANGED <<latest, shown>>

Show ==
    /\ shown' \in 1..latest /\ shown' > shown
    /\ UNCHANGED <<latest, wanted>>

Clear == shown # 0 /\ shown' = 0 /\ UNCHANGED <<latest, wanted>>

ShowLatest == wanted /\ Show /\ shown' = latest

Next == Post \/ Withdraw \/ Show \/ Clear

Spec == Init /\ [][Next]_board

(* A notice that is wanted for good is shown in the end.                   *)
FairSpec == Spec /\ WF_board(ShowLatest)
=============================================================================

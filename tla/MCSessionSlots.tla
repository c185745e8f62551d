--------------------------- MODULE MCSessionSlots ---------------------------
(* The instance of SessionSlots that TLC checks: two sockets of one tab, of *)
(* which `late` is the older attempt, and one of another tab.               *)
EXTENDS SessionSlots, TLC
CONSTANTS late, newer, other
MCHolderOf == (late :> "tab") @@ (newer :> "tab") @@ (other :> "otherTab")
MCAttemptOf == (late :> 1) @@ (newer :> 2) @@ (other :> None)
=============================================================================

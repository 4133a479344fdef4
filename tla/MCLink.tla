------------------------------- MODULE MCLink --------------------------------
(* A small home: one lamp, a bounded command for it that is signed twice,   *)
(* and a later command for the same lamp with the same content.             *)
EXTENDS Link, TLC

CONSTANTS e1, e2, e3, lamp

MCActionOf == e1 :> "x" @@ e2 :> "x" @@ e3 :> "y"
MCHashOf == e1 :> "h" @@ e2 :> "h" @@ e3 :> "h"
MCTargetOf == e1 :> lamp @@ e2 :> lamp @@ e3 :> lamp
MCFrom == e1 :> 0 @@ e2 :> 1 @@ e3 :> 1
MCUntil == e1 :> 2 @@ e2 :> 2 @@ e3 :> 4
MCDue == e1 :> 2 @@ e2 :> 2 @@ e3 :> 4
=============================================================================

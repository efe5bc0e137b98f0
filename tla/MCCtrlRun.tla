------------------------------ MODULE MCCtrlRun ------------------------------
(* Instances of CtrlRun for TLC. *)
EXTENDS CtrlRun, TLC

CONSTANTS pa, pb, nil, unset

MCPos == {pa, pb}
MCRank == pa :> 1 @@ pb :> 2
MCLabel == 1 :> "r.basic" @@ 2 :> "r.full" @@ 3 :> "s.basic"
MCNameOf == 1 :> "r" @@ 2 :> "r" @@ 3 :> "s"

MCOptions ==
  [from : {unset, "r.basic", "r.full", "s.basic", "typo"},
   to : {unset, "r.basic", "r.full", "s.basic", "typo"},
   keep : BOOLEAN, skip : {{}, {1}, {2}}]

MCMaps ==
  {EmptyMap, "x" :> {pa}, "x" :> {pb}, "x" :> {pa, pb},
   "x" :> {pa} @@ "y" :> {pb}}

(* No execution at all. *)
NoLabel == [j \in {} |-> "none"]
NoOptions == [from : {unset, "typo"}, to : {unset}, keep : BOOLEAN, skip : {{}}]
===============================================================================

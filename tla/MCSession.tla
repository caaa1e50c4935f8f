----------------------------- MODULE MCSession -----------------------------
(***************************************************************************)
(* Instances of Session for TLC: one Session, and a parent that owns a     *)
(* child on the same Computer.                                             *)
(***************************************************************************)
EXTENDS Session, TLC

CONSTANTS root, child

OneSession == {root}
TwoTier == {root, child}

OneParent == root :> NoSession
TwoTierParent == root :> NoSession @@ child :> root

SingleEvents == {"turn_deadline", "execution_deadline", "revocation", "preparation", "integrity_fault"}
TreeEvents == {"storage_pressure", "close_after_idle"}
=============================================================================

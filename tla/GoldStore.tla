----------------------------- MODULE GoldStore -----------------------------
(***************************************************************************)
(* What a consumer of the Gold lake is promised, whatever fails inside: a  *)
(* published build that is replaced only by a build published for the      *)
(* first time, and a set of builds that can be opened, from which only     *)
(* builds that are not the published one are ever retired, for good.       *)
(***************************************************************************)
CONSTANTS BuildIds, NoBuild

VARIABLES published,  \* the build a consumer gets by default, or NoBuild
          servable,   \* the builds a consumer can open
          used        \* the builds that were ever published

storeVars == <<published, servable, used>>

StoreInit ==
    /\ published = NoBuild
    /\ servable = {}
    /\ used = {}

Publish(b) ==
    /\ b \notin used
    /\ published' = b
    /\ servable' = servable \cup {b}
    /\ used' = used \cup {b}

Retire(ids) ==
    /\ published \notin ids
    /\ servable' = servable \ ids
    /\ UNCHANGED <<published, used>>

StoreNext ==
    \/ \E b \in BuildIds : Publish(b)
    \/ \E ids \in SUBSET servable : Retire(ids)

StoreSpec == StoreInit /\ [][StoreNext]_storeVars
=============================================================================

---------------------------- MODULE MCStoreSync ----------------------------
(* The instance of StoreSync that TLC checks. The ids of Orders are not     *)
(* interchangeable: they break the ties of the sort.                        *)
EXTENDS StoreSyncRefinement
=============================================================================

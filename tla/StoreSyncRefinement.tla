------------------------- MODULE StoreSyncRefinement -------------------------
(* StoreSync implements the promise of StoreMirror: the store and the tables *)
(* as they are. The runs, their pages and what they read are not seen, nor   *)
(* the account's failures.                                                   *)
EXTENDS StoreSyncInductive

Mirror == INSTANCE StoreMirror WITH Times <- Stamps, store <- stamp

\* However pages, changes, refused tokens, failing statements and crashes
\* interleave, the tables follow the store forwards and the cursor stays behind
\* them (syncOneAccount, upsertNormalizedStoreOrders): for one run at a time.
ImplementsStoreMirror == Mirror!Spec
=============================================================================

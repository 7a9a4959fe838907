----------------------------- MODULE MCListCache -----------------------------
(* The two lists of posts, in the order of invalidatePublicPostCaches: one    *)
(* reader at a time (a late SET is a second) and two handlers.                *)
EXTENDS ListCache

PublishedThenPopular == <<"published", "popular">>
==============================================================================

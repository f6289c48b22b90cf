------------------------------- MODULE MCFeedPaging ------------------------------
(* FeedPaging with more cursors and more copies than a pass may follow, so that *)
(* nothing but the cursor rules bounds the reading.                             *)
EXTENDS FeedPaging
==================================================================================

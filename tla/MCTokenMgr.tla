----------------------------- MODULE MCTokenMgr -----------------------------
(* TokenMgr with three slots and four salts: every slot is reused until    *)
(* its salts run out, and the manager is shut down and set up again.       *)
EXTENDS TokenMgr
=============================================================================

--------------------------- MODULE MCNodeJournal ---------------------------
(* TLC instance of NodeJournal.                                            *)
EXTENDS NodeJournal
=============================================================================

--------------------------- MODULE MCBudgetJournal ---------------------------
(* The coordinator with an empty database, or with the journals of two older versions. *)
EXTENDS BudgetJournal, TLC
============================================================================

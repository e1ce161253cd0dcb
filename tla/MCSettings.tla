----------------------------- MODULE MCSettings -----------------------------
(* Instance of SettingsReconciler.  Five ids outnumber what can be unacked or *)
(* in flight at a time: with none fresh, the CHOOSE of an id would fail.      *)
EXTENDS SettingsReconciler
=============================================================================

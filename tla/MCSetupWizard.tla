---------------------------- MODULE MCSetupWizard ----------------------------
(* Small instances of SetupWizard for TLC: see the .cfg file.              *)
EXTENDS SetupWizard, TLC

Alike == Permutations(Tabs) \cup Permutations(Names)
=============================================================================

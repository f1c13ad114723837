-------------------------- MODULE MCAdminSettings --------------------------
(* AdminSettings with small sets.                                           *)
EXTENDS AdminSettings, TLC

\* Nothing is claimed of spoiled settings: behaviours end there.
MCNext == ~spoiled /\ SettingsNext

MCSpec == SettingsInit /\ [][MCNext]_settingsVars

Symmetry == Permutations(Handlers)
=============================================================================

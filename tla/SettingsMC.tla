----------------------------- MODULE SettingsMC -----------------------------
(* Instances of Settings for TLC.                                         **)
EXTENDS Settings
=============================================================================

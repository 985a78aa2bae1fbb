----------------------------- MODULE MCBrowser -----------------------------
(* Two users of different roles, one screen with the session in full, and   *)
(* every other screen with each of its readings.                            *)
EXTENDS Browser

MCShellScreens == {"narrative"}
MCRoles == {"fpa_admin", "manager"}
=============================================================================

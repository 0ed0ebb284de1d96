---------------------------- MODULE MCHostsFile ----------------------------
(* Two peers, two lines of the user's and two rewrites at a time, for TLC. *)
EXTENDS HostsFile

CONSTANTS localhost, printer
MCUserLines == <<localhost, printer>>
=============================================================================

------------------------ MODULE MCSessionMaintenance ------------------------
(* SessionMaintenance on a small instance; the configuration gives the calls. *)
EXTENDS SessionMaintenance
=============================================================================

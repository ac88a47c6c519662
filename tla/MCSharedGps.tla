---------------------------- MODULE MCSharedGps ----------------------------
(* Values for the constants of SharedGps. *)
EXTENDS SharedGps

AllPgns == DOMAIN Converted \cup {"127250", "128259", "129025", "129026", "129029"}
AllCodes == {"RMC", "GGA", "VTG", "RMB", "HDT"}
=============================================================================

----------------------------- MODULE MCDownload ------------------------------
(* Downloads to one destination by two runs of the client.                 *)
EXTENDS Download
CONSTANTS c1, c2
=============================================================================

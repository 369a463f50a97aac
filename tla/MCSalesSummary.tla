--------------------------- MODULE MCSalesSummary ---------------------------
(* A small instance of SalesSummary for TLC.                               *)
EXTENDS MCTicketStore, SalesSummary
=============================================================================

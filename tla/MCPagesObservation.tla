------------------------- MODULE MCPagesObservation -------------------------
(***************************************************************************)
(* PagesObservation of a site of three routes that are sampled one by one, *)
(* or read all at once.                                                    *)
(***************************************************************************)
EXTENDS PagesObservation

CONSTANTS index, about, style, reset, timeout

MCRoutes == <<index, about, style>>
MCCodes == {reset, timeout}
=============================================================================

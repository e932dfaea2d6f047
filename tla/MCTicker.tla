------------------------------- MODULE MCTicker -------------------------------
(***************************************************************************)
(* Small instances of Ticker: two tickers, so that one can act on another  *)
(* whose tick is due, and two ids more than they can refer to, for the     *)
(* registrations they lose track of.                                       *)
(***************************************************************************)
EXTENDS Ticker

MCIds == 1 .. 4
=============================================================================

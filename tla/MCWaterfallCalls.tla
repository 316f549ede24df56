-------------------------- MODULE MCWaterfallCalls --------------------------
(* Amounts up to 3: each source can be empty, partly and fully drawn, and  *)
(* each limit can lie below, at and above the cost.                        *)
EXTENDS WaterfallCalls

MCAmounts == 0..3
=============================================================================

----------------------------- MODULE MCTokenWallet -----------------------------
(***************************************************************************)
(* TokenWallet on a small instance: quotes that do not all fit at once.    *)
(***************************************************************************)
EXTENDS TokenWallet

MCQuote == <<2, 1, 3, 1>>

=============================================================================

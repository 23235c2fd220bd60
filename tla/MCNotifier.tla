----------------------------- MODULE MCNotifier -----------------------------
(* Instances of TelegramNotifier for TLC.                                     *)
EXTENDS TelegramNotifier

CONSTANTS j1, j2

=============================================================================

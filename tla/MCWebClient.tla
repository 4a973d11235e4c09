----------------------------- MODULE MCWebClient -----------------------------
(* A small demo: the manager and the administrator, one expense, two logins. *)
EXTENDS WebClient

CONSTANTS riya, dev, e1
MCDemoUser == {riya, dev}
MCAdmin == {dev}
MCDemoExpense == {e1}
==============================================================================

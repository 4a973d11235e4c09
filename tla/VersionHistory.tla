---------------------------- MODULE VersionHistory ----------------------------
(***************************************************************************)
(* What the policy store promises its readers: per scope of a tenant a      *)
(* history that only grows at its end, of versions whose rule never changes *)
(* and which are activated at most once.                                   *)
(***************************************************************************)
EXTENDS Sequences

CONSTANTS
  Line,    \* a scope of a tenant
  Rule

VARIABLE history   \* per line, its versions 1, 2, ...

Version == [rule: Rule, status: {"staged", "active"}]

Init == history = [line \in Line |-> << >>]

Publish(line, rule) ==
  history' = [history EXCEPT ![line] = Append(@, [rule |-> rule, status |-> "staged"])]

Activate(line, v) ==
  /\ history[line][v].status = "staged"
  /\ history' = [history EXCEPT ![line][v].status = "active"]

Next ==
  \E line \in Line :
    \/ \E rule \in Rule : Publish(line, rule)
    \/ \E v \in DOMAIN history[line] : Activate(line, v)

Spec == Init /\ [][Next]_history
==============================================================================

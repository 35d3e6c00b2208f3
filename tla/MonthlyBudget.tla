---------------------------- MODULE MonthlyBudget ----------------------------
(***************************************************************************)
(* What the provider ledger promises, without rows, leases, workers or     *)
(* messages: every client holds at most one unit of one month's budget; a  *)
(* unit is taken only while the month has room, and is later spent for     *)
(* good or given back.  Nothing spent is ever returned.                    *)
(***************************************************************************)
EXTENDS Naturals, FiniteSets

CONSTANTS
  Clients,  \* whoever takes units: the processing jobs of a user
  Months,   \* calendar months, each with a budget of its own
  Limit,    \* units a month has
  Never     \* stands for no month: what a client holds that holds no unit

VARIABLES
  spent,    \* month -> units spent
  holds     \* client -> the month it holds a unit of

vars == <<spent, holds>>

Holders(S, m) == {c \in S : holds[c] = m}

Room(m) == spent[m] + Cardinality(Holders(Clients, m)) < Limit

Init ==
  /\ spent = [m \in Months |-> 0]
  /\ holds = [c \in Clients |-> Never]

\* Client c takes a unit of month m, returning one of another month unused.
Take(c, m) ==
  /\ holds[c] # m
  /\ Room(m)
  /\ holds' = [holds EXCEPT ![c] = m]
  /\ UNCHANGED spent

\* The clients in C spend the units they hold and those in R return theirs.
Settle(C, R) ==
  /\ spent' = [m \in Months |-> spent[m] + Cardinality(Holders(C, m))]
  /\ holds' = [c \in Clients |-> IF c \in C \cup R THEN Never ELSE holds[c]]

Next ==
  \/ \E c \in Clients, m \in Months : Take(c, m)
  \/ \E C, R \in SUBSET Clients : C \cap R = {} /\ Settle(C, R)

Spec == Init /\ [][Next]_vars
=============================================================================

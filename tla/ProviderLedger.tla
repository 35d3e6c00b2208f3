--------------------------- MODULE ProviderLedger ---------------------------
(***************************************************************************)
(* One row of the provider usage ledger: what a user has spent and set     *)
(* aside with one provider in one calendar month, and the circuit that     *)
(* stops spending after a credential or quota failure.  The operators are  *)
(* the updates the job handlers make on a row they hold locked.            *)
(***************************************************************************)
EXTENDS Naturals

\* The columns of a row.  exists is FALSE until the first reservation of the
\* month inserts it; open is the state of the circuit.
LedgerRow == [exists: BOOLEAN, processed: Nat, reserved: Nat, open: BOOLEAN]

NewRow == [exists |-> FALSE, processed |-> 0, reserved |-> 0, open |-> FALSE]

Lesser(a, b) == IF a <= b THEN a ELSE b

\* A limit check that forgets the units asked for (a faulty variant of Fits).
FitsBug(row, units, limit) == row.processed + row.reserved <= limit

\* Whether units more fit under the hard limit of the month.
Fits(row, units, limit) == row.processed + row.reserved + units <= limit

Reserve(row, units) == [row EXCEPT !.reserved = @ + units]

\* Charged units that are given back but not counted as processed (a faulty
\* variant of Settle).
SettleBug(row, charged, released) ==
  [row EXCEPT !.reserved = @ - Lesser(@, charged + released)]

\* Give back charged + released units of the reserved column; the charged
\* ones move to the processed column.  The code never takes out more than is
\* reserved.
Settle(row, charged, released) ==
  [row EXCEPT !.reserved = @ - Lesser(@, charged + released),
              !.processed = @ + Lesser(row.reserved, charged)]

\* The circuit lives in the row: there is nothing to open before the first
\* reservation of the month has created it.
OpenCircuit(row)  == [row EXCEPT !.open = row.exists]

\* Closing by starting the row afresh (a faulty variant of CloseCircuit).
CloseCircuitBug(row) == [NewRow EXCEPT !.exists = row.exists]

CloseCircuit(row) == [row EXCEPT !.open = FALSE]
=============================================================================

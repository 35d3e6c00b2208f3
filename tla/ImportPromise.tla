---------------------------- MODULE ImportPromise ----------------------------
(***************************************************************************)
(* What the manifest-import service promises a client of one source: at    *)
(* most one import is open, its manifest is merged into the catalogue at   *)
(* most once, only after the client submitted it, and an import that       *)
(* succeeded has been merged.  A failed import may have been merged.       *)
(* ManifestImport implements this module; ManifestSync builds on it.     *)
(***************************************************************************)
EXTENDS Naturals

CONSTANT Imports   \* imports of one source, one for each idempotency key

VARIABLES
  status,   \* import -> what the client is told
  merges    \* import -> merges of its manifest committed

promised == <<status, merges>>

Statuses == {"None", "AwaitingUpload", "Working", "Succeeded", "Failed", "Expired"}
Open     == {"AwaitingUpload", "Working"}

Init ==
  /\ status = [i \in Imports |-> "None"]
  /\ merges = [i \in Imports |-> 0]

\* A new import takes the place of one whose upload lapsed.
Create(i) ==
  /\ status[i] = "None"
  /\ \A j \in Imports : status[j] # "Working"
  /\ status' = [j \in Imports |-> IF j = i THEN "AwaitingUpload"
                                  ELSE IF status[j] = "AwaitingUpload" THEN "Expired"
                                  ELSE status[j]]
  /\ UNCHANGED merges

Become(i, from, to) ==
  /\ status[i] = from
  /\ status' = [status EXCEPT ![i] = to]
  /\ UNCHANGED merges

Submit(i) == Become(i, "AwaitingUpload", "Working")

Merge(i) ==
  /\ status[i] = "Working" /\ merges[i] = 0
  /\ merges' = [merges EXCEPT ![i] = 1]
  /\ UNCHANGED status

Succeed(i) == merges[i] = 1 /\ Become(i, "Working", "Succeeded")

Fail(i) == Become(i, "Working", "Failed")

Next == \E i \in Imports : Create(i) \/ Submit(i) \/ Merge(i) \/ Succeed(i) \/ Fail(i)

Spec == Init /\ [][Next]_promised
==============================================================================

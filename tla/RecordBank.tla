----------------------------- MODULE RecordBank -----------------------------
(***************************************************************************)
(* What the ledger promises about a copied record, without runs, files or  *)
(* tables: a record is credited to at most one session, and to the same    *)
(* one for ever (docs/architecture.md, "All-time ledger").                 *)
(***************************************************************************)
EXTENDS Integers

CONSTANTS Accounts, Records, NoOwner

VARIABLES
  holder,  \* holder[r]: the session r was first banked by
  credit   \* credit[k][r]: what r adds to the total of session k

bankVars == <<holder, credit>>

\* Only the holder of a record has credit for it.
HeldOnly == \A k \in Accounts, r \in Records : credit[k][r] > 0 => holder[r] = k

Init ==
  /\ holder = [r \in Records |-> NoOwner]
  /\ credit = [k \in Accounts |-> [r \in Records |-> 0]]

\* One run: unheld records find a holder, any credit may be restated.
Bank ==
  /\ \A r \in Records : holder[r] # NoOwner => holder'[r] = holder[r]
  /\ HeldOnly'

Spec == Init /\ [][Bank]_bankVars

\* No record is credited to two sessions.
CreditedOnce ==
  \A r \in Records, k, l \in Accounts :
    credit[k][r] > 0 /\ credit[l][r] > 0 => k = l

=============================================================================

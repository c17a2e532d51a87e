-------------------------------- MODULE MCAccounts --------------------------------
(* Two sign-ups of two e-mails; the identifiers give two organizations. *)
EXTENDS Accounts, TLC

CONSTANTS s1, s2, e1, e2, o1, o2

Callers == {s1, s2}
Emails == {e1, e2}
OrgIds == {o1, o2}

\* A call fails in the middle; nobody fails and the users come back.
Failing == [mode |-> "production", faults |-> 1, removals |-> 0, visits |-> 0]
Living == [mode |-> "development", faults |-> 0, removals |-> 1, visits |-> 2]
AllSettings == {Failing, Living}

\* Nothing but sign-ups.
Inviting == [mode |-> "production", faults |-> 0, removals |-> 0, visits |-> 0]
OnlySignUps == {Inviting}

Symmetry == Permutations(Callers) \union Permutations(Emails) \union Permutations(OrgIds)
=============================================================================

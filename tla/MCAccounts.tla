----------------------------- MODULE MCAccounts -----------------------------
(* Instances of Accounts for TLC. *)
EXTENDS Accounts, TLC

\* Laws of the permission tables, which no request changes.
P == INSTANCE Permissions
ASSUME PermissionLaws == P!ConsoleAgreesWithGate /\ P!ReasonsAreTrue /\ P!LastOwnerAgrees

\* Requests, users and sessions are interchangeable.
AccountsSymmetry == Permutations(Requests) \cup Permutations(Users) \cup Permutations(Sessions)

\* A demotion, a promotion, each value of a flag, two fields at once, the name only.
Edits == {NoBody, [NoBody EXCEPT !.role = "admin"], [NoBody EXCEPT !.role = "owner"],
          [NoBody EXCEPT !.disabled = "yes"], [NoBody EXCEPT !.disabled = "no"],
          [NoBody EXCEPT !.must = "yes"], [role |-> "viewer", disabled |-> "yes", must |-> "no"]}
=============================================================================

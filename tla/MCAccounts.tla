----------------------------- MODULE MCAccounts -----------------------------
(***************************************************************************)
(* Model checking of Accounts: requests, identities and the emails of no   *)
(* legacy row are interchangeable, and all properties are safety.          *)
(***************************************************************************)
EXTENDS Accounts, TLC

Interchangeable ==
    {p @@ q @@ s : p \in Permutations(Requests), q \in Permutations(Ids),
                   s \in Permutations(Emails \ Legacy)}
=============================================================================

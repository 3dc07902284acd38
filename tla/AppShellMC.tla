------------------------------ MODULE AppShellMC ------------------------------
(* Small instances of the application shell: an administrator's and        *)
(* another account's token.                                                *)
EXTENDS AppShell, TLC

CONSTANTS k1, k2, alice, bob

TwoOwners == (k1 :> alice) @@ (k2 :> bob)
=============================================================================

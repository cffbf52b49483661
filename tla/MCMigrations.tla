---------------------------- MODULE MCMigrations ----------------------------
EXTENDS MigrationsProofs, TLC

CONSTANTS m1, m2

MCManual == {m1, m2}
\* The first file changes a listed table and then creates a type, the second
\* drops a column; the change may be refused.
MCSize == <<2, 1>>
MCTableOf == (<<1, 1>> :> 1) @@ (<<1, 2>> :> 0) @@ (<<2, 1>> :> 2)
MCGuarded == {<<2, 1>>}
MCRefusable == {<<1, 1>>}
=============================================================================

--------------------------- MODULE MCBootMigrations ---------------------------
(***************************************************************************)
(* TLC instances of BootMigrations.  The first two statements of the       *)
(* platform SQL come before the one that creates "user", as in             *)
(* vendor/intx/db/migrations/0000_brown_wither.sql.                        *)
(***************************************************************************)
EXTENDS BootMigrations

=============================================================================

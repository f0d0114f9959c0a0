---------------------------- MODULE MCMigrations ----------------------------
(***************************************************************************)
(* Migrations in the form of 0001_baseline, 0002_auth and 0003_storage:    *)
(* tables, an index, columns that are added to an earlier table.           *)
(***************************************************************************)
EXTENDS Migrations

Creates(object, on) == [adds |-> object, strict |-> FALSE, on |-> on]
Alters(column, table) == [adds |-> column, strict |-> TRUE, on |-> {table}]

MCFiles ==
    << <<Creates("users", {}), Creates("meetings", {}), Creates("recordings", {}),
         Creates("index", {"meetings"})>>,
       <<Alters("users.auth", "users"), Creates("sessions", {"users"})>>,
       <<Alters("recordings.key", "recordings")>> >>
=============================================================================

------------------------------ MODULE Accounts ------------------------------
(* The hosts and the accounts, which the list of recent hosts keeps and    *)
(* the sessions log in with.                                               *)
EXTENDS Integers, FiniteSets

CONSTANTS
  Hosts,
  Words       \* logins and passwords that somebody types

ASSUME WordAssumption == "" \notin Words

Account(l, p) == [login |-> l, passwd |-> p]
Accounts      == [login : Words \cup {""}, passwd : Words \cup {""}]
=============================================================================

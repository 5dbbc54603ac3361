--------------------------- MODULE EmployeeTable ---------------------------
(***************************************************************************)
(* The Employees table of the MySQL database, as the migration             *)
(* 20211222004642_init creates it: an auto-increment primary key, a        *)
(* self-referencing foreign key LeaderId ON DELETE CASCADE, and a unique   *)
(* index on LeaderId.  Neither Email nor EmployeeNumber has an index, so   *)
(* the database does not keep them apart.                                  *)
(*                                                                         *)
(* Everything here is a pure operator on a table, a function from Ids to   *)
(* rows in which NoRow stands for an Id that has none.                     *)
(***************************************************************************)
EXTENDS Integers

CONSTANTS
  Emails,     \* the addresses in play
  Numbers,    \* the employee numbers (badge numbers) in play
  Words,      \* the passwords people type
  MaxId,      \* bound: how many Ids the auto-increment counter hands out
  None,       \* null: an absent field, an absent leader
  NoRow       \* an Id that has no row

ASSUME MaxIdAssumption == MaxId \in Nat

ASSUME NullAssumption ==
  /\ None \notin Emails \cup Numbers \cup Words \cup Int
  /\ NoRow # None

Ids == 1 .. MaxId

\* A stored password: sealed by EncryptAES256, or as it was typed.
Password == [sealed : BOOLEAN, word : Words]
Seal(w) == [sealed |-> TRUE, word |-> w]
Plain(w) == [sealed |-> FALSE, word |-> w]

\* The columns the properties tell apart.  Names, phones and status are left
\* out: no check reads them and no key is built from them.
Row == [email : Emails, number : Numbers, leader : Ids \cup {None},
        password : Password]

ASSUME NoRowAssumption == NoRow \notin Row

Table == [Ids -> Row \cup {NoRow}]
EmptyTable == [i \in Ids |-> NoRow]

Live(T) == {i \in Ids : T[i] # NoRow}

\* An employee as a query, the cache or a reply shows it: its Id and its row.
Entry == [id : Ids, row : Row]
EntryOf(T, i) == [id |-> i, row |-> T[i]]
Entries(T) == {EntryOf(T, i) : i \in Live(T)}

-----------------------------------------------------------------------------
\* What the database enforces on every statement.

LeadersExist(T) ==
  \A i \in Live(T) : T[i].leader \in Live(T) \cup {None}

OneFollowerEach(T) ==
  \A i, j \in Live(T) :
    T[i].leader = T[j].leader /\ T[i].leader # None => i = j

Consistent(T) == LeadersExist(T) /\ OneFollowerEach(T)

\* The value of the auto-increment counter after a restart of MySQL 5.7, which
\* does not persist it: one more than the largest Id in the table.
Follows(T, n) ==
  /\ n \in 1 .. MaxId + 1
  /\ \A i \in Live(T) : i < n
  /\ n = 1 \/ n - 1 \in Live(T)

-----------------------------------------------------------------------------
\* ON DELETE CASCADE: with row i go its follower, the follower's follower, and
\* so on: the rows that are in every set that holds i and is closed under
\* "whoever this one leads".
ClosedUnderFollowers(T, S) == \A k \in Live(T) : T[k].leader \in S => k \in S

Doomed(T, i) ==
  {j \in Live(T) : \A S \in SUBSET Live(T) :
                     i \in S /\ ClosedUnderFollowers(T, S) => j \in S}

\* Not the code: a foreign key without ON DELETE CASCADE.
DeleteRowOnly(T, i) == [T EXCEPT ![i] = NoRow]

DeleteRow(T, i) == [j \in Ids |-> IF j \in Doomed(T, i) THEN NoRow ELSE T[j]]

\* Following Leader from i among the rows of T never ends: some set of rows
\* holds i and the leader of each of its members.  Json.NET refuses such an
\* object graph ("Self referencing loop detected").
Endless(T, i) ==
  \E S \in SUBSET Live(T) : i \in S /\ \A j \in S : T[j].leader \in S

=============================================================================

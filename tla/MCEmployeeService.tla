------------------------- MODULE MCEmployeeService -------------------------
(***************************************************************************)
(* Small instances of EmployeeService for TLC: seeds, inputs, symmetry.    *)
(***************************************************************************)
EXTENDS EmployeeService, TLC

CONSTANTS ann, bob, n1, n2, w1

Employee(e, n, l) ==
  [email |-> e, number |-> n, leader |-> l, password |-> Seal(w1)]

NoSeed == {EmptyTable}
AnnOnly == {[EmptyTable EXCEPT ![1] = Employee(ann, n1, None)]}

\* Every write, and the lookups by Id.
SerialCalls ==
  {c \in Calls : c.op \in {"add", "remove", "update"}}
    \cup {Lookup(key) : key \in {"id"} \X Ids}

\* A few calls that collide: two people to hire, alone or under employee 1, who
\* are removed or change their address and their leader, every field at once, and
\* the lookup of employee 1 that leaves him in the cache.
RaceCalls ==
  {Lookup(<<"id", 1>>)}
    \cup {Removal(i) : i \in Ids}
    \cup {Hiring(ann, n1, l, w1) : l \in {None, 1}}
    \cup {Hiring(bob, n2, 1, w1)}
    \cup {Change(1, ann, l, w1) : l \in {0, 1}}
    \cup {Change(2, bob, l, w1) : l \in {0, 1}} \cup {Change(1, bob, 0, w1)}

\* What can be looked up about Bob, who is hired under Ann, by Id, number and
\* address, while she takes his address or becomes her own leader, and either is
\* removed.
FaultCalls ==
  {Lookup(<<"id", 2>>), Lookup(<<"badge", n2>>), Lookup(<<"email", bob>>), Login(bob, w1),
   Removal(1), Removal(2), Hiring(bob, n2, 1, w1),
   Change(1, bob, None, None), Change(1, None, 1, w1)}

\* Readers of one employee, of an address and of the whole list against writers,
\* some of whom make the employee his own leader and undo it.
ReadAndWrite ==
  {Lookup(<<"id", 1>>), Lookup(<<"email", bob>>), Lookup(AllKey), Hiring(bob, n2, None, w1),
   Change(1, None, 1, None), Change(1, None, 0, None), Removal(2)}

\* Two people hired with one number.
SameNumber == {Hiring(ann, n1, None, w1), Hiring(bob, n1, None, w1)}

\* One hiring; one employee's change of password.
OneHiring == {Hiring(ann, n1, None, w1)}
NewPassword == {Change(1, None, None, w1)}

Clients == Permutations(Requests)
People == Permutations(Emails) \cup Permutations(Numbers)
=============================================================================

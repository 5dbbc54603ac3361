----------------------------- MODULE Directory -----------------------------
(***************************************************************************)
(* What the employee operations promise, without cache, contexts and       *)
(* queries: a register of employees and clients who place one order at a   *)
(* time.  An order to hire, change or remove takes effect in one step,     *)
(* between its arrival and its reply; "ok" is replied only after that, and *)
(* "bad" and "notfound" only where nothing has happened.                   *)
(***************************************************************************)
EXTENDS EmployeeTable

CONSTANTS
  Clients,      \* those who place orders
  Orders,       \* what they may ask for, and what they hold between orders
  NoOrder,
  MaxAttempts,  \* how often an order whose effect was not acknowledged is tried again
  LostAcks,     \* whether acknowledgements get lost
  Resets,       \* whether the counter may fall back on the largest Id
  Seeds         \* the registers to start from

VARIABLES register, counter, stage, order, attempts, reply

promised == <<register, counter, stage, order, attempts, reply>>

Init ==
  /\ register \in Seeds
  /\ Follows(register, counter)
  /\ stage = [c \in Clients |-> "free"]
  /\ order = [c \in Clients |-> NoOrder]
  /\ attempts = [c \in Clients |-> 0]
  /\ reply = [c \in Clients |-> "none"]

Place(c) ==
  /\ stage[c] = "free"
  /\ \E o \in Orders : order' = [order EXCEPT ![c] = o]
  /\ stage' = [stage EXCEPT ![c] = "asked"]
  /\ reply' = [reply EXCEPT ![c] = "none"]
  /\ UNCHANGED <<register, counter, attempts>>

Close(c, kind) ==
  /\ stage' = [stage EXCEPT ![c] = "free"]
  /\ order' = [order EXCEPT ![c] = NoOrder]
  /\ attempts' = [attempts EXCEPT ![c] = 0]
  /\ reply' = [reply EXCEPT ![c] = kind]

TryAgain(c) ==
  /\ attempts[c] < MaxAttempts
  /\ attempts' = [attempts EXCEPT ![c] = @ + 1]
  /\ UNCHANGED <<stage, order, reply>>

(* An effect is known to the order, or its acknowledgement is lost.        *)
Effected(c) ==
  \/ /\ stage' = [stage EXCEPT ![c] = "done"]
     /\ UNCHANGED <<order, attempts, reply>>
  \/ LostAcks /\ (TryAgain(c) \/ Close(c, "error"))

Newcomer(o) ==
  [email |-> o.email, number |-> o.number, leader |-> o.leader,
   password |-> Seal(o.word)]

Hire(c) ==
  /\ stage[c] = "asked" /\ order[c].op = "add"
  /\ counter \in Ids
  /\ register' = [register EXCEPT ![counter] = Newcomer(order[c])]
  /\ Consistent(register')
  /\ counter' = counter + 1
  /\ Effected(c)

Given(x, otherwise) == IF x = None THEN otherwise ELSE x

Changed(o, row) ==
  [email |-> Given(o.email, row.email),
   number |-> row.number,
   leader |-> IF o.leader = 0 THEN None ELSE Given(o.leader, row.leader),
   password |-> IF o.word = None THEN row.password ELSE Plain(o.word)]

(* A change is made to the row as it is; nobody else is touched, but for   *)
(* employees who led themselves and lose their leader to the changed one.  *)
Change(c) ==
  /\ stage[c] = "asked" /\ order[c].op = "update"
  /\ \E i \in Live(register) :
       /\ order[c].key = <<"id", i>>
       /\ \E freed \in SUBSET (Live(register) \ {i}) :
            /\ \A j \in freed : Changed(order[c], register[i]).leader = j
            /\ register' = [j \in Ids |->
                 IF j = i THEN Changed(order[c], register[i])
                 ELSE IF j \in freed THEN [register[j] EXCEPT !.leader = None]
                 ELSE register[j]]
  /\ Consistent(register')
  /\ UNCHANGED counter
  /\ Effected(c)

Remove(c) ==
  /\ stage[c] = "asked" /\ order[c].op = "remove"
  /\ \E i \in Live(register) :
       /\ order[c].key = <<"id", i>>
       /\ register' = DeleteRow(register, i)
  /\ UNCHANGED counter
  /\ Close(c, "ok") \/ Effected(c)

(* An attempt that came to nothing.                                        *)
Repeat(c) ==
  /\ stage[c] = "asked"
  /\ TryAgain(c)
  /\ UNCHANGED <<register, counter>>

Answer(c) ==
  /\ \/ stage[c] = "done" /\ Close(c, "ok")
     \/ stage[c] = "asked" /\ order[c].op \in {"get", "auth"} /\ Close(c, "ok")
     \/ stage[c] = "asked" /\ attempts[c] = 0
          /\ \E kind \in {"bad", "notfound"} : Close(c, kind)
     \/ stage[c] # "free" /\ Close(c, "error")
  /\ UNCHANGED <<register, counter>>

Forget ==
  /\ Resets
  /\ Follows(register, counter')
  /\ UNCHANGED <<register, stage, order, attempts, reply>>

Next ==
  \/ \E c \in Clients : \/ Place(c) \/ Hire(c) \/ Change(c) \/ Remove(c)
                        \/ Repeat(c) \/ Answer(c)
  \/ Forget

Spec == Init /\ [][Next]_promised
=============================================================================

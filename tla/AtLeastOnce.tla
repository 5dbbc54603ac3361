---------------------------- MODULE AtLeastOnce ----------------------------
(***************************************************************************)
(* What the message channel promises to the caller of MessageController:   *)
(* a message it was told is sent is, from the day the channel exists, held *)
(* until it has been consumed or set aside, and may be consumed again.     *)
(***************************************************************************)
CONSTANT Messages

VARIABLES
    open,  \* has the receiving end ever been there?
    said,  \* the answer the caller of each message got
    fate,  \* what became of each message
    seen,  \* the messages consumed at least once
    aside  \* the messages set aside as impossible to consume

vars == <<open, said, fate, seen, aside>>

TypeOK == /\ open \in BOOLEAN
          /\ said \in [Messages -> {"nothing", "sent", "failed"}]
          /\ fate \in [Messages -> {"none", "lost", "held", "over"}]
          /\ seen \subseteq Messages
          /\ aside \subseteq Messages

Init == /\ open = FALSE
        /\ said = [m \in Messages |-> "nothing"]
        /\ fate = [m \in Messages |-> "none"]
        /\ seen = {}
        /\ aside = {}

Open == /\ ~open
        /\ open' = TRUE
        /\ UNCHANGED <<said, fate, seen, aside>>

Take(m) == /\ fate[m] = "none"
           /\ fate' = [fate EXCEPT ![m] = IF open THEN "held" ELSE "lost"]
           /\ UNCHANGED <<open, said, seen, aside>>

Say(m, a) == /\ said[m] = "nothing"
             /\ a = "sent" => fate[m] # "none"
             /\ said' = [said EXCEPT ![m] = a]
             /\ UNCHANGED <<open, fate, seen, aside>>

(* A consumer cut off from the channel may still be at work on a message   *)
(* that another delivery has brought to its end.                           *)
See(m) == /\ fate[m] \in {"held", "over"}
          /\ seen' = seen \cup {m}
          /\ UNCHANGED <<open, said, fate, aside>>

SetAside(m) == /\ fate[m] = "held"
               /\ aside' = aside \cup {m}
               /\ UNCHANGED <<open, said, fate, seen>>

LetGo(m) == /\ fate[m] = "held"
            /\ m \in seen \cup aside
            /\ fate' = [fate EXCEPT ![m] = "over"]
            /\ UNCHANGED <<open, said, seen, aside>>

Next == \/ Open
        \/ \E m \in Messages : \/ Take(m) \/ See(m) \/ SetAside(m) \/ LetGo(m)
                               \/ \E a \in {"sent", "failed"} : Say(m, a)

Spec == Init /\ [][Next]_vars
=============================================================================

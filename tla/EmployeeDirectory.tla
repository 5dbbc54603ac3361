------------------------- MODULE EmployeeDirectory -------------------------
(***************************************************************************)
(* EmployeeService implements Directory: the table is the register, and a  *)
(* call is done once its statement was acknowledged.                       *)
(***************************************************************************)
EXTENDS EmployeeService

StageAt(step, op) ==
  IF step = "idle" THEN "free"
  ELSE IF \/ step \in {"AddCacheGet", "AddReload", "Reload"}
          \/ step = "CacheSet" /\ op = "add" THEN "done" ELSE "asked"

D == INSTANCE Directory WITH
       Clients <- Requests,
       Orders <- {Normalised(c) : c \in Inputs},
       NoOrder <- NoCall,
       MaxAttempts <- MaxRetries,
       LostAcks <- "lostAck" \in Faults,
       Resets <- "restart" \in Faults,
       register <- db,
       counter <- nextId,
       stage <- [r \in Requests |-> StageAt(pc[r], call[r].op)],
       order <- call,
       attempts <- tries,
       reply <- [r \in Requests |-> answer[r].kind]

(* Every write of the service takes effect in one step, on the row as it   *)
(* is, at most once per acknowledged statement; a success is answered      *)
(* after the effect, a refusal without one, and no lookup, cache fill,     *)
(* expiry or link failure touches the table.                               *)
AtomicDirectory == D!Spec

(* An update that carries every field it may carry.                        *)
Whole(c) == c.op = "update" => None \notin {c.email, c.leader, c.word}
=============================================================================

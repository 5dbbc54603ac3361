------------------------ MODULE MessageChannel_proofs ------------------------
(***************************************************************************)
(* Proofs about MessageChannel: its types, that it keeps the promise of    *)
(* AtLeastOnce, and how often a message can end.                           *)
(***************************************************************************)
EXTENDS MessageChannel, FiniteSetTheorems, TLAPS

(* A message is in one place: on its way, in the queue, in one delivery    *)
(* that is not acknowledged, acknowledged, or dropped.                     *)
OnePlace ==
    /\ \A d, e \in Unacked : d.msg = e.msg => d = e
    /\ \A d \in Unacked : d.msg \notin queue
    /\ acked \cap Held = {}
    /\ dropped \cap (Held \cup acked) = {}
    /\ wire \cap (Held \cup acked \cup dropped) = {}

Placed == wire \cup Held \cup acked \cup dropped

(* A message is somewhere as soon as it is sent; its deliveries are of     *)
(* messages the queue took.                                                *)
Somewhere ==
    /\ \A m \in Messages : api[m] = "idle" => m \notin Placed
    /\ \A m \in Messages : api[m] \in {"sending", "sent"} => m \in Placed
    /\ \A d \in hands : d.msg \in Held \cup acked

(* A delivery is done when its message is written or set aside, and waits  *)
(* only while it has an attempt left.                                      *)
DoneForCause ==
    \A d \in hands : /\ d.at = "done" => printed[d.msg] > 0 \/ d.msg \in errors
                     /\ d.at = "waiting" => d.attempt <= Retries

IInv == TypeOK /\ OnePlace /\ Somewhere /\ DoneForCause

-----------------------------------------------------------------------------
LEMMA InitInv == Init => IInv
<1> SUFFICES ASSUME Init PROVE IInv
  OBVIOUS
<1>1. Unacked = {}
  BY DEF Init, Unacked
<1>2. Held = {}
  BY <1>1 DEF Init, Held
<1>3. TypeOK
  <2>1. losses \in 0 .. MaxLosses /\ tags \in Nat
    BY ChannelAssumption DEF Init
  <2>2. /\ api \in [Messages -> {"idle", "sending", "sent", "failed"}]
        /\ printed \in [Messages -> Nat]
    BY DEF Init
  <2> QED
    BY <2>1, <2>2 DEF Init, TypeOK
<1>4. OnePlace
  BY <1>1, <1>2 DEF Init, OnePlace
<1>5. Somewhere /\ DoneForCause
  BY <1>2 DEF Init, Somewhere, DoneForCause, Placed
<1> QED
  BY <1>3, <1>4, <1>5 DEF IInv

(* A delivery that goes on with the same message over the same channel     *)
(* leaves every message where it is.                                       *)
LEMMA SamePlaces ==
  ASSUME IInv, NEW d \in hands, NEW e \in Delivery, e.msg = d.msg, e.live = d.live,
         Becomes(d, e), queue' = queue
  PROVE  /\ hands' \subseteq Delivery
         /\ Held' = Held
         /\ \A x, y \in Unacked' : x.msg = y.msg => x = y
         /\ \A x \in Unacked' : x.msg \notin queue
         /\ \A x \in hands' : x.msg \in Held \cup acked
<1>1. hands' = (hands \ {d}) \cup {e}
  BY DEF Becomes
<1>2. Unacked' = IF d.live THEN (Unacked \ {d}) \cup {e} ELSE Unacked
  BY <1>1 DEF Unacked
<1>3. {x.msg : x \in Unacked'} = {x.msg : x \in Unacked}
  BY <1>2 DEF Unacked
<1> QED
  BY <1>1, <1>2, <1>3 DEF IInv, TypeOK, OnePlace, Somewhere, Held, Unacked

LEMMA Advanced ==
  ASSUME TypeOK, NEW d \in hands, NEW s \in {"time", "data", "waiting", "failed", "done"}
  PROVE  /\ [d EXCEPT !.at = s] \in Delivery
         /\ [d EXCEPT !.at = s].msg = d.msg
         /\ [d EXCEPT !.at = s].live = d.live
         /\ [d EXCEPT !.at = s].at = s
         /\ [d EXCEPT !.at = s].attempt = d.attempt
BY DEF TypeOK, Delivery

LEMMA Again ==
  ASSUME NEW d \in Delivery, NEW k \in 1 .. (Retries + 1)
  PROVE  [d EXCEPT !.at = "time", !.attempt = k] \in Delivery
BY DEF Delivery

(* What a delivery is after a step that does not end it.                   *)
GoesOnAs(d, e) ==
    /\ e.msg = d.msg /\ e.live = d.live
    /\ Becomes(d, e)
    /\ e.at = "done" => WriteData(d) \/ (MoveToErrors(d) /\ d.live)
    /\ e.at = "waiting" => e.attempt <= Retries

LEMMA GoesOn ==
  ASSUME IInv, NEW d \in hands,
         \/ WriteTime(d) \/ WriteData(d) \/ Throw(d) \/ Retry(d)
         \/ MoveToErrors(d) /\ d.live
  PROVE  \E e \in Delivery : GoesOnAs(d, e)
<1> USE DEF GoesOnAs
<1>1. CASE WriteTime(d)
  BY <1>1, Advanced DEF WriteTime, IInv
<1>2. CASE WriteData(d)
  <2>1. LET e == [d EXCEPT !.at = "done"]
        IN /\ e \in Delivery /\ e.msg = d.msg /\ e.live = d.live
           /\ Becomes(d, e) /\ e.at = "done"
    BY <1>2, Advanced DEF WriteData, IInv
  <2> QED
    BY <1>2, <2>1
<1>3. CASE Throw(d)
  BY <1>3, Advanced DEF Throw, IInv
<1>4. CASE Retry(d)
  <2>1. [d EXCEPT !.at = "time", !.attempt = @ + 1] \in Delivery
    <3>1. d \in Delivery /\ d.attempt <= Retries
      BY <1>4 DEF Retry, IInv, TypeOK, DoneForCause
    <3>2. d.attempt + 1 \in 1 .. (Retries + 1)
      BY <3>1, ChannelAssumption DEF Delivery
    <3> QED
      BY <3>1, <3>2, Again
  <2> QED
    BY <1>4, <2>1 DEF Retry, IInv, TypeOK, Delivery
<1>5. CASE MoveToErrors(d) /\ d.live
  BY <1>5, Advanced DEF MoveToErrors, IInv
<1> QED
  BY <1>1, <1>2, <1>3, <1>4, <1>5

(* The steps of a delivery that leave its message where it is.             *)
LEMMA WorkKeeps ==
  ASSUME IInv, NEW d \in hands,
         \/ WriteTime(d) \/ WriteData(d) \/ Throw(d) \/ Retry(d)
         \/ MoveToErrors(d) /\ d.live
  PROVE  IInv' /\ Held' = Held
<1>1. /\ UNCHANGED <<sender, up, broker, acked, losses>>
      /\ errors \subseteq errors' /\ errors' \subseteq Messages
      /\ d.msg \in Messages
  BY DEF WriteTime, WriteData, Throw, Retry, MoveToErrors, outcome, IInv, TypeOK, Delivery
<1>2. PICK e \in Delivery : GoesOnAs(d, e)
  BY GoesOn
<1> USE DEF GoesOnAs
<1>3. printed' \in [Messages -> Nat] /\ \A m \in Messages : printed[m] > 0 => printed'[m] > 0
  BY <1>1 DEF WriteTime, WriteData, Throw, Retry, MoveToErrors, outcome, IInv, TypeOK
<1>4. e.at = "done" => printed'[d.msg] > 0 \/ d.msg \in errors'
  <2>1. WriteData(d) => printed'[d.msg] > 0
    <3>1. printed[d.msg] \in Nat
      BY <1>1 DEF IInv, TypeOK
    <3> QED
      BY <1>1, <3>1 DEF WriteData, IInv, TypeOK
  <2>2. MoveToErrors(d) /\ d.live => d.msg \in errors'
    BY DEF MoveToErrors
  <2> QED
    BY <1>2, <2>1, <2>2
<1>5. /\ hands' \subseteq Delivery
      /\ Held' = Held
      /\ \A x, y \in Unacked' : x.msg = y.msg => x = y
      /\ \A x \in Unacked' : x.msg \notin queue
      /\ \A x \in hands' : x.msg \in Held \cup acked
  BY <1>1, <1>2, SamePlaces DEF broker
<1>6. TypeOK'
  BY <1>1, <1>3, <1>5 DEF sender, broker, IInv, TypeOK
<1>7. OnePlace' /\ Somewhere'
  BY <1>1, <1>5 DEF sender, broker, IInv, OnePlace, Somewhere, Placed
<1>8. DoneForCause'
  BY <1>1, <1>2, <1>3, <1>4 DEF Becomes, IInv, TypeOK, DoneForCause, Delivery
<1> QED
  BY <1>5, <1>6, <1>7, <1>8 DEF IInv

(* A delivery that ends.                                                   *)
LEMMA EndKeeps ==
  ASSUME IInv, NEW d \in hands, hands' = hands \ {d},
         UNCHANGED <<sender, up, broker, errors, printed, losses>>,
         acked' = IF d.live THEN acked \cup {d.msg} ELSE acked
  PROVE  /\ IInv'
         /\ Held' = IF d.live THEN Held \ {d.msg} ELSE Held
<1>1. d.msg \in Messages /\ d \in Delivery
  BY DEF IInv, TypeOK, Delivery
<1>2. Unacked' = Unacked \ {d} /\ hands' \subseteq hands
  BY DEF Unacked
<1>3. CASE ~d.live
  <2>1. Unacked' = Unacked
    BY <1>3 DEF Unacked
  <2>2. Held' = Held
    BY <2>1 DEF Held, broker
  <2>3. TypeOK'
    BY <1>3 DEF sender, broker, IInv, TypeOK
  <2>4. OnePlace' /\ Somewhere' /\ DoneForCause'
    BY <1>3, <2>1, <2>2
       DEF sender, broker, IInv, OnePlace, Somewhere, Placed, DoneForCause
  <2> QED
    BY <1>3, <2>2, <2>3, <2>4 DEF IInv
<1>4. CASE d.live
  <2>1. d \in Unacked
    BY <1>4 DEF Unacked
  <2>2. Held' = Held \ {d.msg}
    BY <1>2, <2>1 DEF Held, broker, IInv, OnePlace
  <2>3. d.msg \in Held
    BY <2>1 DEF Held
  <2>4. TypeOK'
    BY <1>1, <1>4 DEF sender, broker, IInv, TypeOK
  <2>5. OnePlace'
    BY <1>2, <1>4, <2>2, <2>3 DEF sender, broker, IInv, OnePlace
  <2>6. Somewhere'
    BY <1>2, <1>4, <2>2, <2>3 DEF sender, broker, IInv, Somewhere, Placed
  <2>7. DoneForCause'
    BY DEF IInv, DoneForCause
  <2> QED
    BY <1>4, <2>2, <2>4, <2>5, <2>6, <2>7 DEF IInv
<1> QED
  BY <1>3, <1>4

(* The broker takes back what was not acknowledged.                        *)
LEMMA LossKeeps ==
  ASSUME IInv, ConnectionLost \/ Stop
  PROVE  IInv' /\ Held' = Held
<1>1. Unacked' = {}
  BY DEF ConnectionLost, Stop, Unacked, IInv, TypeOK, Delivery
<1>2. queue' = Held
  BY DEF ConnectionLost, Stop, Requeue, Held
<1>3. Held' = Held
  BY <1>1, <1>2 DEF Held
<1>4. UNCHANGED <<api, wire, declared, dropped, acked, errors, printed, tags>>
  BY DEF ConnectionLost, Stop, sender, outcome
<1>5. \A x \in hands' : \E d \in hands : x = [d EXCEPT !.live = FALSE]
  BY DEF ConnectionLost, Stop
<1>6. \A d \in hands : LET x == [d EXCEPT !.live = FALSE]
                      IN /\ x \in Delivery /\ x.msg = d.msg /\ x.at = d.at
                         /\ x.attempt = d.attempt
  BY DEF IInv, TypeOK, Delivery
<1>7. Held \subseteq Messages
  BY DEF Held, Unacked, IInv, TypeOK, Delivery
<1>8. TypeOK'
  <2>1. hands' \subseteq Delivery
    BY <1>5, <1>6
  <2>2. losses' \in 0 .. MaxLosses /\ up' \in BOOLEAN
    <3>1. losses < MaxLosses /\ losses' = losses + 1
      BY Zenon DEF ConnectionLost, Stop
    <3>2. losses' \in 0 .. MaxLosses
      BY <3>1, ChannelAssumption DEF IInv, TypeOK
    <3>3. up' = up \/ up' = FALSE
      BY Zenon DEF ConnectionLost, Stop
    <3> QED
      BY <3>2, <3>3 DEF IInv, TypeOK
  <2> QED
    BY <1>2, <1>4, <1>7, <2>1, <2>2 DEF IInv, TypeOK
<1>9. OnePlace'
  BY <1>1, <1>2, <1>3, <1>4 DEF IInv, OnePlace
<1>10. Somewhere' /\ DoneForCause'
  <2>1. \A x \in hands' : \E d \in hands : /\ x.msg = d.msg /\ x.at = d.at
                                            /\ x.attempt = d.attempt
    BY <1>5, <1>6
  <2>2. Placed' = Placed
    BY <1>3, <1>4 DEF Placed
  <2>3. Somewhere'
    BY <1>3, <1>4, <2>1, <2>2 DEF IInv, Somewhere
  <2>4. DoneForCause'
    BY <1>4, <2>1 DEF IInv, DoneForCause
  <2> QED
    BY <2>3, <2>4
<1> QED
  BY <1>3, <1>8, <1>9, <1>10 DEF IInv

(* A delivery begins.                                                      *)
LEMMA DeliverKeeps ==
  ASSUME IInv, NEW m \in Messages, Deliver(m)
  PROVE  IInv' /\ Held' = Held
<1> DEFINE d == [tag |-> tags + 1, msg |-> m, attempt |-> 1, at |-> "time", live |-> TRUE]
<1>1. d \in Delivery /\ d.msg = m /\ d.live /\ d.at = "time"
  BY ChannelAssumption DEF IInv, TypeOK, Delivery
<1>2. /\ hands' = hands \cup {d} /\ tags' = tags + 1
      /\ queue' = queue \ {m} /\ m \in queue
  BY DEF Deliver
<1> HIDE DEF d
<1>a. Unacked' = Unacked \cup {d}
  BY <1>1, <1>2 DEF Unacked
<1>3. Held' = Held
  BY <1>1, <1>2, <1>a DEF Held
<1>4. UNCHANGED <<api, wire, up, declared, dropped, acked, errors, printed, losses>>
  BY DEF Deliver, sender, outcome
<1>5. TypeOK'
  BY <1>1, <1>2, <1>4 DEF IInv, TypeOK
<1>6. OnePlace'
  BY <1>1, <1>2, <1>3, <1>4, <1>a DEF IInv, OnePlace
<1>7. m \in Held
  BY <1>2 DEF Held
<1>8. Somewhere' /\ DoneForCause'
  BY <1>1, <1>2, <1>3, <1>4, <1>7 DEF IInv, Somewhere, Placed, DoneForCause
<1> QED
  BY <1>3, <1>5, <1>6, <1>8 DEF IInv

(* A message leaves its sender, and gets through or not.                   *)
LEMMA SenderKeeps ==
  ASSUME IInv, NEW m \in Messages, Send(m) \/ Confirm(m) \/ SendFails(m)
  PROVE  IInv' /\ Held' = Held
<1>1. UNCHANGED <<up, broker, hands, outcome, losses>>
  BY DEF Send, Confirm, SendFails, broker
<1>2. Unacked' = Unacked
  BY <1>1 DEF Unacked
<1>3. Held' = Held
  BY <1>1, <1>2 DEF Held, broker
<1>4. TypeOK'
  BY <1>1 DEF Send, Confirm, SendFails, broker, outcome, IInv, TypeOK
<1>5. OnePlace'
  BY <1>1, <1>2, <1>3
     DEF Send, Confirm, SendFails, broker, outcome, IInv, OnePlace, Somewhere, Placed
<1>6. Somewhere' /\ DoneForCause'
  BY <1>1, <1>3
     DEF Send, Confirm, SendFails, broker, outcome, IInv, TypeOK, Somewhere, Placed,
         DoneForCause
<1> QED
  BY <1>3, <1>4, <1>5, <1>6 DEF IInv

(* A message arrives.                                                      *)
LEMMA AcceptKeeps ==
  ASSUME IInv, NEW m \in Messages, Accept(m)
  PROVE  /\ IInv'
         /\ Held' = IF declared THEN Held \cup {m} ELSE Held
<1>1. UNCHANGED <<api, up, declared, hands, outcome, tags, losses>>
  BY DEF Accept
<1>2. Unacked' = Unacked
  BY <1>1 DEF Unacked
<1>3. Held' = IF declared THEN Held \cup {m} ELSE Held
  BY <1>2 DEF Accept, Held
<1>4. m \in wire /\ wire' = wire \ {m} /\ m \notin Held \cup acked \cup dropped
  BY DEF Accept, IInv, OnePlace
<1>5. TypeOK'
  BY <1>1 DEF Accept, outcome, IInv, TypeOK
<1>6. m \notin {d.msg : d \in Unacked}
  BY <1>4 DEF Held
<1>7. OnePlace'
  BY <1>1, <1>2, <1>3, <1>4, <1>6 DEF Accept, outcome, IInv, OnePlace
<1>8. Somewhere' /\ DoneForCause'
  BY <1>1, <1>3, <1>4 DEF Accept, outcome, IInv, Somewhere, Placed, DoneForCause
<1> QED
  BY <1>3, <1>5, <1>7, <1>8 DEF IInv

LEMMA StartKeeps ==
  ASSUME IInv, Start
  PROVE  IInv' /\ Held' = Held
<1>1. UNCHANGED <<sender, queue, dropped, hands, outcome, tags, losses>>
  BY DEF Start
<1>2. Unacked' = Unacked
  BY <1>1 DEF Unacked
<1>3. Held' = Held
  BY <1>1, <1>2 DEF Held
<1> QED
  BY <1>1, <1>2, <1>3
     DEF Start, sender, outcome, IInv, TypeOK, OnePlace, Somewhere, Placed, DoneForCause

(* What each step of a delivery does to the messages held.                 *)
LEMMA ConsumeKeeps ==
  ASSUME IInv, NEW d \in hands, Consume(d)
  PROVE  IInv'
<1>1. CASE MoveToErrors(d) /\ ~d.live
  BY <1>1, EndKeeps DEF MoveToErrors
<1>2. CASE Ack(d)
  BY <1>2, EndKeeps DEF Ack
<1> QED
  BY <1>1, <1>2, WorkKeeps DEF Consume

LEMMA StutterKeeps == IInv /\ UNCHANGED vars => IInv' /\ Held' = Held
<1> SUFFICES ASSUME IInv, UNCHANGED vars PROVE IInv' /\ Held' = Held
  OBVIOUS
<1>1. Unacked' = Unacked
  BY DEF vars, Unacked
<1>2. Held' = Held
  BY <1>1 DEF vars, Held
<1> QED
  BY <1>1, <1>2 DEF vars, IInv, TypeOK, OnePlace, Somewhere, Placed, DoneForCause

LEMMA NextInv == IInv /\ [Next]_vars => IInv'
BY SenderKeeps, AcceptKeeps, DeliverKeeps, ConsumeKeeps, StartKeeps, LossKeeps,
   StutterKeeps
   DEF Next

THEOREM ChannelTypes == Spec => []TypeOK
<1>1. IInv => TypeOK
  BY DEF IInv
<1> QED
  BY <1>1, InitInv, NextInv, PTL DEF Spec

-----------------------------------------------------------------------------
(* The promise of AtLeastOnce, as the channel's state tells of it.         *)
SaidNow == [m \in Messages |-> SaidOf(m)]
FateNow == [m \in Messages |-> FateOf(m)]
SeenNow == {m \in Messages : printed[m] > 0}

Unchanged == /\ declared' = declared /\ SaidNow' = SaidNow /\ FateNow' = FateNow
             /\ SeenNow' = SeenNow /\ errors' = errors

LEMMA StutterIsUnchanged == Unchanged => UNCHANGED Promise!vars
BY DEF Unchanged, SaidNow, FateNow, SeenNow, Promise!vars

LEMMA Fates ==
  ASSUME IInv, NEW m \in Messages
  PROVE  /\ m \in Held => FateOf(m) = "held"
         /\ m \in acked => FateOf(m) = "over"
         /\ m \in dropped => FateOf(m) = "lost"
         /\ m \notin Held \cup acked \cup dropped => FateOf(m) = "none"
BY DEF IInv, OnePlace, FateOf

LEMMA SameFates ==
  ASSUME Held' = Held, UNCHANGED <<acked, dropped>>
  PROVE  FateNow' = FateNow
BY DEF FateNow, FateOf

(* The sender's steps: an answer, or nothing the caller can see.           *)
LEMMA SenderPromise ==
  ASSUME IInv, NEW m \in Messages, Send(m) \/ Confirm(m) \/ SendFails(m)
  PROVE  [Promise!Next]_(Promise!vars)
<1>1. /\ UNCHANGED <<declared, acked, dropped, errors, printed>>
      /\ Held' = Held
  BY SenderKeeps DEF Send, Confirm, SendFails, broker, outcome
<1>2. FateNow' = FateNow /\ SeenNow' = SeenNow
  BY <1>1, SameFates DEF SeenNow
<1>3. CASE Send(m)
  <2>1. SaidNow' = SaidNow
    BY <1>3 DEF Send, SaidNow, SaidOf, IInv, TypeOK
  <2> QED
    BY <1>1, <1>2, <2>1, StutterIsUnchanged DEF Unchanged
<1>4. ASSUME NEW a \in {"sent", "failed"}, api[m] = "sending",
             api' = [api EXCEPT ![m] = a], a = "sent" => m \notin wire
      PROVE  Promise!Say(m, a)
  <2>1. SaidNow[m] = "nothing" /\ SaidNow' = [SaidNow EXCEPT ![m] = a]
    BY <1>4 DEF SaidNow, SaidOf, IInv, TypeOK
  <2>2. a = "sent" => FateNow[m] # "none"
    BY <1>4, Fates DEF FateNow, IInv, Somewhere, Placed
  <2> QED
    BY <1>1, <1>2, <2>1, <2>2 DEF Promise!Say, SaidNow, FateNow, SeenNow
<1>5. CASE Confirm(m)
  BY <1>4, <1>5 DEF Confirm, Promise!Next
<1>6. CASE SendFails(m)
  BY <1>4, <1>6 DEF SendFails, Promise!Next
<1> QED
  BY <1>3, <1>5, <1>6

LEMMA AcceptPromise ==
  ASSUME IInv, NEW m \in Messages, Accept(m)
  PROVE  Promise!Take(m)
<1>1. /\ UNCHANGED <<api, declared, acked, errors, printed>>
      /\ Held' = IF declared THEN Held \cup {m} ELSE Held
      /\ dropped' = IF declared THEN dropped ELSE dropped \cup {m}
      /\ IInv'
  BY AcceptKeeps DEF Accept, outcome
<1>2. m \notin Held \cup acked \cup dropped
  BY DEF Accept, IInv, OnePlace
<1>3. FateNow[m] = "none"
  BY <1>2, Fates DEF FateNow
<1>4. FateNow' = [FateNow EXCEPT ![m] = IF declared THEN "held" ELSE "lost"]
  <2>1. FateOf(m)' = IF declared THEN "held" ELSE "lost"
    BY <1>1, <1>2 DEF FateOf
  <2>2. ASSUME NEW x \in Messages, x # m PROVE FateOf(x)' = FateOf(x)
    <3>1. /\ x \in Held' <=> x \in Held
          /\ x \in acked' <=> x \in acked
          /\ x \in dropped' <=> x \in dropped
      BY <1>1, <2>2
    <3> QED
      BY <3>1 DEF FateOf
  <2> QED
    BY <2>1, <2>2 DEF FateNow
<1>5. SaidNow' = SaidNow /\ SeenNow' = SeenNow
  BY <1>1 DEF SaidNow, SaidOf, SeenNow
<1> QED
  BY <1>1, <1>3, <1>4, <1>5 DEF Promise!Take, SaidNow, FateNow, SeenNow

(* The steps of a delivery.                                                *)
LEMMA ConsumePromise ==
  ASSUME IInv, NEW d \in hands, Consume(d)
  PROVE  [Promise!Next]_(Promise!vars)
<1>1. d.msg \in Messages /\ d.live \in BOOLEAN
  BY DEF IInv, TypeOK, Delivery
<1>2. FateNow[d.msg] \in {"held", "over"} /\ (d.live => FateNow[d.msg] = "held")
  BY <1>1, Fates DEF FateNow, IInv, Somewhere, Held, Unacked
<1>3. UNCHANGED <<api, declared, dropped>> /\ SaidNow' = SaidNow
  <2>1. UNCHANGED <<sender, broker>>
    BY DEF Consume, WriteTime, WriteData, Throw, Retry, MoveToErrors, Ack
  <2> QED
    BY <2>1 DEF sender, broker, SaidNow, SaidOf
<1>4. CASE WriteTime(d) \/ Throw(d) \/ Retry(d)
  <2>1. Held' = Held /\ UNCHANGED <<acked, errors, printed>>
    BY <1>4, WorkKeeps DEF WriteTime, Throw, Retry, outcome
  <2> QED
    BY <1>3, <2>1, SameFates, StutterIsUnchanged DEF Unchanged, SeenNow
<1>5. CASE WriteData(d)
  <2>1. Held' = Held /\ UNCHANGED <<acked, errors>>
    BY <1>5, WorkKeeps DEF WriteData
  <2>2. SeenNow' = SeenNow \cup {d.msg}
    BY <1>1, <1>5 DEF WriteData, SeenNow, IInv, TypeOK
  <2>3. Promise!See(d.msg)
    BY <1>2, <1>3, <2>1, <2>2, SameFates DEF Promise!See, SaidNow, FateNow, SeenNow
  <2> QED
    BY <1>1, <2>3 DEF Promise!Next
<1>6. CASE MoveToErrors(d) /\ d.live
  <2>1. /\ Held' = Held /\ UNCHANGED <<acked, printed>>
        /\ errors' = errors \cup {d.msg}
    BY <1>6, WorkKeeps DEF MoveToErrors
  <2>2. Promise!SetAside(d.msg)
    BY <1>2, <1>3, <1>6, <2>1, SameFates DEF Promise!SetAside, SaidNow, FateNow, SeenNow
  <2> QED
    BY <1>1, <2>2 DEF Promise!Next
<1>7. CASE (MoveToErrors(d) \/ Ack(d)) /\ ~d.live
  <2>1. /\ hands' = hands \ {d}
        /\ UNCHANGED <<sender, up, broker, errors, printed, losses, acked>>
    BY <1>7 DEF MoveToErrors, Ack
  <2>2. Held' = Held
    BY <1>7, <2>1, EndKeeps
  <2> QED
    BY <1>3, <2>1, <2>2, SameFates, StutterIsUnchanged DEF Unchanged, SeenNow
<1>8. CASE Ack(d) /\ d.live
  <2>1. /\ Held' = Held \ {d.msg} /\ acked' = acked \cup {d.msg}
        /\ UNCHANGED <<errors, printed>>
    BY <1>8, EndKeeps DEF Ack
  <2>2. d.msg \in SeenNow \cup errors
    BY <1>1, <1>8 DEF Ack, SeenNow, IInv, DoneForCause
  <2>3. d.msg \in Held /\ d.msg \notin acked \cup dropped
    BY <1>8 DEF Held, Unacked, IInv, OnePlace
  <2>4. FateNow' = [FateNow EXCEPT ![d.msg] = "over"]
    <3>1. FateOf(d.msg)' = "over"
      BY <1>3, <1>8, <2>1, <2>3 DEF FateOf
    <3>2. ASSUME NEW m \in Messages, m # d.msg PROVE FateOf(m)' = FateOf(m)
      BY <1>3, <2>1, <3>2 DEF FateOf
    <3> QED
      BY <1>1, <3>1, <3>2 DEF FateNow
  <2>5. Promise!LetGo(d.msg)
    BY <1>2, <1>3, <1>8, <2>1, <2>2, <2>4
       DEF Promise!LetGo, SaidNow, FateNow, SeenNow
  <2> QED
    BY <1>1, <2>5 DEF Promise!Next
<1> QED
  BY <1>1, <1>4, <1>5, <1>6, <1>7, <1>8 DEF Consume

(* What the broker and the consumer do besides leaves the promise alone,   *)
(* but for the day the channel is opened.                                  *)
LEMMA OtherPromise ==
  ASSUME IInv, Start \/ ConnectionLost \/ Stop \/ UNCHANGED vars
               \/ \E m \in Messages : Deliver(m)
  PROVE  [Promise!Next]_(Promise!vars)
<1>1. Held' = Held
  BY StartKeeps, LossKeeps, StutterKeeps, DeliverKeeps
<1>2. UNCHANGED <<api, dropped, acked, errors, printed>>
  BY Zenon DEF Start, ConnectionLost, Stop, Deliver, sender, outcome, vars
<1>3. SaidNow' = SaidNow /\ FateNow' = FateNow /\ SeenNow' = SeenNow
  BY <1>1, <1>2, SameFates DEF SaidNow, SaidOf, SeenNow
<1>4. declared' = declared \/ Start
  BY Zenon DEF ConnectionLost, Stop, Deliver, vars
<1>5. CASE declared' = declared
  BY <1>2, <1>3, <1>5, StutterIsUnchanged DEF Unchanged
<1>6. CASE Start /\ declared' # declared
  <2>1. ~declared /\ declared' = TRUE
    BY <1>6 DEF Start, IInv, TypeOK
  <2>2. Promise!Open
    BY <1>2, <1>3, <2>1 DEF Promise!Open, SaidNow, FateNow, SeenNow
  <2> QED
    BY <2>2 DEF Promise!Next
<1> QED
  BY <1>4, <1>5, <1>6

LEMMA InitPromise == Init => Promise!Init
<1> SUFFICES ASSUME Init PROVE Promise!Init
  OBVIOUS
<1>1. Held = {}
  BY DEF Init, Held, Unacked
<1>2. \A m \in Messages : SaidOf(m) = "nothing" /\ FateOf(m) = "none"
  BY <1>1 DEF Init, SaidOf, FateOf
<1> QED
  BY <1>2 DEF Init, Promise!Init

LEMMA NextPromise == IInv /\ [Next]_vars => [Promise!Next]_(Promise!vars)
<1> SUFFICES ASSUME IInv, [Next]_vars PROVE [Promise!Next]_(Promise!vars)
  OBVIOUS
<1>1. ASSUME NEW m \in Messages, Accept(m) PROVE Promise!Next
  BY <1>1, AcceptPromise DEF Promise!Next
<1> QED
  BY <1>1, SenderPromise, ConsumePromise, OtherPromise DEF Next

(* The channel is at least once, however many messages, attempts,          *)
(* deliveries at a time and losses there are.                              *)
THEOREM KeepsPromise == Spec => AtLeastOnceKept
<1>1. Init => Promise!Init
  BY InitPromise
<1>2. IInv /\ [Next]_vars => [Promise!Next]_(Promise!vars)
  BY NextPromise
<1> QED
  BY <1>1, <1>2, InitInv, NextInv, PTL DEF Spec, AtLeastOnceKept, Promise!Spec

-----------------------------------------------------------------------------
(* The ends of a message: those it has had, those its deliveries under way *)
(* may still come to, and the one of a delivery that is still to begin.    *)
Ends(m) == printed[m] + (IF m \in errors THEN 1 ELSE 0)

OpenOf(m) == {d \in hands : d.msg = m /\ d.at # "done"}

Coming(m) == IF api[m] = "idle" \/ m \in wire \cup queue THEN 1 ELSE 0

EndsCounted ==
    \A m \in Messages :
        Ends(m) + Cardinality(OpenOf(m)) + Coming(m) <= 1 + losses

(* Counting needs the deliveries under way to be finitely many.            *)
CountInv == IsFiniteSet(hands) /\ EndsCounted

LEMMA OneForOne ==
  ASSUME NEW S, IsFiniteSet(S), NEW x \in S, NEW y
  PROVE  /\ IsFiniteSet((S \ {x}) \cup {y})
         /\ Cardinality((S \ {x}) \cup {y}) <= Cardinality(S)
<1>1. /\ IsFiniteSet(S \ {x})
      /\ Cardinality(S \ {x}) = Cardinality(S) - 1
  BY FS_RemoveElement
<1>2. /\ IsFiniteSet((S \ {x}) \cup {y})
      /\ Cardinality((S \ {x}) \cup {y}) \in {Cardinality(S) - 1, Cardinality(S) - 1 + 1}
  BY <1>1, FS_AddElement
<1>3. Cardinality(S) \in Nat
  BY FS_CardinalityType
<1> QED
  BY <1>2, <1>3

(* A lost connection leaves at most as many deliveries as there were.      *)
LEMMA CutOff ==
  ASSUME NEW S, IsFiniteSet(S)
  PROVE  LET T == {[d EXCEPT !.live = FALSE] : d \in S}
         IN IsFiniteSet(T) /\ Cardinality(T) <= Cardinality(S)
<1> DEFINE T == {[d EXCEPT !.live = FALSE] : d \in S}
           f == [d \in S |-> [d EXCEPT !.live = FALSE]]
<1>1. f \in Surjection(S, T)
  BY DEF Surjection
<1> QED
  BY <1>1, FS_Surjection

LEMMA Counts ==
  ASSUME IInv, CountInv
  PROVE  /\ IsFiniteSet(hands) /\ Cardinality(hands) \in Nat
         /\ \A m \in Messages : /\ IsFiniteSet(OpenOf(m)) /\ Cardinality(OpenOf(m)) \in Nat
                                /\ Ends(m) \in Nat /\ Coming(m) \in {0, 1}
         /\ losses \in Nat
<1>1. IsFiniteSet(hands)
  BY DEF CountInv
<1>2. ASSUME NEW m \in Messages
      PROVE  /\ IsFiniteSet(OpenOf(m))
             /\ Ends(m) \in Nat /\ Coming(m) \in {0, 1}
  BY <1>1, FS_Subset DEF OpenOf, Ends, Coming, IInv, TypeOK
<1>3. losses \in Nat
  BY ChannelAssumption DEF IInv, TypeOK
<1> QED
  BY <1>1, <1>2, <1>3, FS_CardinalityType

LEMMA InitCounts == Init => CountInv
<1> SUFFICES ASSUME Init PROVE CountInv
  OBVIOUS
<1>1. hands = {} /\ \A m \in Messages : OpenOf(m) = {}
  BY DEF Init, OpenOf
<1>2. IsFiniteSet(hands)
  BY <1>1, FS_EmptySet
<1>3. EndsCounted
  BY <1>1, FS_EmptySet DEF EndsCounted, Ends, Coming, Init
<1> QED
  BY <1>2, <1>3 DEF CountInv

(* A delivery that goes on takes the place of the one it was, one that     *)
(* ends leaves it.                                                         *)
LEMMA ConsumeHands ==
  ASSUME IInv, CountInv, NEW d \in hands, Consume(d)
  PROVE  IsFiniteSet(hands')
<1>1. hands' = hands \ {d} \/ \E e \in Delivery : hands' = (hands \ {d}) \cup {e}
  BY GoesOn DEF GoesOnAs, Becomes, Consume, MoveToErrors, Ack
<1>2. CASE hands' = hands \ {d}
  BY <1>2, Counts, FS_RemoveElement
<1>3. ASSUME NEW e \in Delivery, hands' = (hands \ {d}) \cup {e}
      PROVE  IsFiniteSet(hands')
  <2>1. IsFiniteSet(hands)
    BY Counts
  <2>2. IsFiniteSet((hands \ {d}) \cup {e})
    BY <2>1, OneForOne
  <2> QED
    BY <1>3, <2>2
<1> QED
  BY <1>1, <1>2, <1>3

(* A step that only moves on towards the ends it may come to.              *)
LEMMA NoMoreEnds ==
  ASSUME IInv, CountInv, IInv', IsFiniteSet(hands'), losses' \in {losses, losses + 1},
         \A m \in Messages :
           Ends(m)' + Cardinality(OpenOf(m))' + Coming(m)' + losses
             <= Ends(m) + Cardinality(OpenOf(m)) + Coming(m) + losses'
  PROVE  CountInv'
<1> SUFFICES ASSUME NEW m \in Messages
             PROVE  Ends(m)' + Cardinality(OpenOf(m))' + Coming(m)' <= 1 + losses'
  BY DEF CountInv, EndsCounted
<1>1. IsFiniteSet(OpenOf(m)')
  BY FS_Subset DEF OpenOf
<1>2. Cardinality(OpenOf(m))' \in Nat
  BY <1>1, FS_CardinalityType
<1>3. Ends(m)' \in Nat /\ Coming(m)' \in {0, 1}
  BY DEF Ends, Coming, IInv, TypeOK
<1>4. Ends(m) + Cardinality(OpenOf(m)) + Coming(m) <= 1 + losses
  BY DEF CountInv, EndsCounted
<1> QED
  BY <1>2, <1>3, <1>4, Counts

LEMMA ConsumeCounts ==
  ASSUME IInv, CountInv, NEW d \in hands, Consume(d)
  PROVE  CountInv'
<1>1. IInv' /\ IsFiniteSet(hands')
  BY ConsumeKeeps, ConsumeHands
<1>2. UNCHANGED <<api, wire, queue, losses>>
  BY DEF Consume, WriteTime, WriteData, Throw, Retry, MoveToErrors, Ack, sender, broker
<1>3. \A m \in Messages : Coming(m)' = Coming(m)
  BY <1>2 DEF Coming
<1>4. d.msg \in Messages
  BY DEF IInv, TypeOK, Delivery
<1> DEFINE Steps(m) == Ends(m)' + Cardinality(OpenOf(m))' <= Ends(m) + Cardinality(OpenOf(m))
<1>8. \A m \in Messages : Ends(m)' \in Nat
  BY <1>1 DEF Ends, IInv, TypeOK
<1>9. \A m \in Messages : Cardinality(OpenOf(m))' \in Nat
  <2> SUFFICES ASSUME NEW m \in Messages PROVE Cardinality(OpenOf(m))' \in Nat
    OBVIOUS
  <2>1. IsFiniteSet(OpenOf(m)')
    BY <1>1, FS_Subset DEF OpenOf
  <2> QED
    BY <2>1, FS_CardinalityType
<1>5. ASSUME NEW m \in Messages, m # d.msg PROVE Steps(m)
  <2>1. OpenOf(m)' = OpenOf(m)
    BY <1>5, GoesOn DEF Consume, GoesOnAs, Becomes, MoveToErrors, Ack, OpenOf
  <2>2. printed'[m] = printed[m] /\ (m \in errors' <=> m \in errors)
    BY <1>5 DEF Consume, WriteTime, WriteData, Throw, Retry, MoveToErrors, Ack, outcome,
                IInv, TypeOK
  <2>3. Ends(m)' = Ends(m)
    BY <2>2 DEF Ends
  <2> QED
    BY <2>1, <2>3, Counts
<1>6. Steps(d.msg)
  <2> DEFINE n == Cardinality(OpenOf(d.msg))
  <2>1. CASE Ack(d) \/ (MoveToErrors(d) /\ ~d.live)
    <3>1. OpenOf(d.msg)' \in SUBSET OpenOf(d.msg) /\ Ends(d.msg)' = Ends(d.msg)
      BY <2>1 DEF Ack, MoveToErrors, OpenOf, Ends
    <3> QED
      BY <1>4, <3>1, Counts, FS_Subset, FS_CardinalityType
  <2>2. CASE WriteTime(d) \/ Throw(d) \/ Retry(d)
    <3>1. PICK e \in Delivery : GoesOnAs(d, e)
      BY <2>2, GoesOn
    <3>2. d.at # "done" /\ UNCHANGED <<errors, printed>>
      BY <2>2 DEF WriteTime, Throw, Retry, outcome
    <3>a. Ends(d.msg)' = Ends(d.msg)
      BY <3>2 DEF Ends
    <3>b. ~ WriteData(d)
      BY <1>4, <3>2 DEF WriteData, IInv, TypeOK
    <3>c. ~ MoveToErrors(d)
      BY <2>2 DEF WriteTime, Throw, Retry, MoveToErrors
    <3>d. e.at # "done"
      BY <3>1, <3>b, <3>c DEF GoesOnAs
    <3>3. d \in OpenOf(d.msg) /\ OpenOf(d.msg)' = (OpenOf(d.msg) \ {d}) \cup {e}
      BY <3>1, <3>2, <3>d DEF GoesOnAs, Becomes, OpenOf
    <3>4. Cardinality(OpenOf(d.msg)') <= Cardinality(OpenOf(d.msg))
      BY <1>4, <3>3, Counts, OneForOne
    <3> QED
      BY <1>4, <1>8, <1>9, <3>a, <3>4, Counts
  <2>3. CASE WriteData(d) \/ (MoveToErrors(d) /\ d.live)
    <3>1. d \in OpenOf(d.msg) /\ OpenOf(d.msg)' = OpenOf(d.msg) \ {d}
      <4>1. hands' = (hands \ {d}) \cup {[d EXCEPT !.at = "done"]} /\ d.at # "done"
        BY <2>3 DEF WriteData, MoveToErrors, Becomes
      <4>2. [d EXCEPT !.at = "done"].at = "done"
        BY Advanced DEF IInv
      <4> QED
        BY <4>1, <4>2 DEF OpenOf
    <3>2. Cardinality(OpenOf(d.msg))' = n - 1
      <4>1. IsFiniteSet(OpenOf(d.msg)) /\ d \in OpenOf(d.msg)
        BY <1>4, <3>1, Counts
      <4>2. Cardinality(OpenOf(d.msg) \ {d}) = n - 1
        BY <4>1, FS_RemoveElement
      <4> QED
        BY <3>1, <4>2
    <3>3. Ends(d.msg)' <= Ends(d.msg) + 1
      <4>1. CASE WriteData(d)
        <5>1. printed'[d.msg] = printed[d.msg] + 1 /\ errors' = errors
          BY <1>4, <4>1 DEF WriteData, IInv, TypeOK
        <5>2. printed[d.msg] \in Nat
          BY <1>4 DEF IInv, TypeOK
        <5> QED
          BY <5>1, <5>2 DEF Ends
      <4>2. CASE MoveToErrors(d)
        <5>1. printed' = printed
          BY <4>2 DEF MoveToErrors
        <5>2. printed[d.msg] \in Nat
          BY <1>4 DEF IInv, TypeOK
        <5> QED
          BY <5>1, <5>2 DEF Ends
      <4> QED
        BY <2>3, <4>1, <4>2
    <3>4. Ends(d.msg)' \in Nat
      BY <1>1, <1>4 DEF Ends, IInv, TypeOK
    <3> QED
      BY <1>4, <3>2, <3>3, <3>4, Counts
  <2> QED
    BY <2>1, <2>2, <2>3 DEF Consume
<1>7. \A m \in Messages : Steps(m)
  BY <1>5, <1>6
<1> QED
  BY <1>1, <1>2, <1>3, <1>7, <1>8, <1>9, Counts, NoMoreEnds

LEMMA DeliverCounts ==
  ASSUME IInv, CountInv, NEW m \in Messages, Deliver(m)
  PROVE  CountInv'
<1> DEFINE d == [tag |-> tags + 1, msg |-> m, attempt |-> 1, at |-> "time", live |-> TRUE]
<1>1. d.msg = m /\ d.live /\ d.at = "time"
  OBVIOUS
<1>2. /\ hands' = hands \cup {d} /\ queue' = queue \ {m} /\ m \in queue
      /\ UNCHANGED <<api, wire, errors, printed, losses>>
  BY DEF Deliver, sender, outcome
<1> HIDE DEF d
<1>3. IInv'
  BY DeliverKeeps
<1>4. IsFiniteSet(hands')
  BY <1>2, Counts, FS_AddElement
<1>5. ASSUME NEW x \in Messages
      PROVE  Ends(x)' + Cardinality(OpenOf(x))' + Coming(x)'
               <= Ends(x) + Cardinality(OpenOf(x)) + Coming(x)
  <2>1. Ends(x)' = Ends(x)
    BY <1>2 DEF Ends
  <2>2. CASE x # m
    <3>1. OpenOf(x)' = OpenOf(x) /\ Coming(x)' = Coming(x)
      BY <1>1, <1>2, <2>2 DEF OpenOf, Coming
    <3> QED
      BY <2>1, <3>1, Counts
  <2>3. CASE x = m
    <3>1. m \in Held
      BY <1>2 DEF Held
    <3>2. m \notin wire /\ api[m] # "idle"
      BY <3>1 DEF IInv, OnePlace, Somewhere, Placed
    <3>3. Coming(m) = 1 /\ Coming(m)' = 0
      BY <1>2, <3>2 DEF Coming
    <3>4. OpenOf(m)' = OpenOf(m) \cup {d}
      BY <1>1, <1>2 DEF OpenOf
    <3>5. Cardinality(OpenOf(m))' \in {Cardinality(OpenOf(m)), Cardinality(OpenOf(m)) + 1}
      BY <3>4, Counts, FS_AddElement
    <3> QED
      BY <2>1, <2>3, <3>3, <3>5, Counts
  <2> QED
    BY <2>2, <2>3
<1>6. ASSUME NEW x \in Messages
      PROVE  Ends(x)' + Cardinality(OpenOf(x))' + Coming(x)' + losses
               <= Ends(x) + Cardinality(OpenOf(x)) + Coming(x) + losses'
  <2>1. IsFiniteSet(OpenOf(x)')
    BY <1>4, FS_Subset DEF OpenOf
  <2>2. Cardinality(OpenOf(x))' \in Nat /\ Ends(x)' \in Nat /\ Coming(x)' \in Nat
    BY <1>3, <2>1, FS_CardinalityType DEF Ends, Coming, IInv, TypeOK
  <2> QED
    BY <1>2, <1>5, <2>2, Counts
<1> QED
  BY <1>2, <1>3, <1>4, <1>6, NoMoreEnds

(* A loss: the deliveries it cuts off may come to their ends all the same, *)
(* and each message the broker takes back may come to one more.            *)
LEMMA LossCounts ==
  ASSUME IInv, CountInv, ConnectionLost \/ Stop
  PROVE  CountInv'
<1>1. /\ losses' = losses + 1
      /\ UNCHANGED <<api, wire, errors, printed>>
      /\ hands' = {[d EXCEPT !.live = FALSE] : d \in hands} \/ hands' = {}
  BY Zenon DEF ConnectionLost, Stop, sender, outcome
<1>2. IInv'
  BY LossKeeps
<1>6. IsFiniteSet(hands')
  BY <1>1, Counts, CutOff, FS_EmptySet
<1>7. ASSUME NEW x \in Messages
      PROVE  Ends(x)' + Cardinality(OpenOf(x))' + Coming(x)' + losses
               <= Ends(x) + Cardinality(OpenOf(x)) + Coming(x) + losses'
  <2>1. Ends(x)' = Ends(x)
    BY <1>1 DEF Ends
  <2>2. Cardinality(OpenOf(x))' \in Nat /\ Cardinality(OpenOf(x))' <= Cardinality(OpenOf(x))
    <3>1. CASE hands' = {}
      <4>1. OpenOf(x)' = {}
        BY <3>1 DEF OpenOf
      <4> QED
        BY <4>1, FS_EmptySet, Counts
    <3>2. CASE hands' = {[d EXCEPT !.live = FALSE] : d \in hands}
      <4>1. \A d \in hands : LET e == [d EXCEPT !.live = FALSE]
                             IN e.msg = d.msg /\ e.at = d.at
        BY DEF IInv, TypeOK, Delivery
      <4>2. OpenOf(x)' = {[d EXCEPT !.live = FALSE] : d \in OpenOf(x)}
        <5>1. ASSUME NEW e \in OpenOf(x)'
              PROVE  e \in {[d EXCEPT !.live = FALSE] : d \in OpenOf(x)}
          <6>1. PICK d \in hands : e = [d EXCEPT !.live = FALSE]
            BY <3>2, <5>1 DEF OpenOf
          <6>2. d \in OpenOf(x)
            BY <4>1, <5>1, <6>1 DEF OpenOf
          <6> QED
            BY <6>1, <6>2
        <5>2. ASSUME NEW d \in OpenOf(x)
              PROVE  [d EXCEPT !.live = FALSE] \in OpenOf(x)'
          BY <3>2, <4>1, <5>2 DEF OpenOf
        <5> QED
          BY <5>1, <5>2
      <4>3. /\ IsFiniteSet(OpenOf(x)')
            /\ Cardinality(OpenOf(x)') <= Cardinality(OpenOf(x))
        BY <4>2, Counts, CutOff
      <4> QED
        BY <4>3, FS_CardinalityType
    <3> QED
      BY <1>1, <3>1, <3>2
  <2>3. Coming(x)' \in {0, 1}
    BY DEF Coming
  <2> QED
    BY <1>1, <2>1, <2>2, <2>3, Counts
<1> QED
  BY <1>1, <1>2, <1>6, <1>7, Counts, NoMoreEnds

(* The steps that leave the deliveries alone.                              *)
LEMMA OtherCounts ==
  ASSUME IInv, CountInv,
         \/ \E m \in Messages : Send(m) \/ Confirm(m) \/ SendFails(m) \/ Accept(m)
         \/ Start \/ UNCHANGED vars
  PROVE  CountInv'
<1>1. UNCHANGED <<hands, losses, errors, printed>>
  BY Zenon DEF Send, Confirm, SendFails, Accept, Start, vars, outcome
<1>2. IInv'
  BY SenderKeeps, AcceptKeeps, StartKeeps, StutterKeeps
<1>3. IsFiniteSet(hands')
  BY <1>1, Counts
<1>4. ASSUME NEW x \in Messages
      PROVE  Coming(x)' <= Coming(x)
  <2>1. Coming(x) = 0 => Coming(x)' = 0
    BY DEF Send, Confirm, SendFails, Accept, Start, vars, sender, broker, Coming, IInv, TypeOK
  <2>2. Coming(x) \in {0, 1} /\ Coming(x)' \in {0, 1}
    BY DEF Coming
  <2> QED
    BY <2>1, <2>2
<1>5. ASSUME NEW x \in Messages
      PROVE  Ends(x)' + Cardinality(OpenOf(x))' + Coming(x)' + losses
               <= Ends(x) + Cardinality(OpenOf(x)) + Coming(x) + losses'
  <2>1. Ends(x)' = Ends(x) /\ OpenOf(x)' = OpenOf(x)
    BY <1>1 DEF Ends, OpenOf
  <2>2. Coming(x)' \in {0, 1}
    BY DEF Coming
  <2> QED
    BY <1>1, <1>4, <2>1, <2>2, Counts
<1> QED
  BY <1>1, <1>2, <1>3, <1>5, NoMoreEnds

LEMMA NextCounts == IInv /\ CountInv /\ [Next]_vars => CountInv'
BY ConsumeCounts, DeliverCounts, LossCounts, OtherCounts DEF Next

LEMMA CountsHold == Spec => [](IInv /\ CountInv)
BY InitInv, NextInv, InitCounts, NextCounts, PTL DEF Spec

(* However many messages, attempts, losses and deliveries at a time: a     *)
(* message is written or set aside once, and once more at most for each    *)
(* time the consumer was cut off from it.                                  *)
THEOREM OneEnd == Spec => []OneEndPerLoss
<1>1. IInv /\ CountInv => OneEndPerLoss
  <2> SUFFICES ASSUME IInv, CountInv, NEW m \in Messages
               PROVE  Ends(m) <= 1 + losses
    BY DEF OneEndPerLoss, Ends
  <2>1. Ends(m) + Cardinality(OpenOf(m)) + Coming(m) <= 1 + losses
    BY DEF CountInv, EndsCounted
  <2> QED
    BY <2>1, Counts
<1> QED
  BY <1>1, CountsHold, PTL

=============================================================================

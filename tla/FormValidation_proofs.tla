------------------------ MODULE FormValidation_proofs ------------------------
(***************************************************************************)
(* Proofs about FormValidation: types, the balance of pending requests,    *)
(* that nothing unchecked is sent, for what causes a mark is taken back,   *)
(* and how a submission that waits ends.                                   *)
(***************************************************************************)
EXTENDS FormValidation, FiniteSetTheorems, TLAPS

-----------------------------------------------------------------------------
(* The inductive invariant.                                                *)

(* What the validator and the page have in common.                         *)
PageType ==
  /\ value \in [Fields -> Values]
  /\ rules \in [Fields -> SUBSET {"required", "regex", "remote", "__dummy__"}]
  /\ inDom \subseteq Fields
  /\ attached \in BOOLEAN
  /\ ~attached => \A f \in Fields : rules[f] = {}

InFlight(n) == {f \in Fields : n.flight[f] # NoFlight}

Balance(n) ==
  /\ n.count = Cardinality(n.pending)
  /\ InFlight(n) \subseteq n.pending
  /\ ~Failures => n.pending \subseteq InFlight(n)

(* A request is about the value its element has asked about last, unless a *)
(* reset has taken the element's data away.                                *)
Flights(n) ==
  \A f \in InFlight(n) :
    /\ n.flight[f].value \in Values
    /\ n.flight[f].own => n.previous[f].old = n.flight[f].value
    /\ ~n.flight[f].own => n.previous[f].old = None

(* A value that counts as passed has been confirmed, or is being asked     *)
(* about.                                                                  *)
Honest(n, c) ==
  \A f \in Fields :
    n.previous[f].old # None /\ n.previous[f].valid /\ f \notin n.pending
      => n.previous[f].old \in c[f]

NetInv(n, c) == n \in NetType /\ Balance(n) /\ Flights(n) /\ Honest(n, c)

Confirmed(c) == c \in [Fields -> SUBSET Values]

IInv == PageType /\ Confirmed(confirmed) /\ NetInv(net, confirmed)

-----------------------------------------------------------------------------
LEMMA ElementsAreFields == PageType => Elements \subseteq Fields
BY DEF Elements, PageType

LEMMA FaultType ==
  ASSUME NEW n, NEW f PROVE /\ LocalFault(f) \in Reasons
                            /\ Fault(n, f) \in Reasons
BY DEF LocalFault, Fault, Reasons, None

(* Checking fields keeps the invariant of the remote checks.               *)
LEMMA AskKeeps ==
  ASSUME PageType, NEW c, Confirmed(c), NEW n, NetInv(n, c),
         NEW fs \in SUBSET Fields
  PROVE  NetInv(Ask(n, fs), c)
<1> DEFINE asking == {f \in fs : Asks(n, f)}
           p == [f \in Fields |-> IF f \in asking
                   THEN [old |-> value[f], valid |-> n.previous[f].valid]
                   ELSE n.previous[f]]
           q == [f \in Fields |-> IF f \in asking
                   THEN [value |-> value[f], own |-> TRUE] ELSE n.flight[f]]
           r == n.pending \cup asking
           k == n.count + Cardinality(asking \ n.pending)
           m == Ask(n, fs)
<1> USE FormAssumption DEF PageType
<1>0. n \in NetType /\ asking \subseteq Fields /\ IsFiniteSet(Fields)
  BY DEF NetInv
<1>1. m = [n EXCEPT !.previous = p, !.flight = q, !.pending = r, !.count = k]
  BY DEF Ask
<1>2. IsFiniteSet(asking \ n.pending) /\ IsFiniteSet(n.pending)
  BY <1>0, FS_Subset DEF NetType
<1>3. Cardinality(asking \ n.pending) \in Nat /\ Cardinality(n.pending) \in Nat
  BY <1>2, FS_CardinalityType
<1>4. /\ m \in NetType
      /\ m.previous = p /\ m.flight = q /\ m.pending = r /\ m.count = k
  <2>1. p \in [Fields -> Previous]
    BY <1>0 DEF NetType, Previous
  <2>2. q \in [Fields -> Flight]
    BY <1>0 DEF NetType, Flight
  <2>3. r \in SUBSET Fields /\ k \in Nat
    BY <1>0, <1>3 DEF NetType
  <2> HIDE DEF p, q, r, k, m
  <2>4. QED
    BY <1>0, <1>1, <2>1, <2>2, <2>3 DEF NetType
<1>5. InFlight(m) = InFlight(n) \cup asking
  <2>1. \A f \in asking : [value |-> value[f], own |-> TRUE] # NoFlight
    BY DEF NoFlight
  <2>2. QED
    BY <1>0, <1>4, <2>1 DEF InFlight
<1>6. Balance(m)
  <2>1. m.count = Cardinality(m.pending)
    <3>1. m.pending = n.pending \cup (asking \ n.pending)
      BY <1>4
    <3>2. n.pending \cap (asking \ n.pending) = {}
      OBVIOUS
    <3>3. Cardinality(n.pending \cup (asking \ n.pending))
            = Cardinality(n.pending) + Cardinality(asking \ n.pending)
              - Cardinality(n.pending \cap (asking \ n.pending))
      BY <1>2, FS_Union
    <3>4. Cardinality(n.pending \cap (asking \ n.pending)) = 0
      BY <3>2, FS_EmptySet
    <3>5. m.count = n.count + Cardinality(asking \ n.pending)
      BY <1>4
    <3>6. n.count = Cardinality(n.pending)
      BY DEF NetInv, Balance
    <3> HIDE DEF asking, p, q, r, k, m
    <3>7. QED
      BY <1>3, <3>1, <3>3, <3>4, <3>5, <3>6
  <2>2. QED
    BY <1>4, <1>5, <2>1 DEF NetInv, Balance
<1>7. Flights(m)
  BY <1>0, <1>4, <1>5 DEF NetInv, Flights, InFlight
<1>8. Honest(m, c)
  BY <1>0, <1>4 DEF NetInv, Honest
<1>9. QED
  BY <1>4, <1>6, <1>7, <1>8 DEF NetInv

(* formSubmitted is no part of it.                                         *)
LEMMA FlagKeeps ==
  ASSUME NEW c, NEW n, NetInv(n, c), NEW b \in BOOLEAN
  PROVE  NetInv([n EXCEPT !.formSubmitted = b], c)
<1> DEFINE m == [n EXCEPT !.formSubmitted = b]
<1>1. /\ m \in NetType
      /\ m.previous = n.previous /\ m.flight = n.flight
      /\ m.pending = n.pending /\ m.count = n.count
  BY DEF NetInv, NetType
<1>2. InFlight(m) = InFlight(n)
  BY <1>1 DEF InFlight
<1>3. QED
  BY <1>1, <1>2 DEF NetInv, Balance, Flights, Honest

(* A new page has nothing to remember.                                     *)
LEMMA IdleKeeps ==
  /\ NetInv(IdleNet, [f \in Fields |-> {}])
  /\ Confirmed([f \in Fields |-> {}])
<1>1. IdleNet \in NetType
  BY DEF IdleNet, NetType, Previous, Flight, NoPrevious, NoFlight
<1>2. InFlight(IdleNet) = {}
  BY DEF InFlight, IdleNet
<1>3. IdleNet.count = Cardinality(IdleNet.pending)
  BY FS_EmptySet DEF IdleNet
<1>4. Honest(IdleNet, [f \in Fields |-> {}])
  BY DEF Honest, IdleNet, NoPrevious
<1>5. IdleNet.pending = {}
  BY DEF IdleNet
<1>6. QED
  BY <1>1, <1>2, <1>3, <1>4, <1>5 DEF NetInv, Balance, Flights, Confirmed

(* An answer is taken note of: what it confirmed and what it refuted.      *)
LEMMA AnswerKeeps ==
  ASSUME Confirmed(confirmed), NetInv(net, confirmed),
         NEW f \in Fields, NEW ok \in BOOLEAN, net.flight[f] # NoFlight,
         NEW c,
         c = [confirmed EXCEPT ![f] = IF ok THEN @ \cup {net.flight[f].value}
                                            ELSE @ \ {net.flight[f].value}]
  PROVE  Confirmed(c) /\ NetInv(Answered(f, ok), c)
<1> DEFINE m == Answered(f, ok)
           p == [net.previous EXCEPT ![f].valid =
                   IF net.flight[f].own THEN ok ELSE @]
<1> USE FormAssumption
<1>0. net \in NetType /\ IsFiniteSet(Fields) /\ f \in net.pending
  BY DEF NetInv, Balance, InFlight
<1>1. IsFiniteSet(net.pending) /\ net.count = Cardinality(net.pending)
  BY <1>0, FS_Subset DEF NetType, NetInv, Balance
<1>2. /\ Cardinality(net.pending) \in Nat /\ Cardinality(net.pending \ {f}) \in Nat
      /\ Cardinality(net.pending \ {f}) = Cardinality(net.pending) - 1
  BY <1>0, <1>1, FS_CardinalityType, FS_RemoveElement
<1>3. /\ m.previous = p
      /\ m.flight = [net.flight EXCEPT ![f] = NoFlight]
      /\ m.pending = net.pending \ {f}
      /\ m.count = IF net.count > 0 THEN net.count - 1 ELSE 0
      /\ m.formSubmitted = net.formSubmitted
  BY <1>0 DEF Answered, Stopped, NetType
<1>4. m.count = Cardinality(m.pending)
  BY <1>0, <1>1, <1>2, <1>3 DEF NetType
<1>5. m \in NetType
  <2>1. p \in [Fields -> Previous]
    BY <1>0 DEF NetType, Previous
  <2>2. [net.flight EXCEPT ![f] = NoFlight] \in [Fields -> Flight]
    BY <1>0 DEF NetType, Flight, NoFlight
  <2>3. m.count \in Nat /\ m.pending \in SUBSET Fields
    BY <1>0, <1>2, <1>3, <1>4 DEF NetType
  <2>4. QED
    BY <1>0, <1>3, <2>1, <2>2, <2>3 DEF NetType, Answered, Stopped
<1>6. InFlight(m) = InFlight(net) \ {f}
  BY <1>0, <1>3 DEF InFlight, NetType
<1>7. Balance(m)
  BY <1>3, <1>4, <1>6 DEF NetInv, Balance
<1>8. /\ net.flight[f].value \in Values
      /\ net.flight[f].own \in BOOLEAN
      /\ net.flight[f].own => net.previous[f].old = net.flight[f].value
      /\ ~net.flight[f].own => net.previous[f].old = None
  BY <1>0 DEF NetInv, Flights, InFlight, NetType, Flight
<1>9. Confirmed(c)
  BY <1>8 DEF Confirmed
<1>10. Flights(m)
  BY <1>0, <1>3, <1>6 DEF NetInv, Flights, InFlight, NetType, Previous
<1>11. Honest(m, c)
  <2> SUFFICES ASSUME NEW g \in Fields, m.previous[g].old # None,
                      m.previous[g].valid, g \notin m.pending
               PROVE  m.previous[g].old \in c[g]
    BY DEF Honest
  <2>1. CASE g = f
    <3>1. /\ m.previous[f].old = net.previous[f].old
          /\ m.previous[f].valid = IF net.flight[f].own THEN ok
                                   ELSE net.previous[f].valid
      BY <1>0, <1>3 DEF NetType, Previous
    <3>2. net.flight[f].own /\ ok /\ m.previous[f].old = net.flight[f].value
      BY <1>8, <2>1, <3>1
    <3>3. QED
      BY <2>1, <3>2 DEF Confirmed
  <2>2. CASE g # f
    <3>1. m.previous[g] = net.previous[g] /\ c[g] = confirmed[g]
      BY <1>0, <1>3, <2>2 DEF NetType, Confirmed
    <3>2. g \notin net.pending
      BY <1>3, <2>2
    <3>3. QED
      BY <3>1, <3>2 DEF NetInv, Honest
  <2>3. QED
    BY <2>1, <2>2
<1>12. QED
  BY <1>5, <1>7, <1>9, <1>10, <1>11 DEF NetInv

(* What every submission comes down to: a form that passes with no request *)
(* pending after the check holds confirmed values only.                    *)
LEMMA PassedIsConfirmed ==
  ASSUME PageType, NEW c, NEW n, NetInv(n, c), Passes(n),
         Ask(n, Elements).count = 0, NetInv(Ask(n, Elements), c)
  PROVE  \A f \in Elements : /\ LocalFault(f) = None
                             /\ Remote(f) => value[f] \in c[f]
<1> DEFINE asking == {f \in Elements : Asks(n, f)}
           m == Ask(n, Elements)
<1> USE FormAssumption
<1>0. Elements \subseteq Fields
  BY ElementsAreFields
<1>1. m.pending = n.pending \cup asking
  BY DEF Ask, NetInv, NetType
<1>2. IsFiniteSet(m.pending)
  BY FS_Subset DEF NetInv, NetType
<1>3. Cardinality(m.pending) = 0
  BY DEF NetInv, Balance
<1>4. m.pending = {}
  BY <1>2, <1>3, FS_EmptySet
<1> SUFFICES ASSUME NEW f \in Elements
             PROVE  /\ LocalFault(f) = None
                    /\ Remote(f) => value[f] \in c[f]
  OBVIOUS
<1>5. LocalFault(f) = None
  BY DEF Passes, Fault, None
<1>6. ASSUME Remote(f) PROVE value[f] \in c[f]
  <2>1. f \notin asking /\ f \notin n.pending
    BY <1>1, <1>4
  <2>2. Known(n, f)
    BY <1>5, <1>6, <2>1 DEF Asks
  <2>3. n.previous[f].valid
    BY <1>5, <1>6, <2>2 DEF Passes, Fault, None
  <2>4. value[f] # None
    BY <1>0 DEF PageType
  <2>5. QED
    BY <1>0, <2>1, <2>2, <2>3, <2>4 DEF Known, NetInv, Honest
<1>7. QED
  BY <1>5, <1>6

-----------------------------------------------------------------------------
(* The types of the view.                                                  *)

LEMMA AccusedType ==
  ASSUME NEW w PROVE Accused(w) \in SUBSET Fields
BY DEF Accused

LEMMA CheckedType ==
  ASSUME NEW w \in ViewType, NEW n, NEW fs \in SUBSET Fields
  PROVE  Checked(w, n, fs) \in ViewType
<1> DEFINE e == [f \in Fields |-> IF f \in fs THEN Fault(n, f) ELSE None]
           p == {f \in fs : /\ rules[f] # {}
                            /\ Fault(n, f) = None
                            /\ ~Asks(n, f)}
           s == w.submitted \cup {f \in fs : Fault(n, f) # None}
<1>1. e \in [Fields -> Reasons]
  BY FaultType DEF Reasons
<1>2. p \in SUBSET Fields /\ s \in SUBSET Fields
  BY DEF ViewType
<1>3. Checked(w, n, fs) = [w EXCEPT !.errors = e, !.passed = p, !.current = fs,
                                    !.submitted = s]
  BY DEF Checked
<1> HIDE DEF e, p, s
<1>4. QED
  BY <1>1, <1>2, <1>3 DEF ViewType

LEMMA ShowType ==
  ASSUME NEW w \in ViewType
  PROVE  Show(w) \in ViewType
<1> DEFINE a == (w.marked \cup Accused(w)) \ (w.current \ Accused(w))
           b == (w.lit \cup Accused(w)) \ w.passed
           t == [f \in Fields |->
                   IF f \in w.passed \cap Replace THEN None
                   ELSE IF f \in Accused(w) \cap Replace THEN w.errors[f]
                   ELSE w.text[f]]
<1>1. a \in SUBSET Fields /\ b \in SUBSET Fields
  BY AccusedType DEF ViewType
<1>2. t \in [Fields -> Reasons]
  BY DEF ViewType, Reasons
<1>3. Show(w) = [w EXCEPT !.marked = a, !.lit = b, !.text = t]
  BY DEF Show
<1> HIDE DEF a, b, t
<1>4. QED
  BY <1>1, <1>2, <1>3 DEF ViewType

LEMMA SummariseType ==
  ASSUME NEW w \in ViewType
  PROVE  Summarise(w) \in ViewType
<1> DEFINE s == {<<f, w.errors[f]>> : f \in Accused(w)}
<1>1. s \in SUBSET (Fields \X Reasons)
  BY AccusedType DEF ViewType
<1>2. Summarise(w) = IF Accused(w) = {} THEN w
                     ELSE [w EXCEPT !.summary = s, !.shown = TRUE]
  BY DEF Summarise
<1> HIDE DEF s
<1>3. QED
  BY <1>1, <1>2 DEF ViewType

LEMMA InvalidType ==
  ASSUME NEW w \in ViewType, NEW s \in SUBSET Fields
  PROVE  [w EXCEPT !.invalid = s] \in ViewType
BY DEF ViewType

LEMMA FormViewType ==
  ASSUME PageType, NEW w \in ViewType, NEW n
  PROVE  FormView(w, n) \in ViewType
<1> DEFINE c == Checked(w, n, Elements)
           d == [c EXCEPT !.invalid = Accused(c)]
<1>1. c \in ViewType
  BY CheckedType, ElementsAreFields
<1>2. d \in ViewType
  BY <1>1, InvalidType, AccusedType
<1>3. FormView(w, n) = Show(Summarise(d))
  BY DEF FormView
<1> HIDE DEF d
<1>4. QED
  BY <1>2, <1>3, SummariseType, ShowType

LEMMA ElementViewType ==
  ASSUME NEW w \in ViewType, NEW n, NEW f \in Fields
  PROVE  ElementView(w, n, f) \in ViewType
<1> DEFINE c == Checked(w, n, {f})
           s == c.invalid \cup {f}
<1>1. c \in ViewType
  BY CheckedType
<1>2. s \in SUBSET Fields
  BY <1>1 DEF ViewType
<1>3. [c EXCEPT !.invalid = s] \in ViewType
  BY <1>1, <1>2, InvalidType
<1>4. ElementView(w, n, f) = Show([c EXCEPT !.invalid = s])
  BY DEF ElementView
<1>5. QED
  BY <1>3, <1>4, ShowType

LEMMA AnsweredViewType ==
  ASSUME view \in ViewType, NEW f \in Fields, NEW ok \in BOOLEAN
  PROVE  AnsweredView(f, ok) \in ViewType
<1> DEFINE a == [view EXCEPT !.errors = [g \in Fields |-> None],
                             !.passed = {f}, !.invalid = @ \cup {f}]
           b == [view EXCEPT !.errors[f] = "remote", !.passed = @ \ {f},
                             !.invalid = @ \cup {f}]
<1>1. a \in ViewType
  BY DEF ViewType, Reasons
<1>2. b \in ViewType
  BY DEF ViewType, Reasons
<1>3. AcceptedView(view, f) = Show(a) /\ RejectedView(view, f) = Show(b)
  BY DEF AcceptedView, RejectedView
<1> HIDE DEF a, b
<1>4. QED
  BY <1>1, <1>2, <1>3, ShowType DEF AnsweredView

LEMMA CleanType == Clean \in ViewType
BY DEF Clean, ViewType, Reasons

-----------------------------------------------------------------------------
(* The inductive invariant, step by step.                                  *)

FormInv ==
  /\ PageType
  /\ Confirmed(confirmed)
  /\ NetInv(net, confirmed)
  /\ view \in ViewType
  /\ sent \in BOOLEAN
  /\ wish \in BOOLEAN /\ edited \subseteq Fields
  /\ sent => ~wish
  /\ CheckedBeforeSent

LEMMA InitInv == Init => FormInv
<1> USE FormAssumption
<1> SUFFICES ASSUME Init PROVE FormInv
  OBVIOUS
<1>1. PageType
  BY DEF Init, PageType, ParsedRules
<1>2. QED
  BY <1>1, IdleKeeps, CleanType DEF Init, FormInv, CheckedBeforeSent

LEMMA LoadInv == FormInv /\ Load => FormInv'
<1> USE FormAssumption
<1> SUFFICES ASSUME FormInv, Load PROVE FormInv'
  OBVIOUS
<1>1. PageType'
  BY DEF Load, PageType, ParsedRules
<1>2. NetInv(net, confirmed)' /\ Confirmed(confirmed)'
  BY IdleKeeps DEF Load, NetInv, Balance, InFlight, Flights, Honest, Confirmed
<1>3. QED
  BY <1>1, <1>2, CleanType DEF Load, FormInv, CheckedBeforeSent, NoWish

(* Steps after which nothing has been sent.                                *)
LEMMA NotSentInv ==
  ASSUME FormInv, PageType',
         NetInv(net', confirmed'), Confirmed(confirmed'),
         view' \in ViewType, sent' = FALSE,
         wish' \in BOOLEAN, edited' \subseteq Fields
  PROVE  FormInv'
BY DEF FormInv, CheckedBeforeSent, NetInv, Balance, InFlight, Flights, Honest,
       Confirmed

(* Steps that leave the page as it is.                                     *)
LEMMA SamePage ==
  ASSUME FormInv, UNCHANGED Page
  PROVE  /\ PageType'
         /\ Elements' = Elements
         /\ \A f : LocalFault(f)' = LocalFault(f) /\ Remote(f)' = Remote(f)
BY DEF FormInv, Page, PageType, Elements, LocalFault, Remote

LEMMA PageStepsInv ==
  ASSUME FormInv, \/ \E f \in Fields : AddField(f)
                  \/ Parse
                  \/ \E f \in Fields, x \in Values : Edit(f, x)
  PROVE  FormInv'
<1> USE FormAssumption
<1>1. ASSUME NEW f \in Fields, AddField(f) PROVE FormInv'
  <2>1. PageType'
    BY <1>1 DEF FormInv, AddField, PageType
  <2>2. QED
    BY <1>1, <2>1, NotSentInv DEF FormInv, AddField, wishes
<1>2. ASSUME Parse PROVE FormInv'
  <2>1. PageType'
    BY <1>2 DEF FormInv, Parse, PageType, ParsedRules
  <2>2. QED
    BY <1>2, <2>1, NotSentInv DEF FormInv, Parse, wishes
<1>3. ASSUME NEW f \in Fields, NEW x \in Values, Edit(f, x) PROVE FormInv'
  <2>1. PageType'
    BY <1>3 DEF FormInv, Edit, PageType
  <2>2. QED
    BY <1>3, <2>1, NotSentInv DEF FormInv, Edit
<1>4. QED
  BY <1>1, <1>2, <1>3

LEMMA CheckInv ==
  ASSUME FormInv, NEW f \in Fields, KeyUp(f) \/ Blur(f)
  PROVE  FormInv'
<1>1. CheckElement(f) /\ sent = FALSE
  BY DEF KeyUp, Blur, FormInv
<1>2. NetInv(Ask(net, {f}), confirmed)
  BY AskKeeps DEF FormInv
<1>3. ElementView(view, net, f) \in ViewType
  BY ElementViewType DEF FormInv
<1>4. QED
  BY <1>1, <1>2, <1>3, SamePage, NotSentInv DEF CheckElement, FormInv, wishes

LEMMA SubmitInv ==
  ASSUME FormInv, Submit PROVE FormInv'
<1> DEFINE m == Ask(net, Elements)
<1>1. NetInv(m, confirmed) /\ NetInv([m EXCEPT !.formSubmitted = TRUE], confirmed)
  BY AskKeeps, FlagKeeps, ElementsAreFields DEF FormInv
<1>2. FormView(view, net) \in ViewType
  BY FormViewType DEF FormInv
<1>3. CASE SubmitRefused
  BY <1>1, <1>2, <1>3, SamePage, NotSentInv DEF SubmitRefused, NoWish, FormInv
<1>4. CASE SubmitWaits
  BY <1>1, <1>2, <1>4, SamePage, NotSentInv DEF SubmitWaits, FormInv
<1>5. CASE SubmitSends
  <2>1. \A f \in Elements : /\ LocalFault(f) = None
                            /\ Remote(f) => value[f] \in confirmed[f]
    <3>1. CASE attached
      BY <1>1, <1>5, <3>1, PassedIsConfirmed DEF SubmitSends, FormInv
    <3>2. CASE ~attached
      BY <3>2 DEF FormInv, PageType, Elements
    <3>3. QED
      BY <3>1, <3>2
  <2>2. UNCHANGED Page /\ confirmed' = confirmed /\ NoWish /\ sent' = TRUE
    BY <1>5 DEF SubmitSends
  <2>3. CheckedBeforeSent'
    BY <2>1, <2>2, SamePage DEF CheckedBeforeSent, Page
  <2>4. NetInv(net', confirmed') /\ view' \in ViewType
    BY <1>1, <1>2, <1>5 DEF SubmitSends, FormInv
  <2>5. NetInv(net, confirmed)'
    BY <2>4 DEF NetInv, Balance, InFlight, Flights, Honest
  <2>6. QED
    BY <2>2, <2>3, <2>4, <2>5, SamePage DEF FormInv, Confirmed, NoWish
<1>6. QED
  BY <1>3, <1>4, <1>5 DEF Submit

LEMMA AnswerInv ==
  ASSUME FormInv, NEW f \in Fields, Answer(f) PROVE FormInv'
<1>1. ASSUME NEW ok \in BOOLEAN, Takes(f, ok)
      PROVE  /\ NetInv(Answered(f, ok), confirmed') /\ Confirmed(confirmed')
             /\ AnsweredView(f, ok) \in ViewType
             /\ UNCHANGED Page /\ sent = FALSE
  BY <1>1, AnswerKeeps, AnsweredViewType DEF Takes, FormInv
<1>2. ASSUME NEW ok \in BOOLEAN, AnswerNoted(f, ok) PROVE FormInv'
  BY <1>1, <1>2, SamePage, NotSentInv DEF AnswerNoted, FormInv, wishes
<1>3. CASE AnswerRefuses(f)
  <2>1. Takes(f, FALSE) /\ net' = [Answered(f, FALSE) EXCEPT !.formSubmitted = FALSE]
        /\ view' = Summarise(AnsweredView(f, FALSE)) /\ NoWish /\ sent' = sent
    BY <1>3 DEF AnswerRefuses
  <2>2. NetInv(net', confirmed') /\ view' \in ViewType
    BY <1>1, <2>1, FlagKeeps, SummariseType
  <2>3. QED
    BY <1>1, <2>1, <2>2, SamePage, NotSentInv DEF NoWish
<1>4. CASE AnswerFindsFault(f)
  <2> DEFINE n == Answered(f, TRUE)
  <2>1. /\ Takes(f, TRUE) /\ net' = Ask(n, Elements)
        /\ view' = FormView(AnsweredView(f, TRUE), n) /\ NoWish /\ sent' = sent
    BY <1>4 DEF AnswerFindsFault
  <2>2. NetInv(n, confirmed') /\ Confirmed(confirmed') /\ AnsweredView(f, TRUE) \in ViewType
    BY <1>1, <2>1
  <2> HIDE DEF n
  <2>3. NetInv(net', confirmed') /\ view' \in ViewType
    BY <2>1, <2>2, AskKeeps, FormViewType, ElementsAreFields DEF FormInv
  <2>4. QED
    BY <1>1, <2>1, <2>2, <2>3, SamePage, NotSentInv DEF NoWish
<1>5. CASE AnswerSubmits(f)
  <2> DEFINE n == Answered(f, TRUE)
             m == Ask(n, Elements)
             k == Ask(m, Elements)
             w == FormView(AnsweredView(f, TRUE), n)
  <2>1. /\ Takes(f, TRUE) /\ net' = [k EXCEPT !.formSubmitted = FALSE]
        /\ view' = FormView(w, m) /\ Passes(n)
        /\ sent' = (Passes(m) /\ m.count = 0)
        /\ NoWish
    BY <1>5 DEF AnswerSubmits
  <2>2. NetInv(n, confirmed') /\ Confirmed(confirmed') /\ AnsweredView(f, TRUE) \in ViewType
    BY <1>1, <2>1
  <2>3. NetInv(m, confirmed') /\ w \in ViewType
    <3> HIDE DEF n
    <3>1. QED
      BY <2>2, AskKeeps, FormViewType, ElementsAreFields DEF FormInv
  <2>4. NetInv(k, confirmed')
    <3> HIDE DEF m
    <3>1. QED
      BY <2>2, <2>3, AskKeeps, ElementsAreFields DEF FormInv
  <2>5. NetInv(net', confirmed') /\ view' \in ViewType
    <3> HIDE DEF k, w, m
    <3>1. QED
      BY <2>1, <2>3, <2>4, FlagKeeps, FormViewType DEF FormInv
  <2>6. sent' \in BOOLEAN /\ wish' = FALSE /\ edited' \subseteq Fields
    BY <2>1 DEF FormInv, NoWish
  <2>7. CASE sent'
    <3>1. \A g \in Elements : /\ LocalFault(g) = None
                              /\ Remote(g) => value[g] \in confirmed'[g]
      <4> HIDE DEF n
      <4>1. QED
        BY <2>1, <2>2, <2>3, <2>7, PassedIsConfirmed DEF FormInv
    <3>2. CheckedBeforeSent'
      BY <1>1, <2>1, <3>1, SamePage DEF CheckedBeforeSent, Page
    <3>3. NetInv(net, confirmed)'
      BY <2>5 DEF NetInv, Balance, InFlight, Flights, Honest
    <3>4. QED
      BY <1>1, <2>1, <2>2, <2>5, <2>6, <3>2, <3>3, SamePage DEF FormInv, Confirmed
  <2>8. CASE sent' = FALSE
    BY <1>1, <2>1, <2>2, <2>5, <2>6, <2>8, SamePage, NotSentInv
  <2>9. QED
    BY <2>6, <2>7, <2>8
<1>6. QED
  BY <1>2, <1>3, <1>4, <1>5 DEF Answer

LEMMA FailInv ==
  ASSUME FormInv, NEW f \in Fields, RequestFails(f) PROVE FormInv'
<1> DEFINE m == [net EXCEPT !.flight[f] = NoFlight]
<1>1. net \in NetType /\ NetInv(net, confirmed) /\ Failures
  BY DEF FormInv, NetInv, RequestFails
<1>2. /\ m \in NetType
      /\ m.previous = net.previous /\ m.pending = net.pending /\ m.count = net.count
      /\ m.flight = [net.flight EXCEPT ![f] = NoFlight]
  BY <1>1 DEF NetType, Flight, NoFlight
<1>3. InFlight(m) = InFlight(net) \ {f}
  BY <1>1, <1>2 DEF InFlight, NetType
<1>4. NetInv(m, confirmed)
  BY <1>1, <1>2, <1>3 DEF NetInv, Balance, Flights, Honest, NetType, InFlight
<1>5. QED
  BY <1>4, SamePage, NotSentInv DEF RequestFails, FormInv, wishes

LEMMA ResetInv ==
  ASSUME FormInv, Reset PROVE FormInv'
<1> USE FormAssumption
<1> DEFINE p == [f \in Fields |-> IF f \in Elements THEN NoPrevious ELSE net.previous[f]]
           q == [f \in Fields |-> IF f \in Elements /\ net.flight[f] # NoFlight
                                  THEN [net.flight[f] EXCEPT !.own = FALSE]
                                  ELSE net.flight[f]]
           m == [net EXCEPT !.previous = p, !.flight = q]
<1>0. /\ value' = [f \in Fields |-> IF f \in inDom THEN Blank ELSE value[f]]
      /\ UNCHANGED <<inDom, attached, rules>>
  BY DEF Reset
<1>1. PageType'
  BY <1>0 DEF FormInv, PageType
<1>2. net \in NetType /\ NetInv(net, confirmed)
  BY DEF FormInv, NetInv
<1>3. /\ m.previous = p /\ m.flight = q
      /\ m.pending = net.pending /\ m.count = net.count
      /\ m \in NetType
  <2>1. p \in [Fields -> Previous]
    BY <1>2 DEF NetType, Previous, NoPrevious
  <2>2. q \in [Fields -> Flight]
    <3>1. \A f \in Fields : net.flight[f] \in Flight
      BY <1>2 DEF NetType
    <3>2. \A x \in Flight : [x EXCEPT !.own = FALSE] \in Flight
      BY DEF Flight
    <3>3. QED
      BY <3>1, <3>2
  <2> HIDE DEF p, q
  <2>3. [net EXCEPT !.previous = p, !.flight = q] \in NetType
    BY <1>2, <2>1, <2>2 DEF NetType
  <2>4. QED
    BY <1>2, <2>3 DEF NetType
<1>4. InFlight(m) = InFlight(net)
  <2>1. \A f \in InFlight(net) : net.flight[f].value \in Values
    BY <1>2 DEF NetInv, Flights
  <2>2. \A f \in InFlight(net) : q[f].value = net.flight[f].value
    BY <1>2 DEF InFlight, NetType, Flight
  <2>3. \A f \in InFlight(net) : q[f] # NoFlight
    <3>1. NoFlight.value \notin Values
      BY DEF NoFlight
    <3> HIDE DEF q
    <3>2. QED
      BY <2>1, <2>2, <3>1
  <2>4. \A f \in Fields : net.flight[f] = NoFlight => q[f] = NoFlight
    OBVIOUS
  <2> HIDE DEF m, q
  <2>5. QED
    BY <1>3, <2>3, <2>4 DEF InFlight
<1>5. Balance(m)
  BY <1>2, <1>3, <1>4 DEF NetInv, Balance
<1>6. Flights(m)
  <2> SUFFICES ASSUME NEW f \in InFlight(net)
               PROVE  /\ q[f].value \in Values
                      /\ q[f].own => p[f].old = q[f].value
                      /\ ~q[f].own => p[f].old = None
    BY <1>3, <1>4 DEF Flights
  <2>1. /\ f \in Fields /\ net.flight[f] # NoFlight /\ net.flight[f] \in Flight
        /\ net.flight[f].value \in Values
        /\ net.flight[f].own => net.previous[f].old = net.flight[f].value
        /\ ~net.flight[f].own => net.previous[f].old = None
    BY <1>2 DEF NetInv, Flights, InFlight, NetType
  <2>2. CASE f \in Elements
    <3>1. q[f] = [net.flight[f] EXCEPT !.own = FALSE] /\ p[f] = NoPrevious
      BY <2>1, <2>2
    <3>2. QED
      BY <2>1, <3>1 DEF Flight, NoPrevious
  <2>3. CASE f \notin Elements
    BY <2>1, <2>3
  <2>4. QED
    BY <2>2, <2>3
<1>7. Honest(m, confirmed)
  BY <1>2, <1>3 DEF NetInv, Honest, NoPrevious
<1>8. NetInv(m, confirmed)
  BY <1>3, <1>5, <1>6, <1>7 DEF NetInv
<1>9. CASE attached
  <2>1. net' = m
    BY <1>9 DEF Reset
  <2>2. view' \in ViewType
    <3>1. [view EXCEPT !.errors = [f \in Fields |-> None], !.passed = {},
                       !.current = {}, !.submitted = {}, !.invalid = {},
                       !.marked = @ \ Elements, !.lit = {}, !.shown = FALSE]
            \in ViewType
      BY DEF FormInv, ViewType, Reasons
    <3>2. QED
      BY <1>9, <3>1 DEF Reset
  <2>3. QED
    BY <1>1, <1>8, <2>1, <2>2, NotSentInv DEF Reset, FormInv, NoWish
<1>10. CASE ~attached
  BY <1>1, <1>2, <1>10, NotSentInv DEF Reset, FormInv, NoWish
<1>11. QED
  BY <1>9, <1>10 DEF FormInv, PageType

LEMMA StutterInv ==
  ASSUME FormInv, UNCHANGED vars PROVE FormInv'
<1>1. NetInv(net, confirmed)'
  BY DEF FormInv, vars, NetInv, Balance, InFlight, Flights, Honest
<1>2. CheckedBeforeSent'
  BY DEF FormInv, vars, CheckedBeforeSent, Elements, LocalFault, Remote
<1>3. QED
  BY <1>1, <1>2 DEF FormInv, vars, wishes, PageType, Confirmed

LEMMA NextInv == FormInv /\ [Next]_vars => FormInv'
<1> SUFFICES ASSUME FormInv, [Next]_vars PROVE FormInv'
  OBVIOUS
<1>1. CASE \E f \in Fields : AddField(f) \/ \E x \in Typed[f] : Edit(f, x)
  BY <1>1, PageStepsInv, FormAssumption
<1>2. CASE \E f \in Fields : KeyUp(f) \/ Blur(f)
  BY <1>2, CheckInv
<1>3. CASE \E f \in Fields : Answer(f) \/ RequestFails(f)
  BY <1>3, AnswerInv, FailInv
<1>4. CASE Parse \/ Submit \/ Reset \/ Load
  BY <1>4, PageStepsInv, SubmitInv, ResetInv, LoadInv
<1>5. CASE UNCHANGED vars
  BY <1>5, StutterInv
<1>6. QED
  BY <1>1, <1>2, <1>3, <1>4, <1>5 DEF Next

-----------------------------------------------------------------------------
(* The variables keep their types, for any fields, rules and failures.     *)
THEOREM FormTypes == Spec => []TypeOK
<1>1. FormInv => TypeOK
  BY DEF FormInv, TypeOK, PageType, Confirmed, NetInv
<1>2. QED
  BY InitInv, NextInv, <1>1, PTL DEF Spec

(* pendingRequest is the number of pending fields and never needs the      *)
(* correction that stopRequest makes; while no request fails, each pending *)
(* field has a request that will be answered.                              *)
THEOREM RequestsBalance == Spec => []PendingBalance
<1>1. FormInv => PendingBalance
  BY DEF FormInv, PendingBalance, NetInv, Balance, InFlight
<1>2. QED
  BY InitInv, NextInv, <1>1, PTL DEF Spec

(* Nothing is sent but values that satisfy the rules of the validator and  *)
(* that the server has confirmed, whatever the order of typing, answers,   *)
(* failures, resets and submissions.                                       *)
THEOREM NothingUnchecked == Spec => []CheckedBeforeSent
<1>1. FormInv => CheckedBeforeSent
  BY DEF FormInv
<1>2. QED
  BY InitInv, NextInv, <1>1, PTL DEF Spec
-----------------------------------------------------------------------------
(* Why a mark disappears and why a submission is refused: what the view    *)
(* and the remote checks have in common.                                   *)

RulesInDom == \A f \in Fields : rules[f] # {} => f \in inDom

(* Of the fields looked at last only the accused are marked, and what has  *)
(* passed says nothing.                                                    *)
Tidy(w) ==
  /\ w.marked \cap w.current \subseteq Accused(w)
  /\ w.lit \cap w.passed = {}

(* A value that counts as refused is not a confirmed one, unless it is     *)
(* being asked about anew.                                                 *)
Refuted(n, c) ==
  \A f \in Fields :
    n.previous[f].old # None /\ ~n.previous[f].valid /\ f \notin n.pending
      => n.previous[f].old \notin c[f]

(* Only fields with a remote rule are asked about, and never when empty.   *)
Asked(n, c) ==
  \A f \in Fields :
    /\ n.flight[f] # NoFlight
         => n.flight[f].value # Blank /\ "remote" \in rules[f]
    /\ Blank \notin c[f]

(* While a submission waits nothing is wrong with the fields that are left *)
(* alone but what has been refused in the meantime, and each of their      *)
(* remote checks is about the present value.                               *)
Stands(n, w, c, e) ==
  \A f \in Fields \ e :
    /\ LocalFault(f) = None
    /\ Remote(f) => Known(n, f)
    /\ f \in Accused(w) => value[f] \notin c[f] \/ f \in n.pending

NetTold(n, c) == Refuted(n, c) /\ Asked(n, c)

Waiting == attached /\ Stands(net, view, confirmed, edited)

ViewInv ==
  /\ RulesInDom
  /\ Tidy(view)
  /\ NetTold(net, confirmed)
  /\ wish => Waiting

(* The reasons for a field of the summary that the user has left alone.    *)
Reason(f, n, c) ==
  LocalFault(f) # None \/ value[f] \notin c[f] \/ f \in n.pending

-----------------------------------------------------------------------------
(* What the operators on views leave behind.                               *)

LEMMA ShowFields ==
  ASSUME NEW w \in ViewType
  PROVE  /\ Accused(Show(w)) = Accused(w)
         /\ Show(w).errors = w.errors
         /\ Show(w).current = w.current /\ Show(w).passed = w.passed
         /\ Show(w).summary = w.summary /\ Show(w).shown = w.shown
         /\ Show(w).marked = (w.marked \cup Accused(w)) \ (w.current \ Accused(w))
         /\ Show(w).lit = (w.lit \cup Accused(w)) \ w.passed
         /\ Tidy(Show(w))
<1> DEFINE a == (w.marked \cup Accused(w)) \ (w.current \ Accused(w))
           b == (w.lit \cup Accused(w)) \ w.passed
           t == [f \in Fields |->
                   IF f \in w.passed \cap Replace THEN None
                   ELSE IF f \in Accused(w) \cap Replace THEN w.errors[f]
                   ELSE w.text[f]]
           v == [w EXCEPT !.marked = a, !.lit = b, !.text = t]
<1>1. Show(w) = v
  BY DEF Show
<1>2. /\ v.errors = w.errors /\ v.current = w.current /\ v.passed = w.passed
      /\ v.summary = w.summary /\ v.shown = w.shown
      /\ v.marked = a /\ v.lit = b
  <2> HIDE DEF a, b, t
  <2>1. QED
    BY DEF ViewType
<1> HIDE DEF v
<1>3. Accused(v) = Accused(w)
  BY <1>2 DEF Accused
<1>4. QED
  BY <1>1, <1>2, <1>3 DEF Tidy

LEMMA SummariseFields ==
  ASSUME NEW w \in ViewType
  PROVE  /\ Accused(Summarise(w)) = Accused(w)
         /\ Summarise(w).errors = w.errors
         /\ Summarise(w).current = w.current /\ Summarise(w).passed = w.passed
         /\ Summarise(w).marked = w.marked /\ Summarise(w).lit = w.lit
         /\ Accused(w) # {} =>
              /\ Summarise(w).summary = {<<f, w.errors[f]>> : f \in Accused(w)}
              /\ Summarise(w).shown
<1> DEFINE s == {<<f, w.errors[f]>> : f \in Accused(w)}
           v == [w EXCEPT !.summary = s, !.shown = TRUE]
<1>1. Summarise(w) = IF Accused(w) = {} THEN w ELSE v
  BY DEF Summarise
<1>2. /\ v.errors = w.errors /\ v.current = w.current /\ v.passed = w.passed
      /\ v.marked = w.marked /\ v.lit = w.lit
      /\ v.summary = s /\ v.shown
  <2> HIDE DEF s
  <2>1. QED
    BY DEF ViewType
<1> HIDE DEF v
<1>3. Accused(v) = Accused(w)
  BY <1>2 DEF Accused
<1>4. QED
  BY <1>1, <1>2, <1>3

LEMMA CheckedFields ==
  ASSUME NEW w \in ViewType, NEW n, NEW fs \in SUBSET Fields
  PROVE  /\ Checked(w, n, fs) \in ViewType
         /\ Accused(Checked(w, n, fs)) = {f \in fs : Fault(n, f) # None}
         /\ \A f \in fs : Checked(w, n, fs).errors[f] = Fault(n, f)
         /\ Checked(w, n, fs).current = fs
         /\ \A f \in Checked(w, n, fs).passed : f \in fs /\ Fault(n, f) = None
         /\ Checked(w, n, fs).marked = w.marked
         /\ Checked(w, n, fs).lit = w.lit
<1> DEFINE e == [f \in Fields |-> IF f \in fs THEN Fault(n, f) ELSE None]
           p == {f \in fs : /\ rules[f] # {}
                            /\ Fault(n, f) = None
                            /\ ~Asks(n, f)}
           s == w.submitted \cup {f \in fs : Fault(n, f) # None}
           v == [w EXCEPT !.errors = e, !.passed = p, !.current = fs, !.submitted = s]
<1>1. Checked(w, n, fs) = v
  BY DEF Checked
<1>2. /\ v.errors = e /\ v.passed = p /\ v.current = fs
      /\ v.marked = w.marked /\ v.lit = w.lit
  <2> HIDE DEF e, p, s
  <2>1. QED
    BY DEF ViewType
<1> HIDE DEF v
<1>3. Accused(v) = {f \in fs : Fault(n, f) # None}
  BY <1>2 DEF Accused
<1>4. QED
  BY <1>1, <1>2, <1>3, CheckedType

(* invalid plays no part.                                                  *)
LEMMA InvalidFields ==
  ASSUME NEW w \in ViewType, NEW s \in SUBSET Fields
  PROVE  /\ [w EXCEPT !.invalid = s] \in ViewType
         /\ Accused([w EXCEPT !.invalid = s]) = Accused(w)
         /\ [w EXCEPT !.invalid = s].errors = w.errors
         /\ [w EXCEPT !.invalid = s].current = w.current
         /\ [w EXCEPT !.invalid = s].passed = w.passed
         /\ [w EXCEPT !.invalid = s].marked = w.marked
         /\ [w EXCEPT !.invalid = s].lit = w.lit
BY DEF ViewType, Accused

(* form(): the whole form is looked at, and its faults are summed up.      *)
LEMMA FormViewFields ==
  ASSUME PageType, NEW w \in ViewType, NEW n
  PROVE  /\ Accused(FormView(w, n)) = {f \in Elements : Fault(n, f) # None}
         /\ Accused(FormView(w, n)) \subseteq FormView(w, n).marked
         /\ Accused(FormView(w, n)) \subseteq FormView(w, n).lit
         /\ Tidy(FormView(w, n))
         /\ ~Passes(n) =>
              /\ FormView(w, n).shown
              /\ FormView(w, n).summary # {}
              /\ \A item \in FormView(w, n).summary :
                   item[1] \in Fields /\ Fault(n, item[1]) # None
<1> DEFINE c == Checked(w, n, Elements)
           d == [c EXCEPT !.invalid = Accused(c)]
           s == Summarise(d)
           a == {f \in Elements : Fault(n, f) # None}
<1>0. Elements \in SUBSET Fields
  BY ElementsAreFields
<1>1. /\ c \in ViewType /\ Accused(c) = a /\ c.current = Elements
      /\ \A f \in c.passed : Fault(n, f) = None
      /\ c.marked = w.marked /\ c.lit = w.lit
  BY <1>0, CheckedFields
<1>2. /\ d \in ViewType /\ Accused(d) = a /\ d.current = Elements
      /\ \A f \in d.passed : Fault(n, f) = None
      /\ d.marked = w.marked /\ d.lit = w.lit
  <2> HIDE DEF c, a
  <2>1. QED
    BY <1>1, AccusedType, InvalidFields
<1> HIDE DEF d, a
<1>3. /\ s \in ViewType /\ Accused(s) = a /\ s.current = Elements
      /\ \A f \in s.passed : Fault(n, f) = None
      /\ s.marked = w.marked /\ s.lit = w.lit
      /\ a # {} => /\ s.summary = {<<f, d.errors[f]>> : f \in a}
                   /\ s.shown
  BY <1>2, SummariseFields, SummariseType
<1> HIDE DEF s
<1>4. FormView(w, n) = Show(s)
  BY DEF FormView, s, d
<1>5. /\ Accused(Show(s)) = a /\ Tidy(Show(s))
      /\ Show(s).marked = (w.marked \cup a) \ (Elements \ a)
      /\ Show(s).lit = (w.lit \cup a) \ s.passed
      /\ Show(s).summary = s.summary /\ Show(s).shown = s.shown
  BY <1>3, ShowFields
<1>6. \A f \in a : f \in Fields /\ f \in Elements /\ Fault(n, f) # None
  BY <1>0 DEF a
<1>7. ASSUME ~Passes(n)
      PROVE  /\ Show(s).shown /\ Show(s).summary # {}
             /\ \A item \in Show(s).summary :
                  item[1] \in Fields /\ Fault(n, item[1]) # None
  <2>1. a # {}
    BY <1>7 DEF Passes, a
  <2>2. Show(s).summary = {<<f, d.errors[f]>> : f \in a} /\ Show(s).shown
    BY <1>3, <1>5, <2>1
  <2>3. Show(s).summary # {}
    <3>1. PICK f : f \in a
      BY <2>1
    <3>2. <<f, d.errors[f]>> \in Show(s).summary
      BY <2>2, <3>1
    <3>3. QED
      BY <3>2
  <2>4. ASSUME NEW item \in Show(s).summary
        PROVE  item[1] \in Fields /\ Fault(n, item[1]) # None
    <3>1. PICK f \in a : item = <<f, d.errors[f]>>
      BY <2>2
    <3>2. item[1] = f
      BY <3>1
    <3>3. QED
      BY <1>6, <3>2
  <2>5. QED
    BY <2>2, <2>3, <2>4
<1>8. a \subseteq Show(s).marked /\ a \subseteq Show(s).lit
  BY <1>3, <1>5, <1>6
<1>9. QED
  BY <1>4, <1>5, <1>7, <1>8 DEF a

(* element(): one field is looked at.                                      *)
LEMMA ElementViewFields ==
  ASSUME NEW w \in ViewType, NEW n, NEW g \in Fields
  PROVE  /\ Accused(ElementView(w, n, g)) = {f \in {g} : Fault(n, f) # None}
         /\ \A f \in w.marked : f # g \/ Fault(n, f) # None
                                => f \in ElementView(w, n, g).marked
         /\ \A f \in w.lit : f # g \/ Fault(n, f) # None
                                => f \in ElementView(w, n, g).lit
         /\ Tidy(ElementView(w, n, g))
<1> DEFINE c == Checked(w, n, {g})
           t == c.invalid \cup {g}
           d == [c EXCEPT !.invalid = t]
           a == {f \in {g} : Fault(n, f) # None}
<1>1. /\ c \in ViewType /\ Accused(c) = a /\ c.current = {g}
      /\ \A f \in c.passed : Fault(n, f) = None
      /\ c.marked = w.marked /\ c.lit = w.lit /\ c.passed \subseteq {g}
  <2>1. {g} \in SUBSET Fields
    OBVIOUS
  <2>2. QED
    BY <2>1, CheckedFields
<1>2. t \in SUBSET Fields
  BY <1>1 DEF ViewType
<1>3. /\ d \in ViewType /\ Accused(d) = a /\ d.current = {g}
      /\ \A f \in d.passed : Fault(n, f) = None
      /\ d.marked = w.marked /\ d.lit = w.lit /\ d.passed \subseteq {g}
  <2> HIDE DEF c, a, t
  <2>1. QED
    BY <1>1, <1>2, InvalidFields
<1>4. ElementView(w, n, g) = Show(d)
  BY DEF ElementView
<1> HIDE DEF d
<1>5. /\ Accused(Show(d)) = a /\ Tidy(Show(d))
      /\ Show(d).marked = (w.marked \cup a) \ ({g} \ a)
      /\ Show(d).lit = (w.lit \cup a) \ d.passed
  BY <1>3, ShowFields
<1>6. QED
  BY <1>3, <1>4, <1>5

(* A good answer takes the message of its field away, and the marks of the *)
(* fields looked at last.                                                  *)
LEMMA AcceptedFields ==
  ASSUME view \in ViewType, NEW g \in Fields
  PROVE  /\ Accused(AcceptedView(view, g)) = {}
         /\ view.marked \ view.current \subseteq AcceptedView(view, g).marked
         /\ view.lit \ {g} \subseteq AcceptedView(view, g).lit
         /\ Tidy(AcceptedView(view, g))
<1> DEFINE d == [view EXCEPT !.errors = [f \in Fields |-> None],
                             !.passed = {g}, !.invalid = @ \cup {g}]
<1>1. d \in ViewType
  BY DEF ViewType, Reasons
<1>2. /\ d.errors = [f \in Fields |-> None] /\ d.passed = {g}
      /\ d.current = view.current /\ d.marked = view.marked /\ d.lit = view.lit
  BY DEF ViewType
<1>3. AcceptedView(view, g) = Show(d)
  BY DEF AcceptedView
<1> HIDE DEF d
<1>4. Accused(d) = {}
  BY <1>2 DEF Accused
<1>5. QED
  BY <1>1, <1>2, <1>3, <1>4, ShowFields

(* A bad answer adds its field to the accused and takes nothing away.      *)
LEMMA RejectedFields ==
  ASSUME view \in ViewType, Tidy(view), NEW g \in Fields
  PROVE  /\ Accused(RejectedView(view, g)) = Accused(view) \cup {g}
         /\ view.marked \subseteq RejectedView(view, g).marked
         /\ view.lit \subseteq RejectedView(view, g).lit
         /\ Tidy(RejectedView(view, g))
<1> DEFINE d == [view EXCEPT !.errors[g] = "remote", !.passed = @ \ {g},
                             !.invalid = @ \cup {g}]
<1>1. d \in ViewType
  BY DEF ViewType, Reasons
<1>2. /\ d.errors = [view.errors EXCEPT ![g] = "remote"]
      /\ d.passed = view.passed \ {g}
      /\ d.current = view.current /\ d.marked = view.marked /\ d.lit = view.lit
  BY DEF ViewType
<1>3. RejectedView(view, g) = Show(d)
  BY DEF RejectedView
<1> HIDE DEF d
<1>4. Accused(d) = Accused(view) \cup {g}
  <2>1. view.errors \in [Fields -> Reasons]
    BY DEF ViewType
  <2>2. "remote" # None
    BY DEF None
  <2>3. QED
    BY <1>2, <2>1, <2>2 DEF Accused
<1>5. QED
  BY <1>1, <1>2, <1>3, <1>4, ShowFields DEF Tidy

-----------------------------------------------------------------------------
(* What the operators on the remote checks leave behind.                   *)

LEMMA AskFields ==
  ASSUME PageType, NEW c, NEW n, NetInv(n, c), NEW fs \in SUBSET Fields
  PROVE  /\ n.pending \subseteq Ask(n, fs).pending
         /\ Ask(n, fs).pending \subseteq n.pending \cup {f \in fs : Asks(n, f)}
         /\ \A f \in Fields :
              IF f \in fs /\ Asks(n, f)
              THEN /\ f \in Ask(n, fs).pending
                   /\ Ask(n, fs).previous[f].old = value[f]
                   /\ Ask(n, fs).flight[f].value = value[f]
              ELSE /\ Ask(n, fs).previous[f] = n.previous[f]
                   /\ Ask(n, fs).flight[f] = n.flight[f]
<1> DEFINE asking == {f \in fs : Asks(n, f)}
           p == [f \in Fields |-> IF f \in asking
                   THEN [old |-> value[f], valid |-> n.previous[f].valid]
                   ELSE n.previous[f]]
           q == [f \in Fields |-> IF f \in asking
                   THEN [value |-> value[f], own |-> TRUE] ELSE n.flight[f]]
           k == n.count + Cardinality(asking \ n.pending)
           m == [n EXCEPT !.previous = p, !.flight = q,
                          !.pending = @ \cup asking, !.count = k]
<1>1. Ask(n, fs) = m
  BY DEF Ask, NetInv, NetType
<1>2. m.previous = p /\ m.flight = q /\ m.pending = n.pending \cup asking
  <2> HIDE DEF p, q, k, asking
  <2>1. QED
    BY DEF NetInv, NetType
<1> HIDE DEF m
<1>3. QED
  BY <1>1, <1>2

LEMMA AskTold ==
  ASSUME PageType, NEW c, NEW n, NetInv(n, c), NetTold(n, c),
         NEW fs \in SUBSET Fields
  PROVE  NetTold(Ask(n, fs), c)
<1> DEFINE m == Ask(n, fs)
<1>1. /\ n.pending \subseteq m.pending
      /\ \A f \in Fields :
           IF f \in fs /\ Asks(n, f)
           THEN /\ f \in m.pending
                /\ m.previous[f].old = value[f]
                /\ m.flight[f].value = value[f]
           ELSE /\ m.previous[f] = n.previous[f]
                /\ m.flight[f] = n.flight[f]
  BY AskFields
<1> HIDE DEF m
<1>2. Refuted(m, c)
  BY <1>1 DEF NetTold, Refuted
<1>3. Asked(m, c)
  BY <1>1 DEF NetTold, Asked, Asks, Remote
<1>4. QED
  BY <1>2, <1>3 DEF NetTold, m

LEMMA FlagTold ==
  ASSUME NEW c, NEW n, NetInv(n, c), NEW b \in BOOLEAN
  PROVE  /\ NetTold(n, c) => NetTold([n EXCEPT !.formSubmitted = b], c)
         /\ [n EXCEPT !.formSubmitted = b].pending = n.pending
         /\ [n EXCEPT !.formSubmitted = b].previous = n.previous
<1> DEFINE m == [n EXCEPT !.formSubmitted = b]
<1>1. /\ m.previous = n.previous /\ m.flight = n.flight /\ m.pending = n.pending
  BY DEF NetInv, NetType
<1>2. QED
  BY <1>1 DEF NetTold, Refuted, Asked

(* After an answer: what it says is kept if its element still has the data *)
(* the request was made with.                                              *)
LEMMA AnsweredFields ==
  ASSUME NetInv(net, confirmed), NEW g \in Fields, NEW ok \in BOOLEAN,
         net.flight[g] # NoFlight
  PROVE  /\ Answered(g, ok).pending = net.pending \ {g}
         /\ Answered(g, ok).flight[g] = NoFlight
         /\ \A f \in Fields :
              /\ Answered(g, ok).previous[f].old = net.previous[f].old
              /\ f # g => /\ Answered(g, ok).previous[f] = net.previous[f]
                          /\ Answered(g, ok).flight[f] = net.flight[f]
         /\ \/ /\ net.previous[g].old = net.flight[g].value
               /\ Answered(g, ok).previous[g].valid = ok
            \/ net.previous[g].old = None
<1> DEFINE m == Answered(g, ok)
           p == [net.previous EXCEPT ![g].valid = IF net.flight[g].own THEN ok ELSE @]
<1>1. net \in NetType
  BY DEF NetInv
<1>2. /\ m.previous = p
      /\ m.flight = [net.flight EXCEPT ![g] = NoFlight]
      /\ m.pending = net.pending \ {g}
  BY <1>1 DEF Answered, Stopped, NetType
<1>3. net.flight[g].own \in BOOLEAN
  BY <1>1 DEF NetType, Flight
<1>4. /\ net.flight[g].own => net.previous[g].old = net.flight[g].value
      /\ ~net.flight[g].own => net.previous[g].old = None
  BY DEF NetInv, Flights, InFlight
<1>5. \A f \in Fields : /\ p[f].old = net.previous[f].old
                        /\ f # g => p[f] = net.previous[f]
  BY <1>1 DEF NetType, Previous
<1>6. net.flight[g].own => p[g].valid = ok
  BY <1>1 DEF NetType, Previous
<1> HIDE DEF p, m
<1>7. \A f \in Fields : IF f = g THEN m.flight[f] = NoFlight
                                 ELSE m.flight[f] = net.flight[f]
  BY <1>1, <1>2 DEF NetType
<1>8. m.pending = net.pending \ {g} /\ m.flight[g] = NoFlight
  BY <1>2, <1>7
<1>9. \A f \in Fields : /\ m.previous[f].old = net.previous[f].old
                        /\ f # g => /\ m.previous[f] = net.previous[f]
                                    /\ m.flight[f] = net.flight[f]
  BY <1>2, <1>5, <1>7
<1>10. \/ /\ net.previous[g].old = net.flight[g].value
          /\ m.previous[g].valid = ok
       \/ net.previous[g].old = None
  BY <1>2, <1>3, <1>4, <1>6
<1>11. QED
  BY <1>8, <1>9, <1>10 DEF m

LEMMA AnsweredTold ==
  ASSUME NetInv(net, confirmed), NetTold(net, confirmed), Confirmed(confirmed),
         NEW g \in Fields, NEW ok \in BOOLEAN, net.flight[g] # NoFlight,
         NEW c,
         c = [confirmed EXCEPT ![g] = IF ok THEN @ \cup {net.flight[g].value}
                                            ELSE @ \ {net.flight[g].value}]
  PROVE  /\ NetTold(Answered(g, ok), c)
         /\ \A f \in Fields : f # g => c[f] = confirmed[f]
         /\ ok => c[g] # {}
         /\ ~ok => net.flight[g].value \notin c[g]
<1> DEFINE m == Answered(g, ok)
<1>1. /\ m.pending = net.pending \ {g} /\ m.flight[g] = NoFlight
      /\ \A f \in Fields :
           /\ m.previous[f].old = net.previous[f].old
           /\ f # g => /\ m.previous[f] = net.previous[f]
                       /\ m.flight[f] = net.flight[f]
      /\ \/ net.previous[g].old = net.flight[g].value /\ m.previous[g].valid = ok
         \/ net.previous[g].old = None
  BY AnsweredFields
<1> HIDE DEF m
<1>2. /\ \A f \in Fields : f # g => c[f] = confirmed[f]
      /\ ok => c[g] = confirmed[g] \cup {net.flight[g].value}
      /\ ~ok => c[g] = confirmed[g] \ {net.flight[g].value}
  BY DEF Confirmed
<1>3. Refuted(m, c)
  <2> SUFFICES ASSUME NEW f \in Fields, m.previous[f].old # None,
                      ~m.previous[f].valid, f \notin m.pending
               PROVE  m.previous[f].old \notin c[f]
    BY DEF Refuted
  <2>1. CASE f = g
    BY <1>1, <1>2, <2>1
  <2>2. CASE f # g
    BY <1>1, <1>2, <2>2 DEF NetTold, Refuted
  <2>3. QED
    BY <2>1, <2>2
<1>4. Asked(m, c)
  <2>1. net.flight[g].value # Blank
    BY DEF NetTold, Asked
  <2>2. \A f \in Fields : Blank \notin c[f]
    BY <1>2, <2>1 DEF NetTold, Asked
  <2>3. \A f \in Fields : m.flight[f] # NoFlight
                             => m.flight[f].value # Blank /\ "remote" \in rules[f]
    BY <1>1 DEF NetTold, Asked
  <2>4. QED
    BY <2>2, <2>3 DEF Asked
<1>5. QED
  BY <1>2, <1>3, <1>4 DEF NetTold, m

-----------------------------------------------------------------------------
(* Faults and their reasons.                                               *)

LEMMA FaultHasReason ==
  ASSUME PageType, NEW n, NEW c, NetTold(n, c), NEW f \in Fields, Fault(n, f) # None
  PROVE  Reason(f, n, c)
<1>1. CASE LocalFault(f) # None
  BY <1>1 DEF Reason
<1>2. CASE LocalFault(f) = None
  <2>1. Known(n, f) /\ ~n.previous[f].valid
    BY <1>2 DEF Fault
  <2>2. value[f] # None
    BY FormAssumption DEF PageType
  <2>3. QED
    BY <2>1, <2>2 DEF Known, NetTold, Refuted, Reason
<1>3. QED
  BY <1>1, <1>2

(* A field that breaks a rule of the page is one form() looks at.          *)
LEMMA BrokenIsSeen ==
  ASSUME RulesInDom, NEW f \in Fields, LocalFault(f) # None
  PROVE  f \in Elements /\ \A n : Fault(n, f) # None
<1>1. rules[f] # {}
  BY DEF LocalFault, None
<1>2. QED
  BY <1>1 DEF RulesInDom, Elements, Fault

(* A bad answer while a submission waits gives a field of the summary its  *)
(* reason.                                                                 *)
LEMMA RejectedStands ==
  ASSUME FormInv, ViewInv, wish, NEW g \in Fields, Takes(g, FALSE)
  PROVE  Stands(Answered(g, FALSE), AnsweredView(g, FALSE), confirmed', edited)
<1> DEFINE m == Answered(g, FALSE)
           c == [confirmed EXCEPT ![g] = IF FALSE THEN @ \cup {net.flight[g].value}
                                                  ELSE @ \ {net.flight[g].value}]
<1>1. net.flight[g] # NoFlight /\ confirmed' = c
  BY DEF Takes
<1>2. NetInv(net, confirmed) /\ NetTold(net, confirmed) /\ Confirmed(confirmed)
  BY DEF FormInv, ViewInv
<1>3. /\ m.pending = net.pending \ {g}
      /\ \A f \in Fields : m.previous[f].old = net.previous[f].old
      /\ \/ net.previous[g].old = net.flight[g].value
         \/ net.previous[g].old = None
  BY <1>1, <1>2, AnsweredFields
<1> HIDE DEF m
<1>4. /\ \A f \in Fields : f # g => confirmed'[f] = confirmed[f]
      /\ net.flight[g].value \notin confirmed'[g]
      /\ Blank \notin confirmed'[g]
  <2>1. /\ NetTold(Answered(g, FALSE), c)
        /\ \A f \in Fields : f # g => c[f] = confirmed[f]
        /\ net.flight[g].value \notin c[g]
    <3> HIDE DEF c
    <3>1. QED
      BY <1>1, <1>2, AnsweredTold DEF c
  <2>2. QED
    BY <1>1, <2>1 DEF NetTold, Asked
<1>5. Accused(AnsweredView(g, FALSE)) = Accused(view) \cup {g}
  BY RejectedFields DEF AnsweredView, FormInv, ViewInv
<1>6. Stands(net, view, confirmed, edited)
  BY DEF ViewInv, Waiting
<1>7. g \notin edited => value[g] \notin confirmed'[g]
  <2> SUFFICES ASSUME g \notin edited PROVE value[g] \notin confirmed'[g]
    OBVIOUS
  <2>1. CASE value[g] = Blank
    BY <1>4, <2>1
  <2>2. CASE value[g] # Blank
    <3>1. "remote" \in rules[g]
      BY <1>1, <1>2 DEF NetTold, Asked
    <3>2. net.previous[g].old = value[g]
      BY <1>6, <2>2, <3>1 DEF Stands, Remote, Known
    <3>3. value[g] # None
      BY FormAssumption DEF FormInv, PageType
    <3>4. QED
      BY <1>3, <1>4, <3>2, <3>3
  <2>3. QED
    BY <2>1, <2>2
<1>8. QED
  BY <1>3, <1>4, <1>5, <1>6, <1>7 DEF Stands, Known, m

-----------------------------------------------------------------------------
(* The second invariant, step by step; FormInv is preserved already.       *)

MarkInv == FormInv /\ ViewInv

LEMMA InitView == Init => ViewInv
<1> USE FormAssumption
<1> SUFFICES ASSUME Init PROVE ViewInv
  OBVIOUS
<1>1. RulesInDom
  BY DEF Init, RulesInDom
<1>2. Tidy(view)
  BY DEF Init, Tidy, Clean
<1>3. NetTold(net, confirmed)
  BY DEF Init, NetTold, Refuted, Asked, IdleNet, NoPrevious
<1>4. QED
  BY <1>1, <1>2, <1>3 DEF Init, ViewInv

LEMMA LoadView == Load => ViewInv'
<1> USE FormAssumption
<1> SUFFICES ASSUME Load PROVE ViewInv'
  OBVIOUS
<1>1. RulesInDom'
  BY DEF Load, RulesInDom
<1>2. Tidy(view)'
  BY DEF Load, Tidy, Clean, Accused
<1>3. NetTold(net, confirmed)'
  BY DEF Load, NetTold, Refuted, Asked, IdleNet, NoPrevious
<1>4. QED
  BY <1>1, <1>2, <1>3 DEF Load, ViewInv, NoWish

(* Steps that leave the page as it is, by their effect on the rest.        *)
LEMMA SamePageView ==
  ASSUME MarkInv, UNCHANGED Page,
         Tidy(view'), NetTold(net', confirmed'),
         wish' => wish \/ attached,
         wish' => Stands(net', view', confirmed', edited')
  PROVE  ViewInv'
<1>1. RulesInDom' /\ Tidy(view)'
  BY DEF MarkInv, ViewInv, RulesInDom, Page, Tidy, Accused
<1>2. NetTold(net, confirmed)'
  BY DEF NetTold, Refuted, Asked, Page
<1>3. wish' => Waiting'
  <2>1. wish' => attached'
    BY DEF MarkInv, ViewInv, Waiting, Page
  <2>2. wish' => Stands(net, view, confirmed, edited)'
    BY SamePage DEF MarkInv, Stands, Known, Accused, Page
  <2>3. QED
    BY <2>1, <2>2 DEF Waiting
<1>4. QED
  BY <1>1, <1>2, <1>3 DEF ViewInv

LEMMA PageStepsView ==
  ASSUME MarkInv, \/ \E f \in Fields : AddField(f)
                  \/ Parse
                  \/ \E f \in Fields, x \in Values : Edit(f, x)
  PROVE  ViewInv'
<1>0. UNCHANGED <<net, view, confirmed>>
  BY DEF AddField, Parse, Edit
<1>1. Tidy(view)'
  BY <1>0 DEF MarkInv, ViewInv, Tidy, Accused
<1>2. ASSUME NEW f \in Fields, AddField(f) PROVE ViewInv'
  <2>1. RulesInDom'
    BY <1>2 DEF AddField, MarkInv, ViewInv, RulesInDom
  <2>2. NetTold(net, confirmed)'
    BY <1>2 DEF AddField, MarkInv, ViewInv, NetTold, Refuted, Asked
  <2>3. wish' => Waiting'
    BY <1>2 DEF AddField, MarkInv, ViewInv, Waiting, Stands, LocalFault, Remote,
                Known, Accused, wishes
  <2>4. QED
    BY <1>1, <2>1, <2>2, <2>3 DEF ViewInv
<1>3. ASSUME Parse PROVE ViewInv'
  <2>1. RulesInDom'
    BY <1>3 DEF Parse, MarkInv, ViewInv, RulesInDom
  <2>2. CASE attached
    <3>1. NetTold(net, confirmed)'
      BY <1>3, <2>2 DEF Parse, MarkInv, ViewInv, NetTold, Refuted, Asked
    <3>2. wish' => Waiting'
      BY <1>3, <2>2 DEF Parse, MarkInv, ViewInv, Waiting, Stands, LocalFault, Remote,
                        Known, Accused, wishes
    <3>3. QED
      BY <1>1, <2>1, <3>1, <3>2 DEF ViewInv
  <2>3. CASE ~attached
    <3>1. \A f \in Fields : net.flight[f] = NoFlight
      BY <2>3 DEF MarkInv, FormInv, PageType, ViewInv, NetTold, Asked
    <3>2. NetTold(net, confirmed)'
      BY <1>0, <3>1 DEF MarkInv, ViewInv, NetTold, Refuted, Asked
    <3>3. ~wish'
      BY <1>3, <2>3 DEF Parse, MarkInv, ViewInv, Waiting, wishes
    <3>4. QED
      BY <1>1, <2>1, <3>2, <3>3 DEF ViewInv
  <2>4. QED
    BY <2>2, <2>3
<1>4. ASSUME NEW f \in Fields, NEW x \in Values, Edit(f, x) PROVE ViewInv'
  <2>1. RulesInDom'
    BY <1>4 DEF Edit, MarkInv, ViewInv, RulesInDom
  <2>2. NetTold(net, confirmed)'
    BY <1>4 DEF Edit, MarkInv, ViewInv, NetTold, Refuted, Asked
  <2>3. wish' => Waiting'
    <3> SUFFICES ASSUME wish, NEW g \in Fields, g \notin edited'
                 PROVE  /\ LocalFault(g)' = None
                        /\ Remote(g)' => Known(net, g)'
                        /\ g \in Accused(view)' => value'[g] \notin confirmed'[g]
                                                 \/ g \in net'.pending
      BY <1>4 DEF Edit, Waiting, Stands, MarkInv, ViewInv
    <3>1. g \notin edited /\ value'[g] = value[g]
      BY <1>4 DEF Edit, MarkInv, FormInv, PageType
    <3>2. /\ LocalFault(g) = None
          /\ Remote(g) => Known(net, g)
          /\ g \in Accused(view) => value[g] \notin confirmed[g] \/ g \in net.pending
      BY <3>1 DEF MarkInv, ViewInv, Waiting, Stands
    <3>3. QED
      BY <1>0, <1>4, <3>1, <3>2 DEF Edit, LocalFault, Remote, Known, Accused
  <2>4. QED
    BY <1>1, <2>1, <2>2, <2>3 DEF ViewInv
<1>5. QED
  BY <1>2, <1>3, <1>4

(* What a check of the fields fs leaves a waiting submission with.         *)
LEMMA AskKnows ==
  ASSUME MarkInv, NEW n, NEW c, NetInv(n, c), NEW fs \in SUBSET Fields,
         NEW f \in Fields, Remote(f) => Known(n, f)
  PROVE  Remote(f) => Known(Ask(n, fs), f)
<1>1. PageType
  BY DEF MarkInv, FormInv
<1>2. IF f \in fs /\ Asks(n, f) THEN Ask(n, fs).previous[f].old = value[f]
      ELSE Ask(n, fs).previous[f] = n.previous[f]
  BY <1>1, AskFields
<1>3. QED
  BY <1>2 DEF Known

LEMMA CheckView ==
  ASSUME MarkInv, NEW g \in Fields, KeyUp(g) \/ Blur(g)
  PROVE  ViewInv'
<1> DEFINE m == Ask(net, {g})
           v == ElementView(view, net, g)
<1>0. {g} \in SUBSET Fields
  OBVIOUS
<1>1. /\ net' = m /\ view' = v /\ UNCHANGED Page
      /\ confirmed' = confirmed /\ wish' = wish /\ edited' = edited
  BY DEF KeyUp, Blur, CheckElement, wishes
<1>2. PageType /\ view \in ViewType /\ NetInv(net, confirmed) /\ NetTold(net, confirmed)
  BY DEF MarkInv, FormInv, ViewInv
<1>3. NetTold(m, confirmed)
  BY <1>0, <1>2, AskTold
<1>4. Tidy(v) /\ Accused(v) = {f \in {g} : Fault(net, f) # None}
  BY <1>2, ElementViewFields
<1>5. net.pending \subseteq m.pending
  BY <1>0, <1>2, AskFields
<1>6. ASSUME wish PROVE Stands(m, v, confirmed, edited)
  <2> SUFFICES ASSUME NEW f \in Fields \ edited
               PROVE  /\ LocalFault(f) = None
                      /\ Remote(f) => Known(m, f)
                      /\ f \in Accused(v) => value[f] \notin confirmed[f]
                                              \/ f \in m.pending
    BY DEF Stands
  <2>1. LocalFault(f) = None /\ (Remote(f) => Known(net, f))
    BY <1>6 DEF MarkInv, ViewInv, Waiting, Stands
  <2>2. Remote(f) => Known(m, f)
    BY <1>0, <1>2, <2>1, AskKnows
  <2>3. ASSUME f \in Accused(v) PROVE value[f] \notin confirmed[f] \/ f \in m.pending
    <3>1. Fault(net, f) # None
      BY <1>4, <2>3
    <3>2. Reason(f, net, confirmed)
      BY <1>2, <3>1, FaultHasReason
    <3>3. QED
      BY <1>5, <2>1, <3>2 DEF Reason
  <2>4. QED
    BY <2>1, <2>2, <2>3
<1> HIDE DEF m, v
<1>7. QED
  BY <1>1, <1>3, <1>4, <1>6, SamePageView

LEMMA SubmitView ==
  ASSUME MarkInv, Submit PROVE ViewInv'
<1> DEFINE m == Ask(net, Elements)
           k == [m EXCEPT !.formSubmitted = TRUE]
           v == FormView(view, net)
<1>0. /\ PageType /\ view \in ViewType /\ NetInv(net, confirmed)
      /\ NetTold(net, confirmed) /\ Tidy(view) /\ Elements \in SUBSET Fields
  BY ElementsAreFields DEF MarkInv, FormInv, ViewInv
<1>1. NetInv(m, confirmed) /\ NetTold(m, confirmed)
  BY <1>0, AskKeeps, AskTold DEF MarkInv, FormInv
<1>2. NetTold(k, confirmed) /\ k.previous = m.previous /\ k.pending = m.pending
  <2> HIDE DEF m
  <2>1. QED
    BY <1>1, FlagTold
<1>3. Tidy(v) /\ Accused(v) = {f \in Elements : Fault(net, f) # None}
  BY <1>0, FormViewFields
<1>4. CASE SubmitRefused
  <2>1. net' = m /\ view' = v /\ UNCHANGED Page /\ confirmed' = confirmed /\ ~wish'
    BY <1>4 DEF SubmitRefused, NoWish
  <2> HIDE DEF m, v
  <2>2. QED
    BY <1>1, <1>3, <2>1, SamePageView
<1>5. CASE SubmitWaits
  <2>1. /\ net' = k /\ view' = v /\ UNCHANGED Page /\ confirmed' = confirmed
        /\ attached /\ Passes(net) /\ edited' = {}
    BY <1>5 DEF SubmitWaits
  <2>2. Stands(k, v, confirmed, {})
    <3> SUFFICES ASSUME NEW f \in Fields
                 PROVE  /\ LocalFault(f) = None
                        /\ Remote(f) => Known(k, f)
                        /\ f \notin Accused(v)
      BY DEF Stands
    <3>1. f \notin Accused(v)
      BY <1>3, <2>1 DEF Passes
    <3>2. LocalFault(f) = None
      BY <2>1, BrokenIsSeen DEF Passes, MarkInv, ViewInv
    <3>3. ASSUME Remote(f) PROVE Known(k, f)
      <4>1. f \in Elements
        BY <3>3 DEF Remote, Elements, MarkInv, ViewInv, RulesInDom
      <4>2. CASE Asks(net, f)
        BY <1>0, <1>2, <4>1, <4>2, AskFields DEF Known
      <4>3. CASE ~Asks(net, f)
        <5>1. Known(net, f) /\ m.previous[f] = net.previous[f]
          BY <1>0, <3>2, <3>3, <4>3, AskFields DEF Asks
        <5>2. QED
          BY <1>2, <5>1 DEF Known
      <4>4. QED
        BY <4>2, <4>3
    <3>4. QED
      BY <3>1, <3>2, <3>3
  <2> HIDE DEF m, k, v
  <2>3. QED
    BY <1>2, <1>3, <2>1, <2>2, SamePageView
<1>6. CASE SubmitSends
  <2>1. /\ UNCHANGED Page /\ confirmed' = confirmed /\ ~wish'
        /\ \/ net' = m /\ view' = v
           \/ net' = net /\ view' = view
    BY <1>6 DEF SubmitSends, NoWish
  <2> HIDE DEF m, v
  <2>2. QED
    BY <1>0, <1>1, <1>3, <2>1, SamePageView
<1>7. QED
  BY <1>4, <1>5, <1>6 DEF Submit

LEMMA FailView ==
  ASSUME MarkInv, NEW g \in Fields, RequestFails(g) PROVE ViewInv'
<1> DEFINE m == [net EXCEPT !.flight[g] = NoFlight]
<1>1. /\ net' = m /\ UNCHANGED Page /\ view' = view
      /\ confirmed' = confirmed /\ wish' = wish /\ edited' = edited
  BY DEF RequestFails, wishes
<1>2. net \in NetType /\ NetTold(net, confirmed) /\ Tidy(view)
  BY DEF MarkInv, FormInv, NetInv, ViewInv
<1>3. /\ m.previous = net.previous /\ m.pending = net.pending
      /\ \A f \in Fields : m.flight[f] = IF f = g THEN NoFlight ELSE net.flight[f]
  BY <1>2 DEF NetType
<1> HIDE DEF m
<1>4. NetTold(m, confirmed)
  BY <1>2, <1>3 DEF NetTold, Refuted, Asked
<1>5. wish => Stands(m, view, confirmed, edited)
  BY <1>3 DEF MarkInv, ViewInv, Waiting, Stands, Known
<1>6. QED
  BY <1>1, <1>2, <1>4, <1>5, SamePageView

(* An answer, before anything is decided by it.                            *)
LEMMA AnsweredBasics ==
  ASSUME MarkInv, NEW g \in Fields, NEW ok \in BOOLEAN, Takes(g, ok)
  PROVE  /\ NetInv(Answered(g, ok), confirmed') /\ Confirmed(confirmed')
         /\ NetTold(Answered(g, ok), confirmed')
         /\ AnsweredView(g, ok) \in ViewType /\ Tidy(AnsweredView(g, ok))
         /\ UNCHANGED Page /\ sent = FALSE
         /\ PageType /\ Elements \in SUBSET Fields
         /\ ok => confirmed'[g] # {}
         /\ net.flight[g] # NoFlight /\ Answered(g, ok).flight[g] = NoFlight
         /\ \A f \in Fields : Known(net, f) => Known(Answered(g, ok), f)
<1> DEFINE c == [confirmed EXCEPT ![g] = IF ok THEN @ \cup {net.flight[g].value}
                                               ELSE @ \ {net.flight[g].value}]
<1>1. /\ net.flight[g] # NoFlight /\ confirmed' = c
      /\ UNCHANGED Page /\ sent = FALSE
  BY DEF Takes, MarkInv, FormInv
<1>2. /\ NetInv(net, confirmed) /\ NetTold(net, confirmed) /\ Confirmed(confirmed)
      /\ view \in ViewType /\ Tidy(view) /\ PageType
  BY DEF MarkInv, FormInv, ViewInv
<1>3. NetInv(Answered(g, ok), c) /\ Confirmed(c)
  <2> HIDE DEF c
  <2>1. QED
    BY <1>1, <1>2, AnswerKeeps DEF c
<1>4. NetTold(Answered(g, ok), c) /\ (ok => c[g] # {})
  <2> HIDE DEF c
  <2>1. QED
    BY <1>1, <1>2, AnsweredTold DEF c
<1>5. AnsweredView(g, ok) \in ViewType
  BY <1>2, AnsweredViewType
<1>6. Tidy(AnsweredView(g, ok))
  BY <1>2, AcceptedFields, RejectedFields DEF AnsweredView
<1>7. /\ Answered(g, ok).flight[g] = NoFlight
      /\ \A f \in Fields : Answered(g, ok).previous[f].old = net.previous[f].old
  BY <1>1, <1>2, AnsweredFields
<1> HIDE DEF c
<1>8. QED
  BY <1>1, <1>2, <1>3, <1>4, <1>5, <1>6, <1>7, ElementsAreFields DEF Known

LEMMA AnswerView ==
  ASSUME MarkInv, NEW g \in Fields, Answer(g) PROVE ViewInv'
<1>1. ASSUME NEW ok \in BOOLEAN, AnswerNoted(g, ok) PROVE ViewInv'
  <2>1. /\ Takes(g, ok) /\ net' = Answered(g, ok) /\ view' = AnsweredView(g, ok)
        /\ wish' = wish /\ edited' = edited
    BY <1>1 DEF AnswerNoted, wishes
  <2>2. ASSUME wish
        PROVE  Stands(Answered(g, ok), AnsweredView(g, ok), confirmed', edited)
    <3>1. CASE ok = TRUE
      <4>1. Accused(AnsweredView(g, TRUE)) = {}
        BY AcceptedFields DEF AnsweredView, MarkInv, FormInv
      <4>2. \A f \in Fields : Known(net, f) => Known(Answered(g, ok), f)
        BY <2>1, AnsweredBasics
      <4>3. QED
        BY <2>2, <3>1, <4>1, <4>2 DEF MarkInv, ViewInv, Waiting, Stands
    <3>2. CASE ok = FALSE
      BY <2>1, <2>2, <3>2, RejectedStands DEF MarkInv
    <3>3. QED
      BY <3>1, <3>2
  <2>3. QED
    BY <2>1, <2>2, AnsweredBasics, SamePageView
<1>2. CASE AnswerRefuses(g)
  <2> DEFINE n == Answered(g, FALSE)
             v == AnsweredView(g, FALSE)
  <2>1. /\ Takes(g, FALSE) /\ net' = [n EXCEPT !.formSubmitted = FALSE]
        /\ view' = Summarise(v) /\ ~wish'
    BY <1>2 DEF AnswerRefuses, NoWish
  <2>2. /\ NetInv(n, confirmed') /\ NetTold(n, confirmed') /\ v \in ViewType
        /\ Tidy(v) /\ UNCHANGED Page
    BY <2>1, AnsweredBasics
  <2> HIDE DEF n, v
  <2>3. NetTold(net', confirmed')
    BY <2>1, <2>2, FlagTold
  <2>4. Tidy(view')
    BY <2>1, <2>2, SummariseFields DEF Tidy
  <2>5. QED
    BY <2>1, <2>2, <2>3, <2>4, SamePageView
<1>3. CASE AnswerFindsFault(g)
  <2> DEFINE n == Answered(g, TRUE)
             v == AnsweredView(g, TRUE)
  <2>1. /\ Takes(g, TRUE) /\ net' = Ask(n, Elements)
        /\ view' = FormView(v, n) /\ ~wish'
    BY <1>3 DEF AnswerFindsFault, NoWish
  <2>2. /\ NetInv(n, confirmed') /\ NetTold(n, confirmed') /\ v \in ViewType
        /\ UNCHANGED Page /\ PageType /\ Elements \in SUBSET Fields
    BY <2>1, AnsweredBasics
  <2> HIDE DEF n, v
  <2>3. NetTold(net', confirmed') /\ Tidy(view')
    BY <2>1, <2>2, AskTold, FormViewFields
  <2>4. QED
    BY <2>1, <2>2, <2>3, SamePageView
<1>4. CASE AnswerSubmits(g)
  <2> DEFINE n == Answered(g, TRUE)
             v == AnsweredView(g, TRUE)
             m == Ask(n, Elements)
             w == FormView(v, n)
             k == Ask(m, Elements)
  <2>1. /\ Takes(g, TRUE) /\ net' = [k EXCEPT !.formSubmitted = FALSE]
        /\ view' = FormView(w, m)
        /\ ~wish'
    BY <1>4 DEF AnswerSubmits, NoWish
  <2>2. /\ NetInv(n, confirmed') /\ NetTold(n, confirmed') /\ v \in ViewType
        /\ UNCHANGED Page /\ PageType /\ Elements \in SUBSET Fields
        /\ Confirmed(confirmed')
        /\ \A f \in Fields : Known(net, f) => Known(n, f)
    BY <2>1, AnsweredBasics
  <2> HIDE DEF n, v
  <2>3. NetInv(m, confirmed') /\ NetTold(m, confirmed') /\ w \in ViewType
    BY <2>2, AskKeeps, AskTold, FormViewType
  <2> HIDE DEF m, w
  <2>4. NetInv(k, confirmed') /\ NetTold(k, confirmed')
    BY <2>2, <2>3, AskKeeps, AskTold
  <2>5. /\ Tidy(view')
        /\ Accused(view') = {f \in Elements : Fault(m, f) # None}
    BY <2>1, <2>2, <2>3, FormViewFields
  <2> HIDE DEF k
  <2>7. NetTold(net', confirmed')
    BY <2>1, <2>4, FlagTold
  <2>8. QED
    BY <2>1, <2>2, <2>5, <2>7, SamePageView
<1>5. QED
  BY <1>1, <1>2, <1>3, <1>4 DEF Answer

LEMMA ResetView ==
  ASSUME MarkInv, Reset PROVE ViewInv'
<1> DEFINE p == [f \in Fields |-> IF f \in Elements THEN NoPrevious ELSE net.previous[f]]
           q == [f \in Fields |-> IF f \in Elements /\ net.flight[f] # NoFlight
                                  THEN [net.flight[f] EXCEPT !.own = FALSE]
                                  ELSE net.flight[f]]
           m == [net EXCEPT !.previous = p, !.flight = q]
           v == [view EXCEPT !.errors = [f \in Fields |-> None], !.passed = {},
                   !.current = {}, !.submitted = {}, !.invalid = {},
                   !.marked = @ \ Elements, !.lit = {}, !.shown = FALSE]
<1>1. /\ UNCHANGED <<inDom, attached, rules, confirmed>> /\ ~wish'
      /\ \/ net' = m /\ view' = v
         \/ net' = net /\ view' = view
  BY DEF Reset, NoWish
<1>2. /\ net \in NetType /\ view \in ViewType
      /\ NetTold(net, confirmed) /\ Tidy(view)
  BY DEF MarkInv, FormInv, NetInv, ViewInv
<1>3. m.previous = p /\ m.flight = q /\ m.pending = net.pending
  <2> HIDE DEF p, q
  <2>1. QED
    BY <1>2 DEF NetType
<1>4. NetTold(m, confirmed)
  <2>1. Refuted(m, confirmed)
    BY <1>2, <1>3 DEF NetTold, Refuted, NoPrevious
  <2>2. \A f \in Fields : /\ q[f].value = net.flight[f].value
                          /\ net.flight[f] = NoFlight => q[f] = NoFlight
    BY <1>2 DEF NetType, Flight
  <2>3. Asked(m, confirmed)
    <3> HIDE DEF q, m
    <3>1. QED
      BY <1>2, <1>3, <2>2 DEF NetTold, Asked
  <2>4. QED
    BY <2>1, <2>3 DEF NetTold
<1>5. Tidy(v)
  <2>1. v.current = {} /\ v.lit = {}
    BY <1>2 DEF ViewType
  <2>2. QED
    BY <2>1 DEF Tidy
<1> HIDE DEF m, v
<1>6. RulesInDom'
  BY <1>1 DEF MarkInv, ViewInv, RulesInDom
<1>7. NetTold(net, confirmed)'
  BY <1>1, <1>2, <1>4 DEF NetTold, Refuted, Asked
<1>8. Tidy(view)'
  BY <1>1, <1>2, <1>5 DEF Tidy, Accused
<1>9. QED
  BY <1>1, <1>6, <1>7, <1>8 DEF ViewInv

LEMMA StutterView ==
  ASSUME MarkInv, UNCHANGED vars PROVE ViewInv'
BY DEF MarkInv, ViewInv, RulesInDom, Tidy, Accused, NetTold, Refuted, Asked,
       Waiting, Stands, LocalFault, Remote, Known, vars, wishes

LEMMA NextMark == MarkInv /\ [Next]_vars => MarkInv'
<1> SUFFICES ASSUME MarkInv, [Next]_vars PROVE ViewInv'
  BY NextInv DEF MarkInv
<1>1. CASE \E f \in Fields : AddField(f) \/ \E x \in Typed[f] : Edit(f, x)
  BY <1>1, PageStepsView, FormAssumption
<1>2. CASE \E f \in Fields : KeyUp(f) \/ Blur(f)
  BY <1>2, CheckView
<1>3. CASE \E f \in Fields : Answer(f) \/ RequestFails(f)
  BY <1>3, AnswerView, FailView
<1>4. CASE Parse \/ Submit \/ Reset \/ Load
  BY <1>4, PageStepsView, SubmitView, ResetView, LoadView
<1>5. CASE UNCHANGED vars
  BY <1>5, StutterView
<1>6. QED
  BY <1>1, <1>2, <1>3, <1>4, <1>5 DEF Next

LEMMA MarkHolds == Spec => []MarkInv
<1>1. Init => MarkInv
  BY InitInv, InitView DEF MarkInv
<1>2. QED
  BY <1>1, NextMark, PTL DEF Spec

-----------------------------------------------------------------------------
(* What form() and element() do to the marks and messages of fields that   *)
(* break a rule of the page: nothing.                                      *)

Loses(w, v, f) == f \in w.marked \ v.marked \/ f \in w.lit \ v.lit

LEMMA FormLosesNothing ==
  ASSUME PageType, RulesInDom, NEW w \in ViewType, NEW n, NEW u,
         NEW f \in Fields, LocalFault(f) # None
  PROVE  ~Loses(u, FormView(w, n), f)
<1>1. f \in Accused(FormView(w, n))
  BY BrokenIsSeen, FormViewFields
<1>2. QED
  BY <1>1, FormViewFields DEF Loses

LEMMA ElementLosesNothing ==
  ASSUME RulesInDom, NEW w \in ViewType, NEW n, NEW g \in Fields,
         NEW f \in Fields, LocalFault(f) # None
  PROVE  ~Loses(w, ElementView(w, n, g), f)
<1>1. Fault(n, f) # None
  BY BrokenIsSeen
<1>2. QED
  BY <1>1, ElementViewFields DEF Loses

(* The two ways to lose a mark or a message that TakenBackForCause grants. *)
Cleared == view'.lit = {} /\ view'.current = {}

GoodAnswer(f) ==
  \E g \in Fields :
    /\ net.flight[g] # NoFlight /\ net'.flight[g] = NoFlight
    /\ confirmed'[g] # {}
    /\ g = f \/ f \in view.current

LEMMA AnswerLoses ==
  ASSUME MarkInv, NEW g \in Fields, Answer(g),
         NEW f \in Fields, LocalFault(f) # None, Loses(view, view', f)
  PROVE  GoodAnswer(f)
<1>1. PageType /\ RulesInDom /\ view \in ViewType /\ Tidy(view)
  BY DEF MarkInv, FormInv, ViewInv
<1>2. ASSUME NEW ok \in BOOLEAN, AnswerNoted(g, ok) PROVE GoodAnswer(f)
  <2>1. Takes(g, ok) /\ net' = Answered(g, ok) /\ view' = AnsweredView(g, ok)
    BY <1>2 DEF AnswerNoted
  <2>2. /\ net.flight[g] # NoFlight /\ net'.flight[g] = NoFlight
        /\ ok => confirmed'[g] # {}
    BY <2>1, AnsweredBasics
  <2>3. CASE ok = TRUE
    <3>1. g = f \/ f \in view.current
      BY <1>1, <2>1, <2>3, AcceptedFields DEF AnsweredView, Loses
    <3>2. QED
      BY <2>2, <2>3, <3>1 DEF GoodAnswer
  <2>4. CASE ok = FALSE
    BY <1>1, <2>1, <2>4, RejectedFields DEF AnsweredView, Loses
  <2>5. QED
    BY <2>3, <2>4
<1>3. CASE AnswerRefuses(g)
  <2>1. view' = Summarise(RejectedView(view, g)) /\ Takes(g, FALSE)
    BY <1>3 DEF AnswerRefuses, AnsweredView
  <2>2. RejectedView(view, g) \in ViewType
    BY <1>1, AnsweredViewType DEF AnsweredView
  <2>3. /\ view'.marked = RejectedView(view, g).marked
        /\ view'.lit = RejectedView(view, g).lit
    BY <2>1, <2>2, SummariseFields
  <2>4. QED
    BY <1>1, <2>3, RejectedFields DEF Loses
<1>4. CASE AnswerFindsFault(g)
  <2>1. view' = FormView(AnsweredView(g, TRUE), Answered(g, TRUE)) /\ Takes(g, TRUE)
    BY <1>4 DEF AnswerFindsFault
  <2>2. QED
    BY <1>1, <2>1, AnsweredBasics, FormLosesNothing
<1>5. CASE AnswerSubmits(g)
  <2>1. PICK w, m : w = FormView(AnsweredView(g, TRUE), Answered(g, TRUE))
                    /\ view' = FormView(w, m) /\ Takes(g, TRUE)
    BY <1>5 DEF AnswerSubmits
  <2>2. w \in ViewType
    BY <1>1, <2>1, AnsweredBasics, FormViewType
  <2>3. QED
    BY <1>1, <2>1, <2>2, FormLosesNothing
<1>6. QED
  BY <1>2, <1>3, <1>4, <1>5 DEF Answer

LEMMA OtherLoses ==
  ASSUME MarkInv, [Next]_vars, \A g \in Fields : ~Answer(g),
         NEW f \in Fields, LocalFault(f) # None, Loses(view, view', f)
  PROVE  Cleared
<1>1. PageType /\ RulesInDom /\ view \in ViewType
  BY DEF MarkInv, FormInv, ViewInv
<1>2. view' # view
  BY DEF Loses
<1>3. CASE \E g \in Fields : \/ AddField(g) \/ RequestFails(g)
                             \/ \E x \in Typed[g] : Edit(g, x)
  BY <1>2, <1>3 DEF AddField, RequestFails, Edit
<1>4. CASE \E g \in Fields : KeyUp(g) \/ Blur(g)
  <2>1. PICK g \in Fields : view' = ElementView(view, net, g)
    BY <1>4 DEF KeyUp, Blur, CheckElement
  <2>2. QED
    BY <1>1, <2>1, ElementLosesNothing
<1>5. CASE Submit
  <2>1. view' = FormView(view, net)
    BY <1>2, <1>5 DEF Submit, SubmitRefused, SubmitWaits, SubmitSends
  <2>2. QED
    BY <1>1, <2>1, FormLosesNothing
<1>6. CASE Reset
  BY <1>1, <1>2, <1>6 DEF Reset, Cleared, ViewType
<1>7. CASE Load
  BY <1>7 DEF Load, Clean, Cleared
<1>8. CASE Parse \/ UNCHANGED vars
  BY <1>2, <1>8 DEF Parse, vars
<1>9. QED
  BY <1>3, <1>4, <1>5, <1>6, <1>7, <1>8 DEF Next

(* A field whose value breaks a rule of the page loses its mark or its     *)
(* message only by a reset, a new page, or a good answer to a remote check *)
(* - its own, or while it is one of the fields looked at last.             *)
THEOREM MarksTakenBackForCause == Spec => TakenBackForCause
<1> DEFINE Fine == \A f \in Fields :
                     /\ LocalFault(f) # None
                     /\ f \in view.marked \ view'.marked \/ f \in view.lit \ view'.lit
                     => \/ view'.lit = {} /\ view'.current = {}
                        \/ \E g \in Fields :
                             /\ net.flight[g] # NoFlight /\ net'.flight[g] = NoFlight
                             /\ confirmed'[g] # {}
                             /\ g = f \/ f \in view.current
<1>1. MarkInv /\ [Next]_vars => Fine
  <2> SUFFICES ASSUME MarkInv, [Next]_vars, NEW f \in Fields,
                      LocalFault(f) # None, Loses(view, view', f)
               PROVE  Cleared \/ GoodAnswer(f)
    BY DEF Loses, Cleared, GoodAnswer
  <2>1. CASE \E g \in Fields : Answer(g)
    BY <2>1, AnswerLoses
  <2>2. CASE \A g \in Fields : ~Answer(g)
    BY <2>2, OtherLoses
  <2>3. QED
    BY <2>1, <2>2
<1>2. MarkInv /\ [Next]_vars => [Fine]_vars
  BY <1>1
<1>3. QED
  BY <1>2, MarkHolds, PTL DEF Spec, TakenBackForCause

-----------------------------------------------------------------------------
(* How a submission that waits ends.                                       *)

Explained(w, n, c) ==
  /\ w.shown
  /\ w.summary # {}
  /\ \A item \in w.summary : Reason(item[1], n, c) \/ item[1] \in edited

(* A form that does not pass comes up with its faults; the requests that   *)
(* are started with the check are no less pending.                         *)
LEMMA FormExplains ==
  ASSUME PageType, NEW w \in ViewType, NEW n, NEW c, NetTold(n, c), ~Passes(n),
         NEW m, n.pending \subseteq m.pending
  PROVE  Explained(FormView(w, n), m, c)
<1>1. /\ FormView(w, n).shown
      /\ FormView(w, n).summary # {}
      /\ \A item \in FormView(w, n).summary :
           item[1] \in Fields /\ Fault(n, item[1]) # None
  BY FormViewFields
<1>2. \A item \in FormView(w, n).summary : Reason(item[1], n, c)
  BY <1>1, FaultHasReason
<1>3. QED
  BY <1>1, <1>2 DEF Explained, Reason

LEMMA SubmitExplains ==
  ASSUME MarkInv, wish, Submit, ~wish', ~sent'
  PROVE  Explained(view', net', confirmed')
<1>0. /\ PageType /\ view \in ViewType /\ NetInv(net, confirmed)
      /\ NetTold(net, confirmed) /\ Elements \in SUBSET Fields
  BY ElementsAreFields DEF MarkInv, FormInv, ViewInv
<1>1. /\ ~Passes(net) /\ net' = Ask(net, Elements) /\ view' = FormView(view, net)
      /\ confirmed' = confirmed
  BY DEF Submit, SubmitRefused, SubmitWaits, SubmitSends
<1>2. net.pending \subseteq Ask(net, Elements).pending
  BY <1>0, AskFields
<1>3. QED
  BY <1>0, <1>1, <1>2, FormExplains

LEMMA AnswerExplains ==
  ASSUME MarkInv, NEW g \in Fields, wish, Answer(g), ~wish', ~sent'
  PROVE  Explained(view', net', confirmed') \/ DroppedTyping
<1>1. ASSUME NEW ok \in BOOLEAN, AnswerNoted(g, ok) PROVE FALSE
  BY <1>1 DEF AnswerNoted, wishes
<1>2. CASE AnswerRefuses(g)
  <2> DEFINE n == Answered(g, FALSE)
             v == AnsweredView(g, FALSE)
  <2>1. /\ Takes(g, FALSE) /\ net' = [n EXCEPT !.formSubmitted = FALSE]
        /\ view' = Summarise(v)
    BY <1>2 DEF AnswerRefuses
  <2>2. NetInv(n, confirmed') /\ v \in ViewType
    BY <2>1, AnsweredBasics
  <2>3. Stands(n, v, confirmed', edited)
    BY <2>1, RejectedStands DEF MarkInv
  <2>4. g \in Accused(v)
    BY RejectedFields DEF AnsweredView, MarkInv, FormInv, ViewInv
  <2> HIDE DEF n, v
  <2>5. net'.pending = n.pending
    BY <2>1, <2>2, FlagTold
  <2>6. /\ view'.summary = {<<f, v.errors[f]>> : f \in Accused(v)}
        /\ view'.shown
    BY <2>1, <2>2, <2>4, SummariseFields
  <2>7. ASSUME NEW item \in view'.summary
        PROVE  Reason(item[1], net', confirmed') \/ item[1] \in edited
    <3>1. PICK f \in Accused(v) : item = <<f, v.errors[f]>>
      BY <2>6
    <3>2. f \in Fields /\ item[1] = f
      BY <3>1, AccusedType
    <3>3. QED
      BY <2>3, <2>5, <3>1, <3>2 DEF Stands, Reason
  <2>8. view'.summary # {}
    <3>1. <<g, v.errors[g]>> \in view'.summary
      BY <2>4, <2>6
    <3>2. QED
      BY <3>1
  <2>9. QED
    BY <2>6, <2>7, <2>8 DEF Explained
<1>3. CASE AnswerFindsFault(g)
  <2> DEFINE n == Answered(g, TRUE)
             v == AnsweredView(g, TRUE)
  <2>1. /\ Takes(g, TRUE) /\ ~Passes(n) /\ net' = Ask(n, Elements)
        /\ view' = FormView(v, n)
    BY <1>3 DEF AnswerFindsFault
  <2>2. /\ NetInv(n, confirmed') /\ NetTold(n, confirmed') /\ v \in ViewType
        /\ PageType /\ Elements \in SUBSET Fields
    BY <2>1, AnsweredBasics
  <2> HIDE DEF n, v
  <2>3. n.pending \subseteq net'.pending
    BY <2>1, <2>2, AskFields
  <2>4. QED
    BY <2>1, <2>2, <2>3, FormExplains
<1>4. CASE AnswerSubmits(g)
  <2> DEFINE n == Answered(g, TRUE)
             v == AnsweredView(g, TRUE)
             m == Ask(n, Elements)
             w == FormView(v, n)
             k == Ask(m, Elements)
  <2>1. /\ Takes(g, TRUE) /\ net' = [k EXCEPT !.formSubmitted = FALSE]
        /\ view' = FormView(w, m) /\ (~Passes(m) \/ m.count # 0)
        /\ n.count = 0
    BY <1>4 DEF AnswerSubmits, Decides
  <2>2. /\ NetInv(n, confirmed') /\ NetTold(n, confirmed') /\ v \in ViewType
        /\ PageType /\ Elements \in SUBSET Fields /\ Confirmed(confirmed')
        /\ \A f \in Fields : Known(net, f) => Known(n, f)
    BY <2>1, AnsweredBasics
  <2> HIDE DEF n, v
  <2>3. NetInv(m, confirmed') /\ NetTold(m, confirmed') /\ w \in ViewType
    BY <2>2, AskKeeps, AskTold, FormViewType
  <2> HIDE DEF m, w
  <2>4. NetInv(k, confirmed') /\ m.pending \subseteq k.pending
    BY <2>2, <2>3, AskKeeps, AskFields
  <2> HIDE DEF k
  <2>5. net'.pending = k.pending
    BY <2>1, <2>4, FlagTold
  <2>6. CASE ~Passes(m)
    BY <2>1, <2>2, <2>3, <2>4, <2>5, <2>6, FormExplains
  <2>7. CASE Passes(m) /\ m.count # 0
    <3>1. Accused(view') = {}
      BY <2>1, <2>2, <2>3, <2>7, FormViewFields DEF Passes
    <3>2. n.pending = {} /\ m.pending # {}
      <4>1. IsFiniteSet(n.pending) /\ n.count = Cardinality(n.pending)
        BY <2>2, FormAssumption, FS_Subset DEF NetInv, Balance, NetType
      <4>2. m.count = Cardinality(m.pending)
        BY <2>3 DEF NetInv, Balance
      <4>3. QED
        BY <2>1, <2>7, <4>1, <4>2, FS_EmptySet
    <3>3. PICK f \in m.pending : f \in Elements /\ Asks(n, f)
      BY <2>2, <3>2, AskFields DEF m
    <3>4. f \in Fields /\ Remote(f) /\ ~Known(net, f)
      BY <2>2, <3>3 DEF Asks
    <3>5. f \in edited
      BY <3>4 DEF MarkInv, ViewInv, Waiting, Stands
    <3>6. QED
      BY <2>4, <2>5, <3>1, <3>3, <3>5 DEF DroppedTyping
  <2>8. QED
    BY <2>1, <2>6, <2>7
<1>5. QED
  BY <1>1, <1>2, <1>3, <1>4 DEF Answer

LEMMA StepEnds ==
  ASSUME MarkInv, [Next]_vars, wish, ~wish'
  PROVE  sent' \/ Reset \/ SummaryExplains \/ DroppedTyping
<1> SUFFICES ASSUME ~sent', ~Reset PROVE SummaryExplains \/ DroppedTyping
  OBVIOUS
<1>0. Explained(view', net', confirmed') => SummaryExplains
  BY DEF Explained, Reason, SummaryExplains
<1>1. CASE \E g \in Fields : Answer(g)
  BY <1>0, <1>1, AnswerExplains
<1>2. CASE Submit
  BY <1>0, <1>2, SubmitExplains
<1>3. CASE Load
  BY <1>3 DEF Load, MarkInv, FormInv
<1>4. CASE \/ \E g \in Fields : \/ AddField(g) \/ KeyUp(g) \/ Blur(g) \/ RequestFails(g)
                                \/ \E x \in Typed[g] : Edit(g, x)
           \/ Parse \/ UNCHANGED vars
  BY <1>4 DEF AddField, KeyUp, Blur, CheckElement, RequestFails, Edit, Parse, vars, wishes
<1>5. QED
  BY <1>1, <1>2, <1>3, <1>4 DEF Next

(* A submission that waits is sent, given up with a reset, or refused with *)
(* a summary of fields each of which breaks a rule, holds a value that is  *)
(* not a confirmed one, is being asked about, or was changed meanwhile. It *)
(* is dropped in silence only where the user has changed a field that is   *)
(* being asked about anew.                                                 *)
THEOREM WaitingIsSettled == Spec => WaitingEnds
<1> DEFINE Fine == wish /\ ~wish' => sent' \/ Reset \/ SummaryExplains \/ DroppedTyping
<1>1. MarkInv /\ [Next]_vars => Fine
  BY StepEnds
<1> HIDE DEF Fine
<1>2. MarkInv /\ [Next]_vars => [Fine]_vars
  BY <1>1
<1>3. QED
  BY <1>2, MarkHolds, PTL DEF Spec, WaitingEnds, Fine
=============================================================================

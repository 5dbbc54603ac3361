--------------------------- MODULE FormValidation ---------------------------
(***************************************************************************)
(* One form of a page with jquery.validate.unobtrusive.js and the part of  *)
(* jquery.validate.js it drives: parsing, validation while typing and on   *)
(* submission, remote checks answered later, messages, and resetting.      *)
(*                                                                         *)
(* A step is one browser event: the scripts run each handler to its end.   *)
(***************************************************************************)
EXTENDS Naturals, FiniteSets

CONSTANTS
  Fields,       \* the fields of the form, by name
  Values,       \* what a field may contain
  Typed,        \* what is typed into each field
  Blank,        \* the empty value
  WellFormed,   \* the values that match the pattern of a "regex" attribute
  Attr,         \* the data-val attributes of each field
  Replace,      \* the fields whose message is written (data-valmsg-replace)
  AtLoad,       \* the fields that are in the page when it is loaded
  Failures      \* whether a remote check may fail without an answer

None == "none"

ASSUME FormAssumption ==
  /\ IsFiniteSet(Fields)
  /\ Blank \in Values /\ None \notin Values
  /\ WellFormed \subseteq Values
  /\ Typed \in [Fields -> SUBSET Values]
  /\ Attr \in [Fields -> SUBSET {"required", "regex", "remote"}]
  /\ Replace \subseteq Fields
  /\ AtLoad \subseteq Fields
  /\ Failures \in BOOLEAN

VARIABLES
  value,        \* what each field contains
  inDom,        \* the fields in the page
  attached,     \* the form has a validator
  rules,        \* the validator's own rules: a copy of the options' rules
  net,          \* the validator's remote checks
  view,         \* the validator's findings and what the page shows of them
  sent,         \* the form has been submitted to the server
  confirmed,    \* history: values whose last remote check was passed
  wish,         \* history: a submission waits for remote checks
  edited        \* history: the fields changed while it does

wishes == <<wish, edited>>

vars == <<value, inDom, attached, rules, net, view, sent, confirmed, wishes>>

-----------------------------------------------------------------------------
(* The remote checks.  previous is the data "previousValue" of an element, *)
(* count the validator's pendingRequest; flight is the request under way,  *)
(* own when its callback holds the element's present previousValue.        *)

NoPrevious == [old |-> None, valid |-> TRUE]
NoFlight   == [value |-> None, own |-> FALSE]

IdleNet ==
  [previous |-> [f \in Fields |-> NoPrevious], pending |-> {}, count |-> 0,
   flight |-> [f \in Fields |-> NoFlight], formSubmitted |-> FALSE]

(* elements(): the fields in the page that have rules.                     *)
Elements == {f \in inDom : rules[f] # {}}

Remote(f) == "remote" \in rules[f] /\ value[f] # Blank

(* check(): "required" comes first and "remote" last.                      *)
LocalFault(f) ==
  IF "required" \in rules[f] /\ value[f] = Blank THEN "required"
  ELSE IF "regex" \in rules[f] /\ value[f] \notin WellFormed \cup {Blank} THEN "regex"
  ELSE None

Known(n, f) == n.previous[f].old = value[f]

Asks(n, f) == LocalFault(f) = None /\ Remote(f) /\ ~Known(n, f)

Fault(n, f) ==
  IF LocalFault(f) # None THEN LocalFault(f)
  ELSE IF Remote(f) /\ Known(n, f) /\ ~n.previous[f].valid THEN "remote"
  ELSE None

(* Not the code: every request is counted, also for a pending field.       *)
AskUnguarded(n, fs) ==
  LET asking == {f \in fs : Asks(n, f)}
  IN  [n EXCEPT
        !.previous = [f \in Fields |-> IF f \in asking
                        THEN [old |-> value[f], valid |-> @[f].valid] ELSE @[f]],
        !.flight = [f \in Fields |-> IF f \in asking
                        THEN [value |-> value[f], own |-> TRUE] ELSE @[f]],
        !.pending = @ \cup asking,
        !.count = @ + Cardinality(asking)]

(* Not the code: the value asked about is not kept as previous.old.        *)
AskForgets(n, fs) ==
  LET asking == {f \in fs : Asks(n, f)}
  IN  [n EXCEPT
        !.flight = [f \in Fields |-> IF f \in asking
                        THEN [value |-> value[f], own |-> TRUE] ELSE @[f]],
        !.pending = @ \cup asking,
        !.count = @ + Cardinality(asking \ n.pending)]

(* The remote method for the fields fs being checked: a value that was not *)
(* the last one asked about is sent; $.ajax in mode "abort" gives up the   *)
(* request for the same field that is still under way.                     *)
Ask(n, fs) ==
  LET asking == {f \in fs : Asks(n, f)}
  IN  [n EXCEPT
        !.previous = [f \in Fields |-> IF f \in asking
                        THEN [old |-> value[f], valid |-> @[f].valid] ELSE @[f]],
        !.flight = [f \in Fields |-> IF f \in asking
                        THEN [value |-> value[f], own |-> TRUE] ELSE @[f]],
        !.pending = @ \cup asking,
        !.count = @ + Cardinality(asking \ n.pending)]

(* stopRequest, up to the question whether a submission waits.             *)
Stopped(n, f) ==
  [n EXCEPT !.count = IF @ > 0 THEN @ - 1 ELSE 0,
            !.pending = @ \ {f},
            !.flight[f] = NoFlight]

Passes(n) == \A f \in Elements : Fault(n, f) = None

-----------------------------------------------------------------------------
(* What is found and shown.  errors is the validator's errorMap, passed    *)
(* its successList, current its currentElements, invalid the names in its  *)
(* map of that name; marked are the fields with the class for errors, lit  *)
(* the messages with theirs, text what the messages say.                   *)

Clean ==
  [errors |-> [f \in Fields |-> None], passed |-> {}, current |-> {},
   submitted |-> {}, invalid |-> {}, marked |-> {}, lit |-> {},
   text |-> [f \in Fields |-> None], summary |-> {}, shown |-> FALSE]

Accused(w) == {f \in Fields : w.errors[f] # None}

(* check() of every field in fs.                                           *)
Checked(w, n, fs) ==
  [w EXCEPT
    !.errors = [f \in Fields |-> IF f \in fs THEN Fault(n, f) ELSE None],
    !.passed = {f \in fs : /\ rules[f] # {}
                           /\ Fault(n, f) = None
                           /\ ~Asks(n, f)},
    !.current = fs,
    !.submitted = @ \cup {f \in fs : Fault(n, f) # None}]

(* Not the code: all fields but the accused lose their mark.               *)
ShowAll(w) ==
  [w EXCEPT !.marked = Accused(w), !.lit = (@ \cup Accused(w)) \ w.passed]

(* defaultShowErrors: errors are marked and explained (onError), then what *)
(* passed is (onError and onSuccess), then whatever else was looked at     *)
(* last loses its mark.                                                    *)
Show(w) ==
  [w EXCEPT
    !.marked = (@ \cup Accused(w)) \ (w.current \ Accused(w)),
    !.lit = (@ \cup Accused(w)) \ w.passed,
    !.text = [f \in Fields |->
                IF f \in w.passed \cap Replace THEN None
                ELSE IF f \in Accused(w) \cap Replace THEN w.errors[f]
                ELSE @[f]]]

(* onErrors.                                                               *)
Summarise(w) ==
  IF Accused(w) = {} THEN w
  ELSE [w EXCEPT !.summary = {<<f, w.errors[f]>> : f \in Accused(w)},
                 !.shown = TRUE]

(* The view after form(), and after element().                             *)
FormView(w, n) ==
  LET c == Checked(w, n, Elements)
  IN  Show(Summarise([c EXCEPT !.invalid = Accused(c)]))

ElementView(w, n, f) ==
  LET c == Checked(w, n, {f})
  IN  Show([c EXCEPT !.invalid = @ \cup {f}])

(* The view after the callback of a remote check.  current is still that   *)
(* of the last check, whichever it was.                                    *)
AcceptedView(w, f) ==
  Show([w EXCEPT !.errors = [g \in Fields |-> None],
                 !.passed = {f},
                 !.invalid = @ \cup {f}])

(* Not the code: the error is not added, or is the text of the answer      *)
(* instead of the message.                                                 *)
RejectedViewMute(w, f) ==
  Show([w EXCEPT !.passed = @ \ {f}, !.invalid = @ \cup {f}])

RejectedViewFlag(w, f) ==
  Show([w EXCEPT !.errors[f] = "false", !.passed = @ \ {f}, !.invalid = @ \cup {f}])

RejectedView(w, f) ==
  Show([w EXCEPT !.errors[f] = "remote",
                 !.passed = @ \ {f},
                 !.invalid = @ \cup {f}])

-----------------------------------------------------------------------------
(* The page.                                                               *)

ParsedRules(f) == Attr[f] \cup {"__dummy__"}

Init ==
  /\ value = [f \in Fields |-> Blank]
  /\ inDom = AtLoad
  /\ attached = (AtLoad # {})
  /\ rules = [f \in Fields |-> IF f \in AtLoad THEN ParsedRules(f) ELSE {}]
  /\ net = IdleNet
  /\ view = Clean
  /\ sent = FALSE
  /\ confirmed = [f \in Fields |-> {}]
  /\ wish = FALSE
  /\ edited = {}

Page == <<value, inDom, attached, rules>>

NoWish == wish' = FALSE /\ edited' = {}

(* A script of the page inserts a field.                                   *)
AddField(f) ==
  /\ ~sent
  /\ f \notin inDom
  /\ inDom' = inDom \cup {f}
  /\ UNCHANGED <<value, attached, rules, net, view, sent, confirmed, wishes>>

(* parse: every field of the page gets its entry in the options; validate  *)
(* returns the form's validator if it has one, and only a new validator    *)
(* copies the options.                                                     *)
Parse ==
  /\ ~sent
  /\ inDom # {}
  /\ attached' = TRUE
  /\ rules' = IF attached THEN rules
              ELSE [f \in Fields |-> IF f \in inDom THEN ParsedRules(f) ELSE {}]
  /\ UNCHANGED <<value, inDom, net, view, sent, confirmed, wishes>>

(* A user, or a script, changes what a field contains.                     *)
Edit(f, x) ==
  /\ ~sent
  /\ f \in inDom
  /\ x # value[f]
  /\ value' = [value EXCEPT ![f] = x]
  /\ edited' = IF wish THEN edited \cup {f} ELSE edited
  /\ UNCHANGED <<inDom, attached, rules, net, view, sent, confirmed, wish>>

CheckElement(f) ==
  /\ net' = Ask(net, {f})
  /\ view' = ElementView(view, net, f)
  /\ UNCHANGED <<Page, sent, confirmed, wishes>>

(* onkeyup checks fields that were found wrong or checked alone before.    *)
KeyUp(f) ==
  /\ ~sent /\ attached
  /\ f \in inDom
  /\ f \in view.submitted \cup view.invalid
  /\ CheckElement(f)

(* onfocusout checks them too, and every field that is not empty.          *)
Blur(f) ==
  /\ ~sent /\ attached
  /\ f \in inDom
  /\ f \in view.submitted \/ value[f] # Blank
  /\ CheckElement(f)

(* The submit event: refused, put off until the remote checks are          *)
(* answered, or let through to the server.                                 *)
SubmitRefused ==
  /\ ~sent /\ attached
  /\ ~Passes(net)
  /\ net' = Ask(net, Elements)
  /\ view' = FormView(view, net)
  /\ NoWish
  /\ UNCHANGED <<Page, sent, confirmed>>

(* Not the code: formSubmitted is not set.                                 *)
SubmitUnmarked ==
  /\ ~sent /\ attached
  /\ Passes(net)
  /\ Ask(net, Elements).count > 0
  /\ net' = Ask(net, Elements)
  /\ view' = FormView(view, net)
  /\ wish' = TRUE
  /\ edited' = {}
  /\ UNCHANGED <<Page, sent, confirmed>>

SubmitWaits ==
  /\ ~sent /\ attached
  /\ Passes(net)
  /\ Ask(net, Elements).count > 0
  /\ net' = [Ask(net, Elements) EXCEPT !.formSubmitted = TRUE]
  /\ view' = FormView(view, net)
  /\ wish' = TRUE
  /\ edited' = {}
  /\ UNCHANGED <<Page, sent, confirmed>>

SubmitSends ==
  /\ ~sent
  /\ attached => Passes(net) /\ Ask(net, Elements).count = 0
  /\ sent' = TRUE
  /\ NoWish
  /\ IF attached THEN /\ net' = Ask(net, Elements)
                      /\ view' = FormView(view, net)
                 ELSE UNCHANGED <<net, view>>
  /\ UNCHANGED <<Page, confirmed>>

Submit == SubmitRefused \/ SubmitWaits \/ SubmitSends

-----------------------------------------------------------------------------
(* The answer to a remote check.                                           *)

(* Not the code: the verdict is not kept.                                  *)
AnsweredForgets(f, ok) == Stopped(net, f)

(* The validator after the callback has taken note of the answer and       *)
(* stopRequest has crossed out the request.                                *)
Answered(f, ok) ==
  Stopped([net EXCEPT !.previous[f].valid =
                        IF net.flight[f].own THEN ok ELSE @], f)

AnsweredView(f, ok) ==
  IF ok THEN AcceptedView(view, f) ELSE RejectedView(view, f)

Takes(f, ok) ==
  /\ ~sent
  /\ net.flight[f] # NoFlight
  /\ confirmed' = [confirmed EXCEPT ![f] =
                     IF ok THEN @ \cup {net.flight[f].value}
                           ELSE @ \ {net.flight[f].value}]
  /\ UNCHANGED Page

(* The last answer of a submission that waits.                             *)
Decides(n) == n.count = 0 /\ n.formSubmitted

AnswerNoted(f, ok) ==
  /\ Takes(f, ok)
  /\ ~Decides(Answered(f, ok))
  /\ net' = Answered(f, ok)
  /\ view' = AnsweredView(f, ok)
  /\ UNCHANGED <<sent, wishes>>

AnswerRefuses(f) ==
  /\ Takes(f, FALSE)
  /\ Decides(Answered(f, FALSE))
  /\ net' = [Answered(f, FALSE) EXCEPT !.formSubmitted = FALSE]
  /\ view' = Summarise(AnsweredView(f, FALSE))
  /\ NoWish
  /\ UNCHANGED sent

(* A good last answer has the form checked again; if something is wrong by *)
(* now, formSubmitted stays as it is.                                      *)
AnswerFindsFault(f) ==
  LET n == Answered(f, TRUE)
  IN  /\ Takes(f, TRUE)
      /\ Decides(n)
      /\ ~Passes(n)
      /\ net' = Ask(n, Elements)
      /\ view' = FormView(AnsweredView(f, TRUE), n)
      /\ NoWish
      /\ UNCHANGED sent

(* If nothing is, the form is submitted: the submit handler checks it once *)
(* more, after the requests of the first check have been started. Where    *)
(* there are such requests it puts the submission off, but stopRequest     *)
(* clears formSubmitted afterwards: the submission is gone.                *)
AnswerSubmits(f) ==
  LET n == Answered(f, TRUE)
      m == Ask(n, Elements)
      w == FormView(AnsweredView(f, TRUE), n)
  IN  /\ Takes(f, TRUE)
      /\ Decides(n)
      /\ Passes(n)
      /\ net' = [Ask(m, Elements) EXCEPT !.formSubmitted = FALSE]
      /\ view' = FormView(w, m)
      /\ sent' = (Passes(m) /\ m.count = 0)
      /\ NoWish

Answer(f) ==
  \/ \E ok \in BOOLEAN : AnswerNoted(f, ok)
  \/ AnswerRefuses(f)
  \/ AnswerFindsFault(f)
  \/ AnswerSubmits(f)

(* A request fails: there is no callback for that.                         *)
RequestFails(f) ==
  /\ Failures
  /\ ~sent
  /\ net.flight[f] # NoFlight
  /\ net' = [net EXCEPT !.flight[f] = NoFlight]
  /\ UNCHANGED <<Page, view, sent, confirmed, wishes>>

-----------------------------------------------------------------------------
(* The reset event: onReset runs first, with the old values, then the      *)
(* browser empties the fields.                                             *)
Reset ==
  /\ ~sent
  /\ value' = [f \in Fields |-> IF f \in inDom THEN Blank ELSE value[f]]
  /\ IF attached
       THEN /\ net' = [net EXCEPT
                 !.previous = [f \in Fields |->
                                 IF f \in Elements THEN NoPrevious ELSE @[f]],
                 !.flight = [f \in Fields |->
                               IF f \in Elements /\ @[f] # NoFlight
                                 THEN [@[f] EXCEPT !.own = FALSE] ELSE @[f]]]
            /\ view' = [view EXCEPT
                 !.errors = [f \in Fields |-> None], !.passed = {}, !.current = {},
                 !.submitted = {}, !.invalid = {}, !.marked = @ \ Elements,
                 !.lit = {}, !.shown = FALSE]
       ELSE UNCHANGED <<net, view>>
  /\ NoWish
  /\ UNCHANGED <<inDom, attached, rules, sent, confirmed>>

(* The server answers a submission with the page, loaded anew.             *)
Load ==
  /\ sent
  /\ value' = [f \in Fields |-> Blank]
  /\ inDom' = AtLoad
  /\ attached' = (AtLoad # {})
  /\ rules' = [f \in Fields |-> IF f \in AtLoad THEN ParsedRules(f) ELSE {}]
  /\ net' = IdleNet
  /\ view' = Clean
  /\ sent' = FALSE
  /\ confirmed' = [f \in Fields |-> {}]
  /\ NoWish

Next ==
  \/ \E f \in Fields : \/ AddField(f) \/ KeyUp(f) \/ Blur(f)
                       \/ Answer(f) \/ RequestFails(f)
                       \/ \E x \in Typed[f] : Edit(f, x)
  \/ Parse \/ Submit \/ Reset \/ Load

Spec == Init /\ [][Next]_vars

(* Every remote check is answered in the end, or fails.                    *)
FairSpec == Spec /\ \A f \in Fields : WF_vars(Answer(f) \/ RequestFails(f))

-----------------------------------------------------------------------------
Reasons == {None, "required", "regex", "remote"}

Previous == [old : Values \cup {None}, valid : BOOLEAN]
Flight   == [value : Values \cup {None}, own : BOOLEAN]

NetType ==
  [previous : [Fields -> Previous], pending : SUBSET Fields, count : Nat,
   flight : [Fields -> Flight], formSubmitted : BOOLEAN]

ViewType ==
  [errors : [Fields -> Reasons], passed : SUBSET Fields, current : SUBSET Fields,
   submitted : SUBSET Fields, invalid : SUBSET Fields, marked : SUBSET Fields,
   lit : SUBSET Fields, text : [Fields -> Reasons],
   summary : SUBSET (Fields \X Reasons), shown : BOOLEAN]

(* The variables keep their types, whatever the handlers compute.          *)
TypeOK ==
  /\ value \in [Fields -> Values]
  /\ inDom \subseteq Fields
  /\ attached \in BOOLEAN
  /\ rules \in [Fields -> SUBSET {"required", "regex", "remote", "__dummy__"}]
  /\ net \in NetType
  /\ view \in ViewType
  /\ sent \in BOOLEAN
  /\ confirmed \in [Fields -> SUBSET Values]
  /\ wish \in BOOLEAN
  /\ edited \subseteq Fields

(* A form reaches the server only with values that satisfy every rule of   *)
(* the validator, and where a rule is a remote check, with values that the *)
(* server has confirmed last time it was asked about them: no late or      *)
(* aborted answer, reset or second submission passes an unchecked value.   *)
CheckedBeforeSent ==
  sent => \A f \in Elements :
            /\ LocalFault(f) = None
            /\ Remote(f) => value[f] \in confirmed[f]

(* pendingRequest counts the fields that are pending, and a request under  *)
(* way is that of a pending field: the correction "make sure               *)
(* pendingRequest is never < 0" has nothing to correct, and a form waits   *)
(* for no more answers than can come, unless one has failed.               *)
PendingBalance ==
  /\ net.count = Cardinality(net.pending)
  /\ {f \in Fields : net.flight[f] # NoFlight} \subseteq net.pending
  /\ ~Failures => net.pending \subseteq {f \in Fields : net.flight[f] # NoFlight}

(* A field whose value breaks a rule of the page keeps its mark and its    *)
(* message until a reset or a new page.  There is one gap in the scripts:  *)
(* a good answer to a remote check takes the message of its field away,    *)
(* and the marks of all fields looked at last, whatever they hold by now.  *)
TakenBackForCause ==
  [][\A f \in Fields :
       /\ LocalFault(f) # None
       /\ f \in view.marked \ view'.marked \/ f \in view.lit \ view'.lit
       => \/ view'.lit = {} /\ view'.current = {}
          \/ \E g \in Fields :
               /\ net.flight[g] # NoFlight /\ net'.flight[g] = NoFlight
               /\ confirmed'[g] # {}
               /\ g = f \/ f \in view.current]_vars

(* A submission that waits ends in one of four ways: it is sent; the user  *)
(* resets the form; the summary comes up with fields that are wrong - by a *)
(* rule of the page, by the last answer about their value, for want of an  *)
(* answer, or before the user changed them; or it is dropped in silence.   *)
(* That happens only to a user who has gone on typing: the new value of a  *)
(* field is being asked about when the answer about the old one, a good    *)
(* one, submits the form (jquery.validate.js 106-108 and 1102-1120).       *)
SummaryExplains ==
  /\ view'.shown
  /\ view'.summary # {}
  /\ \A item \in view'.summary :
       \/ LocalFault(item[1]) # None
       \/ value[item[1]] \notin confirmed'[item[1]]
       \/ item[1] \in net'.pending \cup edited

DroppedTyping == Accused(view') = {} /\ edited \cap net'.pending # {}

WaitingEnds ==
  [][wish /\ ~wish' => sent' \/ Reset \/ SummaryExplains \/ DroppedTyping]_vars

(* A submission that waits ends, unless it waits for a request that has    *)
(* failed or the user never stops typing.                                  *)
Typing == \E f \in Fields, x \in Values : Edit(f, x)

Settles ==
  \/ []<><<Typing>>_vars
  \/ wish ~> (~wish \/ \E f \in net.pending : net.flight[f] = NoFlight)

=============================================================================

---------------------------- MODULE FormAdapters ----------------------------
(***************************************************************************)
(* The adapters of jquery.validate.unobtrusive.js: how the data-val-*      *)
(* attributes of one input become jQuery Validate rules, and what those    *)
(* rules then accept.  The input's attributes are those that ASP.NET Core  *)
(* renders for the annotations of a model such as EmployeeInputModel.      *)
(*                                                                         *)
(* A JavaScript value is a record whose field js says what it is, because  *)
(* it matters to a comparison whether it is a string or a number.          *)
(***************************************************************************)
EXTENDS Naturals, Sequences, FiniteSetsExt

CONSTANTS
  Methods,      \* the validation methods that the page has loaded
  Inputs,       \* the inputs considered: a prefix, annotations, attributes
  Texts         \* what a user may type

(* The methods of jquery.validate.js and of the script itself that the     *)
(* adapters below need whatever else is loaded.                            *)
ASSUME MethodsAssumption ==
  {"required", "email", "minlength", "maxlength", "rangelength", "min", "max",
   "range", "equalTo", "regex", "nonalphamin", "__dummy__"} \subseteq Methods

VARIABLES
  input,        \* the input being validated
  typed,        \* what it contains
  compared      \* what the input it is compared with contains

vars == <<input, typed, compared>>

-----------------------------------------------------------------------------
(* Texts: what kind, how long, the number if it is one, and how many       *)
(* characters are neither letters, digits nor underscores.                 *)

Text == [kind : {"letters", "spaces", "digits", "address", "loose"},
         len : Nat, n : Nat, symbols : Nat]

(* The digits of a number below 100.                                       *)
Digits(n) == IF n < 10 THEN <<n>> ELSE <<n \div 10, n % 10>>

Number(n) == [kind |-> "digits", len |-> Len(Digits(n)), n |-> n, symbols |-> 0]

Blank(t) == t.len = 0

ASSUME TextsAssumption ==
  /\ Texts \subseteq Text
  /\ \A t, u \in Texts : Blank(t) /\ Blank(u) => t = u

(* The characters, as far as the order of strings goes: a space comes      *)
(* before the digits, a letter after them.                                 *)
Chars(t) ==
  [i \in 1..t.len |-> CASE t.kind = "spaces" -> 0
                        [] t.kind = "digits" -> Digits(t.n)[i] + 1
                        [] OTHER             -> 11]

StringLeq(a, b) ==
  \/ a = b
  \/ \E i \in 1..Len(b) :
       /\ i <= Len(a) + 1
       /\ SubSeq(a, 1, i - 1) = SubSeq(b, 1, i - 1)
       /\ i > Len(a) \/ a[i] < b[i]

-----------------------------------------------------------------------------
(* JavaScript values.                                                      *)

Undefined     == [js |-> "undefined"]
True          == [js |-> "boolean"]
Str(t)        == [js |-> "string", t |-> t]
Num(n)        == [js |-> "number", n |-> n]
Pair(lo, hi)  == [js |-> "array", lo |-> lo, hi |-> hi]
Element(name) == [js |-> "element", name |-> name]
Reference(star, leaf) == [js |-> "reference", star |-> star, leaf |-> leaf]

Given(x) == x.js # "undefined"

(* ToNumber of JavaScript: white text is 0, a word is NaN, which is in no  *)
(* relation to any number.                                                 *)
Numeric(x) == x.js = "number" \/ x.t.kind \in {"digits", "spaces"}
ToNumber(x) == IF x.js = "number" THEN x.n ELSE x.t.n

(* x <= y: two strings compare as strings, everything else as numbers.     *)
Leq(x, y) ==
  IF x.js = "string" /\ y.js = "string"
    THEN StringLeq(Chars(x.t), Chars(y.t))
    ELSE Numeric(x) /\ Numeric(y) /\ ToNumber(x) <= ToNumber(y)

(* An optional argument, `a || b` in the source.                           *)
Absent == "undefined"
Or(a, b) == IF a = Absent THEN b ELSE a

(* setValidationValues: the rule that an adapter sets.                     *)
SetRule(name, x) == [rule \in {name} |-> x]
NoRule == <<>>

-----------------------------------------------------------------------------
(* The four ways to add an adapter.                                        *)

AddBool(name, rule) ==
  [name |-> name, params |-> {}, kind |-> "bool", rule |-> Or(rule, name)]

AddSingleVal(name, attribute, rule) ==
  [name |-> name, params |-> {Or(attribute, "val")}, kind |-> "single",
   reads |-> attribute, rule |-> Or(rule, name)]

AddMinMax(name, minRule, maxRule, minMaxRule, minAttribute, maxAttribute) ==
  [name |-> name, params |-> {Or(minAttribute, "min"), Or(maxAttribute, "max")},
   kind |-> "minmax", minRule |-> minRule, maxRule |-> maxRule,
   minMaxRule |-> minMaxRule]

Add(name, params) == [name |-> name, params |-> params, kind |-> name]

(* options.params[q]: undefined unless the adapter asked for q and the     *)
(* input has the attribute.                                                *)
Param(p, q) == IF q \in DOMAIN p THEN p[q] ELSE Undefined

(* Not the code: the bounds in the wrong order.                            *)
AdaptMinMaxSwapped(a, p) ==
  LET min == Param(p, "min")
      max == Param(p, "max")
  IN  CASE Given(min) /\ Given(max)  -> SetRule(a.minMaxRule, Pair(max, min))
        [] Given(min) /\ ~Given(max) -> SetRule(a.maxRule, min)
        [] ~Given(min) /\ Given(max) -> SetRule(a.minRule, max)
        [] OTHER                     -> NoRule

AdaptMinMax(a, p) ==
  LET min == Param(p, "min")
      max == Param(p, "max")
  IN  CASE Given(min) /\ Given(max)  -> SetRule(a.minMaxRule, Pair(min, max))
        [] Given(min) /\ ~Given(max) -> SetRule(a.minRule, min)
        [] ~Given(min) /\ Given(max) -> SetRule(a.maxRule, max)
        [] OTHER                     -> NoRule

(* Not the code: "*." is taken out and nothing put in.                     *)
FullNameBare(prefix, ref) == [prefix |-> "", leaf |-> ref.leaf]

(* appendModelPrefix: "*." stands for the prefix of the input's own name.  *)
FullName(prefix, ref) ==
  [prefix |-> IF ref.star THEN prefix ELSE "", leaf |-> ref.leaf]

(* The first field of the form with that name, undefined if there is none; *)
(* the form holds this input and the one it is compared with, which has    *)
(* the same prefix and whose name the attribute gives.                     *)
EqualTo(e, p) ==
  LET full == FullName(e.prefix, p["other"])
  IN  SetRule("equalTo", IF full.prefix = e.prefix THEN Element(full) ELSE Undefined)

(* Not the code: the test on checkboxes the wrong way round.               *)
RequiredRuleInverted(e) ==
  IF e.checkbox THEN SetRule("required", True) ELSE NoRule

(* jQuery Validate takes "required" of a checkbox for "must be checked".   *)
RequiredRule(e) ==
  IF e.checkbox THEN NoRule ELSE SetRule("required", True)

AdaptPassword(p) ==
  LET from == [minlength |-> "min", nonalphamin |-> "nonalphamin", regex |-> "regex"]
  IN  [rule \in {r \in DOMAIN from : Given(Param(p, from[r]))} |-> p[from[rule]]]

(* The rules that adapter a sets for input e with the parameters p.        *)
Adapt(a, e, p) ==
  CASE a.kind = "bool"     -> SetRule(a.rule, True)
    [] a.kind = "single"   -> SetRule(a.rule, Param(p, a.reads))
    [] a.kind = "minmax"   -> AdaptMinMax(a, p)
    [] a.kind = "equalto"  -> EqualTo(e, p)
    [] a.kind = "required" -> RequiredRule(e)
    [] a.kind = "password" -> AdaptPassword(p)
    [] a.kind = "fileextensions" -> SetRule("extension", Param(p, "extensions"))

(* The adapter for file extensions depends on the methods present.         *)
ExtensionAdapters ==
  IF "extension" \in Methods
    THEN <<AddSingleVal("accept", "mimtype", Absent),
           AddSingleVal("extension", "extension", Absent)>>
    ELSE <<AddSingleVal("extension", "extension", "accept")>>

(* The adapters in the order of their registration.  "remote" is the       *)
(* subject of FormValidation.                                              *)
Adapters ==
  ExtensionAdapters \o
  <<AddSingleVal("regex", "pattern", Absent),
    AddBool("creditcard", Absent), AddBool("date", Absent),
    AddBool("digits", Absent), AddBool("email", Absent),
    AddBool("number", Absent), AddBool("url", Absent),
    AddMinMax("length", "minlength", "maxlength", "rangelength", Absent, Absent),
    AddMinMax("range", "min", "max", "range", Absent, Absent),
    AddMinMax("minlength", "minlength", Absent, Absent, Absent, Absent),
    AddMinMax("maxlength", "minlength", "maxlength", Absent, Absent, Absent),
    Add("equalto", {"other"}), Add("required", {}),
    Add("password", {"min", "nonalphamin", "regex"}),
    Add("fileextensions", {"extensions"})>>

-----------------------------------------------------------------------------
(* What ASP.NET Core renders.  An input is a record of its model prefix,   *)
(* whether it is a checkbox, the annotations of its property and the       *)
(* data-val attributes the page adds by hand.                              *)

AdapterOf(an) ==
  [Required |-> "required", StringLength |-> "length", Range |-> "range",
   MinLength |-> "minlength", MaxLength |-> "maxlength",
   Compare |-> "equalto", EmailAddress |-> "email"][an.rule]

ParamsOf(an) ==
  CASE an.rule = "StringLength" ->
         IF an.min = 0 THEN [max |-> Str(Number(an.max))]
                       ELSE [min |-> Str(Number(an.min)), max |-> Str(Number(an.max))]
    [] an.rule = "Range"     -> [min |-> Str(Number(an.min)), max |-> Str(Number(an.max))]
    [] an.rule = "MinLength" -> [min |-> Str(Number(an.min))]
    [] an.rule = "MaxLength" -> [max |-> Str(Number(an.max))]
    [] an.rule = "Compare"   -> [other |-> Reference(TRUE, an.other)]
    [] OTHER                 -> <<>>

Rendered(annotations) ==
  [name \in {AdapterOf(an) : an \in annotations} |->
     ParamsOf(CHOOSE an \in annotations : AdapterOf(an) = name)]

Attributes(e) ==
  LET rendered == Rendered(e.annotations)
  IN  [name \in DOMAIN rendered \cup DOMAIN e.extra |->
         IF name \in DOMAIN rendered THEN rendered[name] ELSE e.extra[name]]

Annotation ==
  [rule : {"Required", "EmailAddress"}]
  \cup [rule : {"StringLength", "Range"}, min : Nat, max : Nat]
  \cup [rule : {"MinLength"}, min : Nat] \cup [rule : {"MaxLength"}, max : Nat]
  \cup [rule : {"Compare"}, other : STRING]

(* A property has each annotation once, and none that a checkbox, which    *)
(* always has a value, could not meet.                                     *)
ASSUME InputsAssumption ==
  \A e \in Inputs :
    /\ e.annotations \subseteq Annotation
    /\ \A a, b \in e.annotations : a.rule = b.rule => a = b
    /\ e.checkbox => \A a \in e.annotations : a.rule # "Required"

-----------------------------------------------------------------------------
ParamValues(a, attrs) ==
  [q \in a.params |-> Param(attrs[a.name], q)]

(* parseElement: every adapter whose attribute is there sets its rules, in *)
(* the order of registration, so that of two that set one rule the later   *)
(* counts; "__dummy__" comes last.                                         *)
RulesBy(a, e) ==
  LET attrs == Attributes(e)
  IN  IF a.name \in DOMAIN attrs THEN Adapt(a, e, ParamValues(a, attrs)) ELSE NoRule

Setters(e, rule) == {i \in DOMAIN Adapters : rule \in DOMAIN RulesBy(Adapters[i], e)}

SetRules(e) ==
  LET set == UNION {DOMAIN RulesBy(Adapters[i], e) : i \in DOMAIN Adapters}
  IN  [rule \in set \cup {"__dummy__"} |->
         IF rule = "__dummy__" THEN True
         ELSE RulesBy(Adapters[Max(Setters(e, rule))], e)[rule]]

(* rules() of jQuery Validate: $.extend passes over what is undefined, so  *)
(* that a rule set without a parameter is no rule.                         *)
Rules(e) ==
  [rule \in {r \in DOMAIN SetRules(e) : Given(SetRules(e)[r])} |-> SetRules(e)[rule]]

(* normalizeRules of jQuery Validate makes numbers of these four.          *)
Normalized(rule, x) ==
  CASE rule \in {"minlength", "maxlength"} -> Num(ToNumber(x))
    [] rule \in {"rangelength", "range"}   ->
         Pair(Num(ToNumber(x.lo)), Num(ToNumber(x.hi)))
    [] OTHER -> x

(* The methods, for a text of the form that holds other in the field it is *)
(* compared with: the element that equalTo has for its parameter.          *)
(* optional() lets an empty field pass most of them.                       *)
Holds(rule, x, t, other) ==
  CASE rule = "__dummy__"      -> TRUE
    [] rule = "required"       -> ~Blank(t)
    [] rule = "equalTo"        -> t = other
    [] rule = "nonalphamin"    -> t.symbols > 0 /\ t.symbols >= ToNumber(x)
    [] OTHER -> Blank(t) \/
         CASE rule = "minlength"   -> t.len >= x.n
           [] rule = "maxlength"   -> t.len <= x.n
           [] rule = "rangelength" -> t.len >= x.lo.n /\ t.len <= x.hi.n
           [] rule = "min"   -> Leq(x, Str(t))
           [] rule = "max"   -> Leq(Str(t), x)
           [] rule = "range" -> Leq(x.lo, Str(t)) /\ Leq(Str(t), x.hi)
           [] rule = "email" -> t.kind = "address"
           [] rule = "digits" -> t.kind = "digits"
           [] rule = "number" -> t.kind = "digits"
           [] rule = "regex" -> t.kind \in x.kinds

(* check: every rule of the input passes.  A page that is to be checked    *)
(* has the methods of its rules.                                           *)
Accepts(e, t, other) ==
  \A rule \in DOMAIN Rules(e) :
    Holds(rule, Normalized(rule, Rules(e)[rule]), t, other)

-----------------------------------------------------------------------------
(* A user types into either field.                                         *)

Init == /\ input \in Inputs
        /\ typed \in {t \in Texts : Blank(t)}
        /\ compared = typed

Type(t) == /\ typed' = t
           /\ UNCHANGED <<input, compared>>

TypeOther(t) == /\ compared' = t
                /\ UNCHANGED <<input, typed>>

Next == \E t \in Texts : Type(t) \/ TypeOther(t)

Spec == Init /\ [][Next]_vars

-----------------------------------------------------------------------------
(* The reference: what the annotations mean when the model is bound.  An   *)
(* empty or white text is bound as null, which only Required refuses.      *)

Null(t) == Blank(t) \/ t.kind = "spaces"

Means(an, t, other) ==
  CASE an.rule = "Required"     -> ~Null(t)
    [] an.rule = "Compare"      -> t = other \/ (Null(t) /\ Null(other))
    [] an.rule = "StringLength" -> Null(t) \/ (an.min <= t.len /\ t.len <= an.max)
    [] an.rule = "MinLength"    -> Null(t) \/ an.min <= t.len
    [] an.rule = "MaxLength"    -> Null(t) \/ t.len <= an.max
    [] an.rule = "Range"        -> \/ Null(t)
                                    \/ /\ t.kind = "digits"
                                       /\ an.min <= t.n /\ t.n <= an.max
    [] an.rule = "EmailAddress" -> Null(t) \/ t.kind \in {"address", "loose"}

ModelAccepts(e, t, other) == \A an \in e.annotations : Means(an, t, other)

(* A text the model accepts passes the form, whatever the combination of   *)
(* rules its annotations were turned into: nobody is kept from sending a   *)
(* correct form.  Two kinds of text are outside: an address with one "@"   *)
(* that is no address to HTML ("loose"), and white text, which the server  *)
(* takes for none.  Attributes written by hand have no annotation to be    *)
(* compared with.                                                          *)
NothingGoodRefused ==
  /\ DOMAIN input.extra = {}
  /\ typed.kind # "loose"
  /\ "spaces" \notin {typed.kind, compared.kind}
  /\ ModelAccepts(input, typed, compared)
  => Accepts(input, typed, compared)

(* A text that passes the form satisfies the annotations; only white text  *)
(* in a required field passes the form and not the model.                  *)
NothingBadPassed ==
  /\ DOMAIN input.extra = {}
  /\ "spaces" \notin {typed.kind, compared.kind}
  /\ Accepts(input, typed, compared)
  => ModelAccepts(input, typed, compared)

(* What an attribute written by hand asks of a text.  A name without "*."  *)
(* in an input of a prefix is not found, and nothing is compared.          *)
Asks(e, name, t, other) ==
  LET p == e.extra[name]
  IN  CASE name = "required" -> e.checkbox \/ ~Blank(t)
        [] name \in {"digits", "number"} -> Blank(t) \/ t.kind = "digits"
        [] name = "regex"    -> Blank(t) \/ t.kind \in p["pattern"].kinds
        [] name = "range"    -> \/ Blank(t)
                                \/ /\ "min" \in DOMAIN p => ToNumber(p["min"]) <= t.n
                                   /\ "max" \in DOMAIN p => t.n <= ToNumber(p["max"])
        [] name = "password" -> /\ Blank(t) \/ ToNumber(p["min"]) <= t.len
                                /\ t.symbols >= ToNumber(p["nonalphamin"])
        [] name = "equalto"  -> p["other"].star \/ e.prefix = "" => t = other

(* One bound of a range alone is compared as text, and decides as its      *)
(* number would for numbers of as many digits only.                        *)
AsLongAsBound(e, t) ==
  "range" \in DOMAIN e.extra =>
    \A q \in DOMAIN e.extra["range"] :
      Blank(t) \/ (t.kind = "digits" /\ t.len = e.extra["range"][q].t.len)

(* An input whose attributes are written by hand is checked for what they  *)
(* ask and for nothing else: of the three rules a range may become the one *)
(* for the bounds that are there, of the three parts of a password those   *)
(* that are given, of a checkbox nothing.  A one-sided range holds what it *)
(* says only for numbers as long as its bound.                             *)
HandWrittenHeld ==
  /\ input.annotations = {}
  /\ AsLongAsBound(input, typed)
  => (Accepts(input, typed, compared) <=>
        \A name \in DOMAIN input.extra : Asks(input, name, typed, compared))

-----------------------------------------------------------------------------
(* A condition on the inputs under which a theorem about all of them holds *)
(* (FormAdapters_proofs).                                                  *)

(* The rule of MaxLength takes the place of that of a StringLength without *)
(* a minimum, and must be the stricter one.                                *)
OneMaximum(e) ==
  \A a, b \in e.annotations :
    a.rule = "StringLength" /\ a.min = 0 /\ b.rule = "MaxLength" => b.max <= a.max

=============================================================================

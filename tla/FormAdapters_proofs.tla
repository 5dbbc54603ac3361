------------------------ MODULE FormAdapters_proofs ------------------------
(***************************************************************************)
(* Proofs about FormAdapters, for all inputs and texts: what the adapters  *)
(* make of the annotations of a model accepts what the annotations accept, *)
(* and none of their rules is lost for want of a parameter.                *)
(***************************************************************************)
EXTENDS FormAdapters, WellFoundedInduction, TLAPS

-----------------------------------------------------------------------------
(* The list of adapters.                                                   *)

Registered ==
  <<AddSingleVal("regex", "pattern", Absent),
    AddBool("creditcard", Absent), AddBool("date", Absent),
    AddBool("digits", Absent), AddBool("email", Absent),
    AddBool("number", Absent), AddBool("url", Absent),
    AddMinMax("length", "minlength", "maxlength", "rangelength", Absent, Absent),
    AddMinMax("range", "min", "max", "range", Absent, Absent),
    AddMinMax("minlength", "minlength", Absent, Absent, Absent, Absent),
    AddMinMax("maxlength", "minlength", "maxlength", Absent, Absent, Absent),
    Add("equalto", {"other"}), Add("required", {}),
    Add("password", {"min", "nonalphamin", "regex"}),
    Add("fileextensions", {"extensions"})>>

Known(a) ==
  \/ a = AddSingleVal("accept", "mimtype", Absent) /\ "extension" \in Methods
  \/ a = AddSingleVal("extension", "extension", Absent) /\ "extension" \in Methods
  \/ a = AddSingleVal("extension", "extension", "accept") /\ "extension" \notin Methods
  \/ \E i \in 1 .. 15 : a = Registered[i]

Ahead == Len(ExtensionAdapters)

LEMMA AdapterList ==
  /\ Ahead \in {1, 2}
  /\ DOMAIN Adapters = 1 .. Ahead + 15
  /\ \A i \in 1 .. Ahead : Known(Adapters[i])
  /\ \A i \in 1 .. 15 : Adapters[Ahead + i] = Registered[i]
<1>1. CASE "extension" \in Methods
  <2>1. ExtensionAdapters = <<AddSingleVal("accept", "mimtype", Absent),
                              AddSingleVal("extension", "extension", Absent)>>
    BY <1>1 DEF ExtensionAdapters
  <2>2. Adapters = ExtensionAdapters \o Registered
    BY DEF Adapters, Registered
  <2>3. QED
    BY <1>1, <2>1, <2>2 DEF Known, Ahead, Registered
<1>2. CASE "extension" \notin Methods
  <2>1. ExtensionAdapters = <<AddSingleVal("extension", "extension", "accept")>>
    BY <1>2 DEF ExtensionAdapters
  <2>2. Adapters = ExtensionAdapters \o Registered
    BY DEF Adapters, Registered
  <2>3. QED
    BY <1>2, <2>1, <2>2 DEF Known, Ahead, Registered
<1>3. QED
  BY <1>1, <1>2

(* A set of places in a list has a last one: the least of its bounds.      *)
LEMMA LastPlace ==
  ASSUME NEW n \in Nat, NEW S \in SUBSET (1 .. n), S # {}
  PROVE  Max(S) \in S /\ \A j \in S : j <= Max(S)
<1> DEFINE B == {b \in Nat : \A j \in S : j <= b}
           R == OpToRel(<, Nat)
<1>1. R = {p \in Nat \X Nat : p[1] < p[2]}
  BY DEF OpToRel
<1>2. n \in B
  OBVIOUS
<1>3. IsWellFoundedOn(R, Nat)
  BY NatLessThanWellFounded
<1> HIDE DEF R
<1>4. PICK b \in B : \A c \in B : ~(<<c, b>> \in R)
  <2> HIDE DEF B
  <2>1. B \subseteq Nat /\ B # {}
    BY <1>2 DEF B
  <2>2. QED
    BY <1>3, <2>1, WFMin
<1>5. \A c \in B : ~(c < b)
  BY <1>1, <1>4
<1>6. b \in S
  <2> SUFFICES ASSUME b \notin S PROVE FALSE
    OBVIOUS
  <2>1. b \in Nat /\ \A j \in S : j \in 1 .. n /\ j <= b /\ j # b
    OBVIOUS
  <2>2. PICK i \in S : TRUE
    OBVIOUS
  <2>3. b - 1 \in Nat
    BY <2>1, <2>2
  <2>4. \A j \in S : j <= b - 1
    BY <2>1
  <2>5. QED
    BY <1>5, <2>3, <2>4
<1>7. \A j \in S : b >= j
  OBVIOUS
<1>8. \A j \in S : Max(S) >= j
  BY <1>6, <1>7 DEF Max
<1>9. QED
  BY <1>6, <1>7, <1>8 DEF Max

(* The rule counts that the last of its setters sets.                      *)
LEMMA RuleOfLast ==
  ASSUME NEW e, NEW rule
  PROVE  /\ "__dummy__" \in DOMAIN SetRules(e)
         /\ SetRules(e)["__dummy__"] = True
         /\ rule \in DOMAIN SetRules(e) /\ rule # "__dummy__" =>
              Setters(e, rule) # {}
         /\ Setters(e, rule) # {} /\ rule # "__dummy__" =>
              /\ rule \in DOMAIN SetRules(e)
              /\ Max(Setters(e, rule)) \in Setters(e, rule)
              /\ \A i \in Setters(e, rule) : i <= Max(Setters(e, rule))
              /\ SetRules(e)[rule] = RulesBy(Adapters[Max(Setters(e, rule))], e)[rule]
<1> DEFINE all == UNION {DOMAIN RulesBy(Adapters[i], e) : i \in DOMAIN Adapters}
           f == [r \in all \cup {"__dummy__"} |->
                   IF r = "__dummy__" THEN True
                   ELSE RulesBy(Adapters[Max(Setters(e, r))], e)[r]]
<1>1. Ahead + 15 \in Nat /\ Setters(e, rule) \in SUBSET (1 .. Ahead + 15)
  BY AdapterList DEF Setters
<1>2. rule \in all <=> Setters(e, rule) # {}
  BY DEF Setters
<1>3. SetRules(e) = f
  BY DEF SetRules
<1> HIDE DEF all
<1>4. QED
  BY <1>1, <1>2, <1>3, LastPlace

-----------------------------------------------------------------------------
(* What ASP.NET Core renders.                                              *)

(* The texts of numbers, as rules read them.                               *)
LEMMA NumberGiven ==
  ASSUME NEW n \in Nat
  PROVE  /\ Given(Str(Number(n))) /\ ToNumber(Str(Number(n))) = n
         /\ Str(Number(n)).js = "string"
BY DEF Given, Str, Number, ToNumber

(* The annotations one by one.                                             *)
LEMMA AnnotationCases ==
  ASSUME NEW an \in Annotation
  PROVE  \/ an.rule = "Required" /\ AdapterOf(an) = "required"
         \/ an.rule = "EmailAddress" /\ AdapterOf(an) = "email"
         \/ an.rule = "Compare" /\ AdapterOf(an) = "equalto"
         \/ /\ an.rule = "StringLength" /\ AdapterOf(an) = "length"
            /\ an.min \in Nat /\ an.max \in Nat
         \/ /\ an.rule = "Range" /\ AdapterOf(an) = "range"
            /\ an.min \in Nat /\ an.max \in Nat
         \/ an.rule = "MinLength" /\ AdapterOf(an) = "minlength" /\ an.min \in Nat
         \/ an.rule = "MaxLength" /\ AdapterOf(an) = "maxlength" /\ an.max \in Nat
<1>1. CASE an \in [rule : {"Required", "EmailAddress"}]
  BY <1>1 DEF AdapterOf
<1>2. CASE an \in [rule : {"StringLength", "Range"}, min : Nat, max : Nat]
  BY <1>2 DEF AdapterOf
<1>3. CASE an \in [rule : {"MinLength"}, min : Nat] \cup [rule : {"MaxLength"}, max : Nat]
  BY <1>3 DEF AdapterOf
<1>4. CASE an \in [rule : {"Compare"}, other : STRING]
  BY <1>4 DEF AdapterOf
<1>5. QED
  BY <1>1, <1>2, <1>3, <1>4 DEF Annotation

(* The attributes of an annotation are those of the annotation alone.      *)
LEMMA RenderedAlone ==
  ASSUME NEW as \in SUBSET Annotation,
         \A a, b \in as : a.rule = b.rule => a = b
  PROVE  /\ \A an \in as : /\ AdapterOf(an) \in DOMAIN Rendered(as)
                           /\ Rendered(as)[AdapterOf(an)] = ParamsOf(an)
         /\ \A name \in DOMAIN Rendered(as) :
              \E an \in as : name = AdapterOf(an)
<1>1. \A a, b \in as : AdapterOf(a) = AdapterOf(b) => a = b
  <2> SUFFICES ASSUME NEW a \in as, NEW b \in as, AdapterOf(a) = AdapterOf(b)
               PROVE  a.rule = b.rule
    OBVIOUS
  <2>1. a \in Annotation /\ b \in Annotation
    OBVIOUS
  <2>2. QED
    BY <2>1, AnnotationCases
<1>2. DOMAIN Rendered(as) = {AdapterOf(an) : an \in as}
  BY DEF Rendered
<1>3. ASSUME NEW an \in as PROVE Rendered(as)[AdapterOf(an)] = ParamsOf(an)
  <2>1. (CHOOSE b \in as : AdapterOf(b) = AdapterOf(an)) = an
    BY <1>1
  <2>2. QED
    BY <2>1 DEF Rendered
<1>4. QED
  BY <1>2, <1>3

-----------------------------------------------------------------------------
(* What the adapters make of an annotation.                                *)

(* The place of its adapter among those that are always registered.        *)
PlaceOf(an) ==
  [Required |-> 13, StringLength |-> 8, Range |-> 9, MinLength |-> 10,
   MaxLength |-> 11, Compare |-> 12, EmailAddress |-> 5][an.rule]

RulesFor(an, e) ==
  CASE an.rule = "Required"     -> RequiredRule(e)
    [] an.rule = "EmailAddress" -> SetRule("email", True)
    [] an.rule = "Compare"      ->
         SetRule("equalTo", Element(FullName(e.prefix, Reference(TRUE, an.other))))
    [] an.rule = "StringLength" ->
         IF an.min = 0
           THEN SetRule("maxlength", Str(Number(an.max)))
           ELSE SetRule("rangelength", Pair(Str(Number(an.min)), Str(Number(an.max))))
    [] an.rule = "Range"        ->
         SetRule("range", Pair(Str(Number(an.min)), Str(Number(an.max))))
    [] an.rule = "MinLength"    -> SetRule("minlength", Str(Number(an.min)))
    [] an.rule = "MaxLength"    -> SetRule("maxlength", Str(Number(an.max)))

(* An annotation has one adapter.                                          *)
LEMMA AdapterPlace ==
  ASSUME NEW an \in Annotation
  PROVE  /\ PlaceOf(an) \in 1 .. 15
         /\ Registered[PlaceOf(an)].name = AdapterOf(an)
         /\ \A i \in DOMAIN Adapters :
              Adapters[i].name = AdapterOf(an) => i = Ahead + PlaceOf(an)
<1>1. /\ PlaceOf(an) \in 1 .. 15
      /\ Registered[PlaceOf(an)].name = AdapterOf(an)
      /\ \A i \in 1 .. 15 : Registered[i].name = AdapterOf(an) => i = PlaceOf(an)
  BY AnnotationCases
     DEF Registered, PlaceOf, AddSingleVal, AddBool, AddMinMax, Add
<1>2. \A i \in 1 .. Ahead : Adapters[i].name # AdapterOf(an)
  <2> SUFFICES ASSUME NEW i \in 1 .. Ahead PROVE Adapters[i].name # AdapterOf(an)
    OBVIOUS
  <2>1. ExtensionAdapters[i].name \in {"accept", "extension"}
    BY DEF ExtensionAdapters, Ahead, AddSingleVal
  <2>2. Adapters = ExtensionAdapters \o Registered
    BY DEF Adapters, Registered
  <2>3. Adapters[i] = ExtensionAdapters[i]
    BY <2>2 DEF Ahead, ExtensionAdapters, Registered
  <2>4. QED
    BY <2>1, <2>3, AnnotationCases
<1>3. ASSUME NEW i \in DOMAIN Adapters, Adapters[i].name = AdapterOf(an)
      PROVE  i = Ahead + PlaceOf(an)
  <2>1. i \in 1 .. Ahead + 15 /\ i \notin 1 .. Ahead /\ Ahead \in {1, 2}
    BY <1>2, <1>3, AdapterList
  <2>2. i - Ahead \in 1 .. 15 /\ i = Ahead + (i - Ahead)
    BY <2>1
  <2>3. Adapters[i] = Registered[i - Ahead]
    BY <2>2, AdapterList
  <2>4. i - Ahead = PlaceOf(an)
    BY <1>1, <1>3, <2>2, <2>3
  <2>5. QED
    BY <2>2, <2>4
<1>4. QED
  BY <1>1, <1>3

(* The adapter of an annotation, with the parameters ASP.NET Core renders  *)
(* for it, sets the rules above.                                           *)
LEMMA AdaptsAnnotation ==
  ASSUME NEW an \in Annotation, NEW e, NEW a, a = Registered[PlaceOf(an)]
  PROVE  Adapt(a, e, [q \in a.params |-> Param(ParamsOf(an), q)]) = RulesFor(an, e)
<1> DEFINE p == [q \in a.params |-> Param(ParamsOf(an), q)]
<1>1. CASE an.rule = "Required"
  BY <1>1 DEF Registered, PlaceOf, Add, Adapt, RulesFor
<1>2. CASE an.rule = "EmailAddress"
  <2>1. a.kind = "bool" /\ a.rule = "email"
    BY <1>2 DEF Registered, PlaceOf, AddBool, Or, Absent
  <2>2. QED
    BY <1>2, <2>1 DEF Adapt, RulesFor
<1>3. ASSUME an.rule = "Compare"
      PROVE  Adapt(a, e, p) = RulesFor(an, e)
  <2>1. a.kind = "equalto" /\ a.params = {"other"}
    BY <1>3 DEF Registered, PlaceOf, Add
  <2>2. p["other"] = Reference(TRUE, an.other)
    BY <1>3, <2>1 DEF ParamsOf, Param
  <2>3. FullName(e.prefix, Reference(TRUE, an.other)).prefix = e.prefix
    BY DEF FullName, Reference
  <2>4. Adapt(a, e, p) = EqualTo(e, p)
    BY <2>1 DEF Adapt
  <2> HIDE DEF p
  <2>5. QED
    BY <1>3, <2>2, <2>3, <2>4 DEF EqualTo, RulesFor
<1>4. ASSUME an.rule \in {"StringLength", "Range", "MinLength", "MaxLength"}
      PROVE  Adapt(a, e, p) = RulesFor(an, e)
  <2>1. /\ a.kind = "minmax" /\ a.params = {"min", "max"}
        /\ an.rule = "StringLength" =>
             a.maxRule = "maxlength" /\ a.minMaxRule = "rangelength"
        /\ an.rule = "Range" => a.minMaxRule = "range"
        /\ an.rule = "MinLength" => a.minRule = "minlength"
        /\ an.rule = "MaxLength" => a.maxRule = "maxlength"
    BY <1>4 DEF Registered, PlaceOf, AddMinMax, Or, Absent
  <2>2. /\ Param(p, "min") = Param(ParamsOf(an), "min")
        /\ Param(p, "max") = Param(ParamsOf(an), "max")
    BY <2>1 DEF Param
  <2>3. Adapt(a, e, p) = AdaptMinMax(a, p)
    BY <2>1 DEF Adapt
  <2>4. ~Given(Undefined)
    BY DEF Given, Undefined
  <2> HIDE DEF p
  <2>5. CASE an.rule = "StringLength" /\ an.min = 0
    <3>1. /\ Param(ParamsOf(an), "min") = Undefined
          /\ Param(ParamsOf(an), "max") = Str(Number(an.max))
      BY <2>5 DEF ParamsOf, Param
    <3>2. an.max \in Nat
      BY <2>5, AnnotationCases
    <3>3. QED
      BY <2>1, <2>2, <2>3, <2>4, <2>5, <3>1, <3>2, NumberGiven DEF AdaptMinMax, RulesFor
  <2>6. CASE an.rule \in {"StringLength", "Range"} /\ ~(an.rule = "StringLength" /\ an.min = 0)
    <3>1. /\ Param(ParamsOf(an), "min") = Str(Number(an.min))
          /\ Param(ParamsOf(an), "max") = Str(Number(an.max))
      BY <2>6 DEF ParamsOf, Param
    <3>2. an.min \in Nat /\ an.max \in Nat
      BY <2>6, AnnotationCases
    <3>3. QED
      BY <2>1, <2>2, <2>3, <2>6, <3>1, <3>2, NumberGiven DEF AdaptMinMax, RulesFor
  <2>7. CASE an.rule = "MinLength"
    <3>1. /\ Param(ParamsOf(an), "min") = Str(Number(an.min))
          /\ Param(ParamsOf(an), "max") = Undefined
      BY <2>7 DEF ParamsOf, Param
    <3>2. an.min \in Nat
      BY <2>7, AnnotationCases
    <3>3. QED
      BY <2>1, <2>2, <2>3, <2>4, <2>7, <3>1, <3>2, NumberGiven DEF AdaptMinMax, RulesFor
  <2>8. CASE an.rule = "MaxLength"
    <3>1. /\ Param(ParamsOf(an), "min") = Undefined
          /\ Param(ParamsOf(an), "max") = Str(Number(an.max))
      BY <2>8 DEF ParamsOf, Param
    <3>2. an.max \in Nat
      BY <2>8, AnnotationCases
    <3>3. QED
      BY <2>1, <2>2, <2>3, <2>4, <2>8, <3>1, <3>2, NumberGiven DEF AdaptMinMax, RulesFor
  <2>9. QED
    BY <1>4, <2>5, <2>6, <2>7, <2>8
<1>5. QED
  BY <1>1, <1>2, <1>3, <1>4, AnnotationCases

(* An annotation makes one rule.                                           *)
RuleOf(an) ==
  CASE an.rule = "Required"     -> "required"
    [] an.rule = "EmailAddress" -> "email"
    [] an.rule = "Compare"      -> "equalTo"
    [] an.rule = "StringLength" -> IF an.min = 0 THEN "maxlength" ELSE "rangelength"
    [] an.rule = "Range"        -> "range"
    [] an.rule = "MinLength"    -> "minlength"
    [] an.rule = "MaxLength"    -> "maxlength"

LEMMA OneRule ==
  ASSUME NEW an \in Annotation, NEW e, e.checkbox => an.rule # "Required"
  PROVE  DOMAIN RulesFor(an, e) = {RuleOf(an)} /\ RuleOf(an) # "__dummy__"
<1>1. CASE an.rule = "Required"
  BY <1>1 DEF RulesFor, RuleOf, RequiredRule, SetRule
<1>2. CASE an.rule # "Required"
  BY <1>2, AnnotationCases DEF RulesFor, RuleOf, SetRule
<1>3. QED
  BY <1>1, <1>2

(* Only StringLength without a minimum and MaxLength make the same rule.   *)
LEMMA SharedRule ==
  ASSUME NEW a \in Annotation, NEW b \in Annotation, RuleOf(a) = RuleOf(b)
  PROVE  \/ a.rule = b.rule
         \/ a.rule = "StringLength" /\ a.min = 0 /\ b.rule = "MaxLength"
         \/ b.rule = "StringLength" /\ b.min = 0 /\ a.rule = "MaxLength"
BY AnnotationCases DEF RuleOf

(* The adapter of an annotation reads the attributes rendered for it,      *)
(* whatever the page adds by hand.                                         *)
LEMMA AnnotationAdapted ==
  ASSUME NEW e \in Inputs, NEW an \in e.annotations
  PROVE  /\ an \in Annotation
         /\ RulesBy(Adapters[Ahead + PlaceOf(an)], e) = RulesFor(an, e)
         /\ Ahead + PlaceOf(an) \in DOMAIN Adapters
<1> DEFINE as == e.annotations
           a == Adapters[Ahead + PlaceOf(an)]
<1>1. /\ as \in SUBSET Annotation
      /\ \A b, c \in as : b.rule = c.rule => b = c
      /\ an \in Annotation
  BY InputsAssumption
<1>2. a = Registered[PlaceOf(an)] /\ a.name = AdapterOf(an)
  BY <1>1, AdapterPlace, AdapterList
<1>3. a.name \in DOMAIN Rendered(as) /\ Rendered(as)[a.name] = ParamsOf(an)
  BY <1>1, <1>2, RenderedAlone
<1>4. Attributes(e)[a.name] = ParamsOf(an) /\ a.name \in DOMAIN Attributes(e)
  BY <1>3 DEF Attributes
<1>5. ParamValues(a, Attributes(e)) = [q \in a.params |-> Param(ParamsOf(an), q)]
  BY <1>4 DEF ParamValues
<1>6. RulesBy(a, e) = Adapt(a, e, ParamValues(a, Attributes(e)))
  BY <1>4 DEF RulesBy
<1>7. PlaceOf(an) \in 1 .. 15 /\ Ahead \in {1, 2} /\ DOMAIN Adapters = 1 .. Ahead + 15
  BY <1>1, AdapterPlace, AdapterList
<1>8. Ahead + PlaceOf(an) \in DOMAIN Adapters
  BY <1>7
<1>9. QED
  BY <1>1, <1>2, <1>5, <1>6, <1>8, AdaptsAnnotation

(* Of an input without attributes written by hand the setters of a rule    *)
(* are the adapters of annotations.                                        *)
LEMMA AnnotatedInput ==
  ASSUME NEW e \in Inputs, DOMAIN e.extra = {}, NEW rule
  PROVE  /\ \A i \in Setters(e, rule) :
              \E an \in e.annotations : /\ i = Ahead + PlaceOf(an)
                                        /\ rule \in DOMAIN RulesFor(an, e)
         /\ \A an \in e.annotations :
              rule \in DOMAIN RulesFor(an, e) => Ahead + PlaceOf(an) \in Setters(e, rule)
<1> DEFINE as == e.annotations
<1>1. /\ as \in SUBSET Annotation
      /\ \A a, b \in as : a.rule = b.rule => a = b
  BY InputsAssumption
<1>2. ASSUME NEW i \in Setters(e, rule)
      PROVE  \E an \in as : i = Ahead + PlaceOf(an) /\ rule \in DOMAIN RulesFor(an, e)
  <2>1. i \in DOMAIN Adapters /\ rule \in DOMAIN RulesBy(Adapters[i], e)
    BY DEF Setters
  <2>2. Adapters[i].name \in DOMAIN Attributes(e)
    BY <2>1 DEF RulesBy, NoRule
  <2>3. DOMAIN Attributes(e) = DOMAIN Rendered(as)
    BY DEF Attributes
  <2>4. PICK an \in as : Adapters[i].name = AdapterOf(an)
    BY <1>1, <2>2, <2>3, RenderedAlone
  <2>5. i = Ahead + PlaceOf(an)
    BY <1>1, <2>1, <2>4, AdapterPlace
  <2>6. QED
    BY <2>1, <2>4, <2>5, AnnotationAdapted
<1>3. ASSUME NEW an \in as, rule \in DOMAIN RulesFor(an, e)
      PROVE  Ahead + PlaceOf(an) \in Setters(e, rule)
  BY <1>3, AnnotationAdapted DEF Setters
<1>4. QED
  BY <1>2, <1>3

(* Every rule set for such an input is that of an annotation, and the rule *)
(* of an annotation is there, from that annotation or from a later one.    *)
LEMMA AnnotatedSetRules ==
  ASSUME NEW e \in Inputs, DOMAIN e.extra = {}
  PROVE  /\ \A rule \in DOMAIN SetRules(e) :
              rule # "__dummy__" =>
                \E an \in e.annotations :
                  RuleOf(an) = rule /\ SetRules(e)[rule] = RulesFor(an, e)[rule]
         /\ \A an \in e.annotations :
              /\ RuleOf(an) \in DOMAIN SetRules(e)
              /\ \E b \in e.annotations :
                   /\ RuleOf(b) = RuleOf(an)
                   /\ PlaceOf(an) <= PlaceOf(b)
                   /\ SetRules(e)[RuleOf(an)] = RulesFor(b, e)[RuleOf(an)]
<1> DEFINE as == e.annotations
<1>1. ASSUME NEW an \in as
      PROVE  /\ an \in Annotation
             /\ DOMAIN RulesFor(an, e) = {RuleOf(an)} /\ RuleOf(an) # "__dummy__"
  <2>1. an \in Annotation /\ (e.checkbox => an.rule # "Required")
    BY InputsAssumption
  <2>2. QED
    BY <2>1, OneRule
<1>2. ASSUME NEW rule \in DOMAIN SetRules(e), rule # "__dummy__"
      PROVE  \E an \in as : RuleOf(an) = rule /\ SetRules(e)[rule] = RulesFor(an, e)[rule]
  <2> DEFINE last == Max(Setters(e, rule))
  <2>1. last \in Setters(e, rule) /\ SetRules(e)[rule] = RulesBy(Adapters[last], e)[rule]
    BY <1>2, RuleOfLast
  <2> HIDE DEF last
  <2>2. PICK an \in as : last = Ahead + PlaceOf(an) /\ rule \in DOMAIN RulesFor(an, e)
    BY <2>1, AnnotatedInput
  <2>3. RulesBy(Adapters[last], e) = RulesFor(an, e)
    BY <2>2, AnnotationAdapted
  <2>4. QED
    BY <1>1, <2>1, <2>2, <2>3
<1>3. ASSUME NEW an \in as
      PROVE  /\ RuleOf(an) \in DOMAIN SetRules(e)
             /\ \E b \in as : /\ RuleOf(b) = RuleOf(an)
                              /\ PlaceOf(an) <= PlaceOf(b)
                              /\ SetRules(e)[RuleOf(an)] = RulesFor(b, e)[RuleOf(an)]
  <2> DEFINE rule == RuleOf(an)
             last == Max(Setters(e, rule))
  <2>1. Ahead + PlaceOf(an) \in Setters(e, rule)
    BY <1>1, AnnotatedInput
  <2>2. /\ rule \in DOMAIN SetRules(e)
        /\ last \in Setters(e, rule) /\ Ahead + PlaceOf(an) <= last
        /\ SetRules(e)[rule] = RulesBy(Adapters[last], e)[rule]
    BY <1>1, <2>1, RuleOfLast
  <2> HIDE DEF last, rule
  <2>3. PICK b \in as : last = Ahead + PlaceOf(b) /\ rule \in DOMAIN RulesFor(b, e)
    BY <2>2, AnnotatedInput
  <2>4. RulesBy(Adapters[last], e) = RulesFor(b, e)
    BY <2>3, AnnotationAdapted
  <2>5. PlaceOf(an) <= PlaceOf(b)
    <3>1. an \in Annotation /\ b \in Annotation
      BY <1>1
    <3>2. PlaceOf(an) \in 1 .. 15 /\ PlaceOf(b) \in 1 .. 15 /\ Ahead \in {1, 2}
      BY <3>1, AdapterPlace, AdapterList
    <3>3. QED
      BY <2>2, <2>3, <3>2
  <2>6. RuleOf(b) = rule
    BY <1>1, <2>3
  <2>7. QED
    BY <2>2, <2>3, <2>4, <2>5, <2>6 DEF rule
<1>4. QED
  BY <1>2, <1>3

(* No rule of an annotation is without its parameter.                      *)
LEMMA AnnotationGiven ==
  ASSUME NEW an \in Annotation, NEW e, NEW rule \in DOMAIN RulesFor(an, e)
  PROVE  Given(RulesFor(an, e)[rule])
<1>1. Given(True) /\ (\A x, y : Given(Pair(x, y))) /\ (\A x : Given(Element(x)))
  BY DEF Given, True, Pair, Element
<1>2. CASE an.rule = "Required"
  BY <1>1, <1>2 DEF RulesFor, RequiredRule, SetRule, NoRule
<1>3. CASE an.rule \in {"EmailAddress", "Compare"}
  BY <1>1, <1>3 DEF RulesFor, SetRule
<1>4. CASE an.rule \in {"StringLength", "Range", "MinLength", "MaxLength"}
  BY <1>1, <1>4, AnnotationCases, NumberGiven DEF RulesFor, SetRule
<1>5. QED
  BY <1>2, <1>3, <1>4, AnnotationCases

(* So every rule that is set for such an input is in force.                *)
LEMMA AnnotatedRules ==
  ASSUME NEW e \in Inputs, DOMAIN e.extra = {}
  PROVE  /\ \A rule \in DOMAIN Rules(e) :
              rule # "__dummy__" =>
                \E an \in e.annotations :
                  RuleOf(an) = rule /\ Rules(e)[rule] = RulesFor(an, e)[rule]
         /\ \A an \in e.annotations :
              /\ RuleOf(an) \in DOMAIN Rules(e)
              /\ \E b \in e.annotations :
                   /\ RuleOf(b) = RuleOf(an)
                   /\ PlaceOf(an) <= PlaceOf(b)
                   /\ Rules(e)[RuleOf(an)] = RulesFor(b, e)[RuleOf(an)]
<1>1. \A rule \in DOMAIN Rules(e) :
        rule \in DOMAIN SetRules(e) /\ Rules(e)[rule] = SetRules(e)[rule]
  BY DEF Rules
<1>2. ASSUME NEW an \in e.annotations
      PROVE  Given(SetRules(e)[RuleOf(an)])
  <2>1. PICK b \in e.annotations :
          RuleOf(b) = RuleOf(an) /\ SetRules(e)[RuleOf(an)] = RulesFor(b, e)[RuleOf(an)]
    BY AnnotatedSetRules
  <2>2. b \in Annotation /\ (e.checkbox => b.rule # "Required")
    BY InputsAssumption
  <2>3. RuleOf(b) \in DOMAIN RulesFor(b, e)
    BY <2>2, OneRule
  <2>4. QED
    BY <2>1, <2>2, <2>3, AnnotationGiven
<1>3. \A an \in e.annotations :
        /\ RuleOf(an) \in DOMAIN SetRules(e)
        /\ RuleOf(an) \in DOMAIN Rules(e)
  BY <1>2, AnnotatedSetRules DEF Rules
<1>4. QED
  BY <1>1, <1>3, AnnotatedSetRules

-----------------------------------------------------------------------------
(* What the rules accept.                                                  *)

(* The rule that an annotation makes accepts what the annotation means,    *)
(* but for loose addresses, and nothing else.                              *)
LEMMA RuleMeans ==
  ASSUME NEW an \in Annotation, NEW e, e.checkbox => an.rule # "Required",
         NEW t \in Texts, NEW other \in Texts,
         "spaces" \notin {t.kind, other.kind}
  PROVE  LET rule == RuleOf(an)
             passes == Holds(rule, Normalized(rule, RulesFor(an, e)[rule]), t, other)
         IN  /\ passes => Means(an, t, other)
             /\ Means(an, t, other) /\ t.kind # "loose" => passes
<1> DEFINE rule == RuleOf(an)
           x == RulesFor(an, e)[rule]
           passes == Holds(rule, Normalized(rule, x), t, other)
<1>1. /\ t \in Text /\ other \in Text
      /\ Blank(t) /\ Blank(other) => t = other
  BY TextsAssumption
<1>2. /\ Null(t) <=> Blank(t)
      /\ Null(other) <=> Blank(other)
  BY DEF Null
<1>3. t.len \in Nat /\ t.n \in Nat
  BY <1>1 DEF Text
<1>4. CASE an.rule = "Required"
  <2>1. rule = "required"
    BY <1>4 DEF RuleOf
  <2>2. passes <=> ~Blank(t)
    BY <2>1 DEF Holds
  <2>3. QED
    BY <1>2, <1>4, <2>2 DEF Means
<1>5. CASE an.rule = "EmailAddress"
  <2>1. rule = "email"
    BY <1>5 DEF RuleOf
  <2>2. passes <=> Blank(t) \/ t.kind = "address"
    BY <2>1 DEF Holds
  <2>3. QED
    BY <1>2, <1>5, <2>2 DEF Means
<1>6. CASE an.rule = "Compare"
  <2>1. rule = "equalTo"
    BY <1>6 DEF RuleOf
  <2>2. passes <=> t = other
    BY <2>1 DEF Holds
  <2>3. QED
    BY <1>1, <1>2, <1>6, <2>2 DEF Means
<1>7. CASE an.rule = "StringLength" /\ an.min = 0
  <2>1. rule = "maxlength" /\ an.max \in Nat
    BY <1>7, AnnotationCases DEF RuleOf
  <2>2. x = Str(Number(an.max))
    BY <1>7, <2>1 DEF RulesFor, SetRule
  <2>3. Normalized(rule, x) = Num(an.max)
    BY <2>1, <2>2, NumberGiven DEF Normalized
  <2>4. passes <=> Blank(t) \/ t.len <= an.max
    BY <2>1, <2>3 DEF Holds, Num
  <2>5. QED
    BY <1>2, <1>3, <1>7, <2>4 DEF Means
<1>8. CASE an.rule = "StringLength" /\ an.min # 0
  <2>1. rule = "rangelength" /\ an.min \in Nat /\ an.max \in Nat
    BY <1>8, AnnotationCases DEF RuleOf
  <2>2. x = Pair(Str(Number(an.min)), Str(Number(an.max)))
    BY <1>8, <2>1 DEF RulesFor, SetRule
  <2>3. Normalized(rule, x) = Pair(Num(an.min), Num(an.max))
    BY <2>1, <2>2, NumberGiven DEF Normalized, Pair
  <2>4. passes <=> Blank(t) \/ (t.len >= an.min /\ t.len <= an.max)
    BY <2>1, <2>3 DEF Holds, Num, Pair
  <2>5. QED
    BY <1>2, <1>3, <1>8, <2>1, <2>4 DEF Means
<1>9. CASE an.rule = "Range"
  <2>1. rule = "range" /\ an.min \in Nat /\ an.max \in Nat
    BY <1>9, AnnotationCases DEF RuleOf
  <2>2. x = Pair(Str(Number(an.min)), Str(Number(an.max)))
    BY <1>9, <2>1 DEF RulesFor, SetRule
  <2>3. Normalized(rule, x) = Pair(Num(an.min), Num(an.max))
    BY <2>1, <2>2, NumberGiven DEF Normalized, Pair
  <2>4. /\ Leq(Num(an.min), Str(t)) <=> t.kind = "digits" /\ an.min <= t.n
        /\ Leq(Str(t), Num(an.max)) <=> t.kind = "digits" /\ t.n <= an.max
    BY DEF Leq, Num, Str, Numeric, ToNumber
  <2>5. passes <=> Blank(t) \/ (Leq(Num(an.min), Str(t)) /\ Leq(Str(t), Num(an.max)))
    BY <2>1, <2>3 DEF Holds, Pair
  <2>6. QED
    BY <1>2, <1>9, <2>4, <2>5 DEF Means
<1>10. CASE an.rule = "MinLength"
  <2>1. rule = "minlength" /\ an.min \in Nat
    BY <1>10, AnnotationCases DEF RuleOf
  <2>2. x = Str(Number(an.min))
    BY <1>10, <2>1 DEF RulesFor, SetRule
  <2>3. Normalized(rule, x) = Num(an.min)
    BY <2>1, <2>2, NumberGiven DEF Normalized
  <2>4. passes <=> Blank(t) \/ t.len >= an.min
    BY <2>1, <2>3 DEF Holds, Num
  <2>5. QED
    BY <1>2, <1>3, <1>10, <2>1, <2>4 DEF Means
<1>11. CASE an.rule = "MaxLength"
  <2>1. rule = "maxlength" /\ an.max \in Nat
    BY <1>11, AnnotationCases DEF RuleOf
  <2>2. x = Str(Number(an.max))
    BY <1>11, <2>1 DEF RulesFor, SetRule
  <2>3. Normalized(rule, x) = Num(an.max)
    BY <2>1, <2>2, NumberGiven DEF Normalized
  <2>4. passes <=> Blank(t) \/ t.len <= an.max
    BY <2>1, <2>3 DEF Holds, Num
  <2>5. QED
    BY <1>2, <1>3, <1>11, <2>4 DEF Means
<1>12. (passes => Means(an, t, other)) /\ (Means(an, t, other) /\ t.kind # "loose" => passes)
  BY <1>4, <1>5, <1>6, <1>7, <1>8, <1>9, <1>10, <1>11, AnnotationCases
<1>13. QED
  BY <1>12

-----------------------------------------------------------------------------
(* The states: an input that does not change, and two texts.               *)

TypeInv == input \in Inputs /\ typed \in Texts /\ compared \in Texts

LEMMA TypesHold == Spec => []TypeInv
<1>1. Init => TypeInv
  BY DEF Init, TypeInv
<1>2. TypeInv /\ [Next]_vars => TypeInv'
  BY DEF TypeInv, Next, Type, TypeOther, vars
<1>3. QED
  BY <1>1, <1>2, PTL DEF Spec

(* A text that the model accepts passes the form, for every input that has *)
(* the attributes of its annotations and no others: the adapters add no    *)
(* rule of their own, and of two that set one rule the later one is also   *)
(* an annotation's.                                                        *)
THEOREM GoodFormsPass == Spec => []NothingGoodRefused
<1>1. ASSUME TypeInv PROVE NothingGoodRefused
  <2> SUFFICES ASSUME DOMAIN input.extra = {}, typed.kind # "loose",
                      "spaces" \notin {typed.kind, compared.kind},
                      ModelAccepts(input, typed, compared),
                      NEW rule \in DOMAIN Rules(input)
               PROVE  Holds(rule, Normalized(rule, Rules(input)[rule]), typed, compared)
    BY DEF NothingGoodRefused, Accepts
  <2>1. CASE rule = "__dummy__"
    BY <2>1 DEF Holds
  <2>2. CASE rule # "__dummy__"
    <3>1. PICK an \in input.annotations :
            RuleOf(an) = rule /\ Rules(input)[rule] = RulesFor(an, input)[rule]
      BY <1>1, <2>2, AnnotatedRules DEF TypeInv
    <3>2. an \in Annotation /\ (input.checkbox => an.rule # "Required")
      BY <1>1, InputsAssumption DEF TypeInv
    <3>3. Means(an, typed, compared)
      BY DEF ModelAccepts
    <3>4. QED
      BY <1>1, <3>1, <3>2, <3>3, RuleMeans DEF TypeInv
  <2>3. QED
    BY <2>1, <2>2
<1>2. QED
  BY <1>1, TypesHold, PTL

(* A text that passes the form satisfies every annotation, provided that   *)
(* MaxLength, where it shares its rule with a StringLength without a       *)
(* minimum, is not the more generous of the two: its adapter comes later.  *)
THEOREM BadFormsStop ==
  ASSUME \A e \in Inputs : OneMaximum(e)
  PROVE  Spec => []NothingBadPassed
<1>1. ASSUME TypeInv PROVE NothingBadPassed
  <2> SUFFICES ASSUME DOMAIN input.extra = {},
                      "spaces" \notin {typed.kind, compared.kind},
                      Accepts(input, typed, compared),
                      NEW an \in input.annotations
               PROVE  Means(an, typed, compared)
    BY DEF NothingBadPassed, ModelAccepts
  <2>1. PICK b \in input.annotations :
          /\ RuleOf(an) \in DOMAIN Rules(input)
          /\ RuleOf(b) = RuleOf(an)
          /\ PlaceOf(an) <= PlaceOf(b)
          /\ Rules(input)[RuleOf(an)] = RulesFor(b, input)[RuleOf(an)]
    BY <1>1, AnnotatedRules DEF TypeInv
  <2>2. /\ an \in Annotation /\ b \in Annotation
        /\ input.checkbox => b.rule # "Required"
        /\ an.rule = b.rule => an = b
    BY <1>1, InputsAssumption DEF TypeInv
  <2>3. Holds(RuleOf(b), Normalized(RuleOf(b), RulesFor(b, input)[RuleOf(b)]),
              typed, compared)
    BY <2>1 DEF Accepts
  <2>4. Means(b, typed, compared)
    BY <1>1, <2>2, <2>3, RuleMeans DEF TypeInv
  <2>5. CASE an.rule = b.rule
    BY <2>2, <2>4, <2>5
  <2>6. CASE an.rule = "StringLength" /\ an.min = 0 /\ b.rule = "MaxLength"
    <3>1. b.max <= an.max
      BY <1>1, <2>6 DEF OneMaximum, TypeInv
    <3>2. an.max \in Nat /\ b.max \in Nat /\ typed.len \in Nat
      BY <1>1, <2>2, <2>6, AnnotationCases, TextsAssumption DEF TypeInv, Text
    <3>3. QED
      BY <2>4, <2>6, <3>1, <3>2 DEF Means
  <2>7. ~(b.rule = "StringLength" /\ an.rule = "MaxLength")
    BY <2>1 DEF PlaceOf
  <2>8. QED
    BY <2>1, <2>2, <2>5, <2>6, <2>7, SharedRule
<1>2. QED
  BY <1>1, TypesHold, PTL

=============================================================================

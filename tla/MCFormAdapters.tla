--------------------------- MODULE MCFormAdapters ---------------------------
(***************************************************************************)
(* Instances of FormAdapters: the annotations of EmployeeInputModel and    *)
(* EmployeeUpdateModel with bounds scaled down, and inputs whose data-val  *)
(* attributes are written by hand.                                         *)
(***************************************************************************)
EXTENDS FormAdapters, TLC

(* The methods of jquery.validate.js and of the unobtrusive script; the    *)
(* page does not load additional-methods.js.                               *)
CoreMethods == {"required", "email", "url", "date", "dateISO", "number", "digits",
                "minlength", "maxlength", "rangelength", "min", "max", "range",
                "step", "equalTo", "remote", "__dummy__", "regex", "nonalphamin"}

Required    == [rule |-> "Required"]
Email       == [rule |-> "EmailAddress"]
Confirm     == [rule |-> "Compare", other |-> "Password"]
Between(lo, hi) == [rule |-> "StringLength", min |-> lo, max |-> hi]
AtLeast(lo)     == [rule |-> "MinLength", min |-> lo]
AtMost(hi)      == [rule |-> "MaxLength", max |-> hi]
Within(lo, hi)  == [rule |-> "Range", min |-> lo, max |-> hi]

Field(annotations, prefix) ==
  [prefix |-> prefix, checkbox |-> FALSE, annotations |-> annotations,
   extra |-> <<>>]

ModelInputs ==
  {Field(as, prefix) : as \in {{Required, Between(2, 3)}, {Required, Between(2, 4), Email},
                               {Required, Between(2, 3), Confirm}, {Between(2, 3), Confirm},
                               {Required, Within(5, 30)}, {Between(0, 3)}, {Within(0, 99)},
                               {Email, Between(2, 4)}, {AtLeast(2), AtMost(4)},
                               {Required, AtMost(3)}, {Between(0, 4), AtMost(3)}},
                       prefix \in {"", "New."}}

Word(kind, len) == [kind |-> kind, len |-> len, n |-> 0, symbols |-> 0]

AllTexts == {Word("letters", l) : l \in 0..5} \cup {Word("spaces", 2)}
            \cup {[Word("letters", l) EXCEPT !.symbols = 1] : l \in {2, 3}}
            \cup {Word(k, l) : k \in {"address", "loose"}, l \in {3, 5}}
            \cup {Number(n) : n \in {0, 4, 5, 9, 10, 30, 31, 50, 99}}

ByHand(extra) == [prefix |-> "", checkbox |-> FALSE, annotations |-> {},
                  extra |-> extra]

(* A password field, digits, numbers, a pattern, a checkbox that is        *)
(* required and a text field that is; a range with one bound or with both; *)
(* a repetition, of a field with a prefix too, whose name has "*." or not. *)
HandInputs ==
  {ByHand("password" :> (("min" :> Str(Number(3))) @@ ("nonalphamin" :> Str(Number(1))))),
   ByHand("digits" :> <<>>), ByHand("number" :> <<>>),
   ByHand("regex" :> ("pattern" :> [js |-> "string", kinds |-> {"letters"}])),
   ByHand("required" :> <<>>),
   [ByHand("required" :> <<>>) EXCEPT !.checkbox = TRUE],
   ByHand("range" :> (("min" :> Str(Number(5))) @@ ("max" :> Str(Number(9)))))}
  \cup {ByHand("range" :> (bound :> Str(Number(n)))) : bound \in {"min", "max"}, n \in {5, 31}}
  \cup {[ByHand("equalto" :> ("other" :> Reference(star, "Password"))) EXCEPT !.prefix = prefix]
          : star \in BOOLEAN, prefix \in {"", "New."}}

AllInputs == ModelInputs \cup HandInputs

(* These inputs meet the condition of the theorem about all inputs.        *)
ASSUME \A e \in AllInputs : OneMaximum(e)

=============================================================================

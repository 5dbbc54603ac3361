-------------------------- MODULE MCFormValidation --------------------------
(***************************************************************************)
(* Instances of FormValidation.                                            *)
(***************************************************************************)
EXTENDS FormValidation, TLC

CONSTANTS f1, f2, blank, good, other, bad

TwoFields == {f1, f2}

(* Two fields with remote checks, as UniqueEmail and UniqueEmployeeNumber  *)
(* of EmployeeInputModel would ask for: one required, the other with a     *)
(* pattern.                                                                *)
BothRemote == (f1 :> {"required", "remote"}) @@ (f2 :> {"regex", "remote"})

TwoEach   == [f \in TwoFields |-> {blank, good}]
ThreeOne  == (f1 :> {blank, good, other}) @@ (f2 :> {blank, bad})

(* One remote check beside a field with local rules only.                  *)
OneRemote == (f1 :> {"required", "remote"}) @@ (f2 :> {"regex"})
=============================================================================

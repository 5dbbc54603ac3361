------------------------ MODULE MCEmployeeDirectory ------------------------
(***************************************************************************)
(* Instances of EmployeeDirectory, with the inputs of MCEmployeeService.   *)
(***************************************************************************)
EXTENDS EmployeeDirectory, MCEmployeeService
=============================================================================

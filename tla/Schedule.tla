------------------------------ MODULE Schedule ------------------------------
(***************************************************************************)
(* When a certificate is due (detent-acme's schedule.rs): lifetime         *)
(* arithmetic on whole seconds.  A certificate is its age, the time since  *)
(* not_before, and its life, not_after - not_before.  A window is the      *)
(* start of the one ARI suggests, counted from not_before.                 *)
(***************************************************************************)
EXTENDS Integers

Lesser(a, b) == IF a <= b THEN a ELSE b

Greater(a, b) == IF a >= b THEN a ELSE b

(* A broken lifetime is used up; a clock before not_before counts as new.   *)
percent_used(life, age) ==
  IF life <= 0 THEN 100 ELSE Lesser((Greater(age, 0) * 100) \div life, 100)

should_renew(life, age) == percent_used(life, age) >= 66

should_renew_in_window(life, age, start) == should_renew(life, age) \/ age >= start

(* The age at which two thirds of the life are used, in due_at.             *)
two_thirds(life) == (life * 66 + 99) \div 100

(* The time until due_at, as next_check takes it: none when it has passed,  *)
(* and none with a broken lifetime, whose due_at is i64::MIN.               *)
until_due(life, age) == IF life <= 0 THEN 0 ELSE Greater(two_thirds(life) - age, 0)

until_due_in_window(life, age, start) ==
  IF life <= 0 THEN 0 ELSE Greater(Lesser(start, two_thirds(life)) - age, 0)
=============================================================================

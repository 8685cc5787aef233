----------------------------- MODULE Allowance -----------------------------
(***************************************************************************)
(* AllowanceSemaphore (src/src/AllowanceSemaphore.h) as operators on its   *)
(* only field, value_.  Addition saturates at the largest value, which     *)
(* from then on stands for an infinite allowance.                          *)
(***************************************************************************)
EXTENDS Naturals

CONSTANT SizeMax    \* the largest size_t

ASSUME SizeMaxAssumption == SizeMax \in Nat

IsInfinite(value) == value = SizeMax

CanAcquire(value) == value >= 1

AfterAcquire(value) == IF IsInfinite(value) THEN value ELSE value - 1

Release(value, n) == IF value + n > SizeMax THEN SizeMax ELSE value + n

(***************************************************************************)
(* drainWithLimit: what is drained, and what is left.  An infinite         *)
(* allowance is returned whole, whatever the limit, and is not used up.    *)
(***************************************************************************)
Drained(value, limit) ==
    IF IsInfinite(value) \/ value <= limit THEN value ELSE limit

AfterDrain(value, limit) ==
    IF IsInfinite(value) THEN value ELSE value - Drained(value, limit)

=============================================================================

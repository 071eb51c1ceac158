-------------------------- MODULE MembershipSteps ---------------------------
(***************************************************************************)
(* What Store.Update promises of the membership object, whoever changes it *)
(* and however: every generation is a valid membership, made by a step the *)
(* store admits of the one before.                                         *)
(***************************************************************************)
EXTENDS Membership

VARIABLE m

Starts == m \in Memberships /\ Valid(m)

Changes == m' \in Memberships /\ Valid(m') /\ Step(m, m')

Spec == Starts /\ [][Changes]_m
=============================================================================

------------------------------ MODULE MCOutbox ------------------------------
(***************************************************************************)
(* One dispatcher that never dies, the deployed limits.                    *)
(***************************************************************************)
EXTENDS Outbox

CONSTANT d1

OneDispatcher == {d1}
=============================================================================

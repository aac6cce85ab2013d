------------------------------ MODULE Mandates ------------------------------
(***************************************************************************)
(* What governance promises about the money of the treasury: once it holds *)
(* the treasury, money leaves only by a mandate, a proposal that was put   *)
(* up, decided once, and is paid once, with its own amount.                *)
(***************************************************************************)
EXTENDS Naturals

CONSTANTS
    Ids,
    NoMandate   \* the content of a proposal that spends nothing

VARIABLES
    wired,      \* governance holds the treasury
    stage,      \* id -> "none", "Active", "Passed", "Rejected" or "Executed"
    content,    \* id -> [token_kind, amount, internal], or NoMandate
    purse       \* kind -> what the treasury holds

mandateVars == <<wired, stage, content, purse>>

MandateInit ==
    /\ wired = FALSE
    /\ stage = [id \in Ids |-> "none"]

Propose(id) ==
    /\ stage[id] = "none"
    /\ stage' = [stage EXCEPT ![id] = "Active"]
    /\ \A other \in Ids \ {id} : content'[other] = content[other]
    /\ UNCHANGED <<wired, purse>>

Decide(id) ==
    /\ stage[id] = "Active"
    /\ \E outcome \in {"Passed", "Rejected"} : stage' = [stage EXCEPT ![id] = outcome]
    /\ UNCHANGED <<wired, content, purse>>

\* Payments to the treasury itself move nothing.
Pay(id) ==
    /\ stage[id] = "Passed"
    /\ stage' = [stage EXCEPT ![id] = "Executed"]
    /\ IF content[id] = NoMandate \/ content[id].internal
       THEN UNCHANGED purse
       ELSE /\ purse[content[id].token_kind] >= content[id].amount
            /\ purse' = [purse EXCEPT ![content[id].token_kind] = @ - content[id].amount]
    /\ UNCHANGED <<wired, content>>

Receive ==
    /\ \A kind \in DOMAIN purse : purse'[kind] >= purse[kind]
    /\ UNCHANGED <<wired, stage, content>>

\* Before that the deployer may spend and hand over the treasury.
Deploy ==
    /\ ~wired
    /\ UNCHANGED <<stage, content>>

MandateNext ==
    \/ \E id \in Ids : Propose(id) \/ Decide(id) \/ Pay(id)
    \/ Receive
    \/ Deploy

MandateSpec == MandateInit /\ [][MandateNext]_mandateVars
=============================================================================

---------------------------- MODULE Distribution ----------------------------
(***************************************************************************)
(* The distribution contract: anyone may trigger a payout, which pays      *)
(* every whole epoch since the last payment. A payout is one transaction   *)
(* with its two messages, the transfer by the token and DistributeRewards  *)
(* of the recipient: when one of them fails nothing happens.               *)
(***************************************************************************)
EXTENDS Integers

CONSTANTS
    Tokens, Recipients, Admins,
    Handling,            \* the recipients that handle DistributeRewards
    Epochs, Payments,    \* inputs of the configuration
    MaxFunds,            \* the balance is funded up to here
    MaxTime, MaxUpdates

DistributionAssumption ==
    /\ Handling \subseteq Recipients
    /\ Epochs \subseteq Nat /\ Payments \subseteq Nat
    /\ MaxFunds \in Nat /\ MaxTime \in Nat /\ MaxUpdates \in Nat

VARIABLES
    cfg,                 \* CONFIG
    balance,             \* of this contract, by token
    received,            \* by the recipients, by token
    now,
    base, paid,          \* last_payment at the last change of CONFIG, and what was paid since
    updates

vars == <<cfg, balance, received, now, base, paid, updates>>

Configs ==
    [cw20_contract : Tokens, epoch : Epochs, payment : Payments, recipient : Recipients,
     admin : Admins, last_payment : 0 .. MaxTime]

Init ==
    /\ now = 0
    /\ cfg \in {c \in Configs : c.last_payment = now}
    /\ balance = [t \in Tokens |-> 0]
    /\ received = [r \in Recipients |-> [t \in Tokens |-> 0]]
    /\ base = now /\ paid = 0 /\ updates = 0

\* Fields that are None in the message keep their values; last_payment is no
\* field of it.
execute_update_config(sender, new) ==
    /\ updates < MaxUpdates
    /\ sender = cfg.admin
    /\ new.last_payment = cfg.last_payment
    /\ cfg' = new
    /\ base' = cfg.last_payment /\ paid' = 0 /\ updates' = updates + 1
    /\ UNCHANGED <<balance, received, now>>

\* A division by an epoch of 0 panics.
Due == IF cfg.epoch = 0 THEN 0 ELSE (now - cfg.last_payment) \div cfg.epoch

\* Fault: the next epoch begins with the payout, so what it is late by is lost.
LastPayment_Now == now

LastPayment == cfg.last_payment + Due * cfg.epoch

execute_payout ==
    LET amount == cfg.payment * Due IN
    /\ Due > 0
    /\ cfg' = [cfg EXCEPT !.last_payment = LastPayment]
    /\ amount > 0 => amount <= balance[cfg.cw20_contract] /\ cfg.recipient \in Handling
    /\ balance' = [balance EXCEPT ![cfg.cw20_contract] = @ - amount]
    /\ received' = [received EXCEPT ![cfg.recipient][cfg.cw20_contract] = @ + amount]
    /\ paid' = paid + amount
    /\ UNCHANGED <<now, base, updates>>

\* Somebody sends tokens to the contract.
Fund(t) ==
    /\ balance[t] < MaxFunds
    /\ balance' = [balance EXCEPT ![t] = @ + 1]
    /\ UNCHANGED <<cfg, received, now, base, paid, updates>>

Tick == now < MaxTime /\ now' = now + 1 /\ UNCHANGED <<cfg, balance, received, base, paid, updates>>

Next ==
    \/ \E sender \in Admins, new \in Configs : execute_update_config(sender, new)
    \/ execute_payout
    \/ \E t \in Tokens : Fund(t)
    \/ Tick

Spec == Init /\ [][Next]_vars

\* The bot calls again and again, and the contract is kept funded.
FairSpec == Spec /\ WF_vars(execute_payout) /\ \A t \in Tokens : WF_vars(Fund(t))

-----------------------------------------------------------------------------
(* Properties *)

\* However late and irregular the payouts are, whole epochs are paid, each
\* with one payment, and no time is lost between them. Epochs that are open
\* when the configuration changes are paid by the new one.
WholeEpochsPaid == [][paid' * cfg'.epoch = (cfg'.last_payment - base') * cfg'.payment]_vars

\* Several missed epochs need the whole amount at once; with a recipient that
\* handles DistributeRewards they are paid once the contract holds enough.
MissedEpochsPaid == Due > 0 /\ cfg.recipient \in Handling ~> Due = 0 \/ cfg.recipient \notin Handling

=============================================================================

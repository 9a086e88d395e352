----------------------------- MODULE MCRpcPolling -----------------------------
(* The instances of the poller.                                                 *)
EXTENDS RpcPolling

CONSTANTS program, multisig

\* Two addresses; one transaction touches both of them.
TwoAddresses == {program, multisig}
TwoTransactions == 1..2
ConsecutiveSlots == [t \in TwoTransactions |-> t + 1]
FirstSlots == [t \in TwoTransactions |-> t]
OneOfThemShared == [t \in TwoTransactions |-> IF t = 1 THEN {multisig} ELSE {program, multisig}]

\* One address.
OneAddress == {program}
OnTheProgram == [t \in TwoTransactions |-> {program}]

\* One transaction.
OneTransaction == {1}
SlotTwo == [t \in OneTransaction |-> 2]
OneOnTheProgram == [t \in OneTransaction |-> {program}]
===============================================================================

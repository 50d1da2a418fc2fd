------------------------------ MODULE MCLedger ------------------------------
(* Scenarios for Ledger: which commands are used, and how often.           *)
EXTENDS Ledger

Scenario(n, amounts, mine, send, deliver, foreign, reindex) ==
    [txs |-> n, amounts |-> amounts, mine |-> mine, send |-> send,
     deliver |-> deliver, foreign |-> foreign, reindex |-> reindex]

TwoSends == {Scenario(4, {1}, 0, 2, 1, 0, 0)}
=============================================================================

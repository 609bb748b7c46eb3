----------------------------- MODULE MCReceipt -----------------------------
(***************************************************************************)
(* Small instances of the receipt for TLC.                                 *)
(***************************************************************************)
EXTENDS Receipt

CONSTANTS t1, t2, caller

Two == {t1, t2}

Ev(kind, pay) == [idx |-> 1, kind |-> kind, pay |-> pay, error |-> "absent"]
Err(kind, error) == [idx |-> 1, kind |-> kind, pay |-> 0, error |-> error]
Other == [idx |-> 0, kind |-> "deposit", pay |-> 8, error |-> "absent"]

\* What a runtime deposits for an extrinsic, with and without
\* TransactionFeePaid, and what MevShield adds for encrypted ones.
Traces == {
  <<>>,
  <<Ev("deposit", 1), Ev("paid", 2), Ev("success", 0)>>,
  <<Ev("deposit", 1), Ev("deposit", 1), Ev("success", 0)>>,
  <<Ev("deposit", 1), Ev("paid", 2), Err("failed", "module")>>,
  <<Ev("deposit", 1), Err("failed", "named")>>,
  <<Ev("deposit", 1), Err("failed", "unnamed")>>,
  <<Err("undecrypted", "absent"), Ev("deposit", 1), Ev("success", 0)>>,
  <<Err("rejected", "module"), Ev("deposit", 1), Ev("success", 0)>>,
  <<Err("rejected", "unnamed"), Ev("deposit", 1), Ev("success", 0)>>,
  <<Err("rejected", "module"), Ev("deposit", 1), Err("rejected", "unnamed"),
    Ev("deposit", 1), Ev("success", 0)>>,
  <<Err("rejected", "unnamed"), Err("rejected", "module"), Ev("success", 0)>> }

Blocks == {[events |-> <<Other>> \o tr, size |-> 2, at |-> 1, asked |-> 1] : tr \in Traces}
          \cup {[events |-> <<Other>>, size |-> 1, at |-> -1, asked |-> 1]}
=============================================================================

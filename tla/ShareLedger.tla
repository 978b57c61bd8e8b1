----------------------------- MODULE ShareLedger -----------------------------
(***************************************************************************)
(* What the network shares plugin promises of its file: the record of a    *)
(* share changes only because the operator asked for that change.  A       *)
(* request takes effect at once, or stays open (the removal still unmounts,*)
(* or the save failed) and takes effect later, alone or with others, or is *)
(* given up.  Nothing that is no longer open can ever take effect.         *)
(***************************************************************************)
EXTENDS Naturals

CONSTANTS Shares, Targets, None

VARIABLES
  record,   \* what the file says of each share
  open,     \* changes asked for and not settled
  sent      \* requests so far

ledger == <<record, open, sent>>

Changes == [share : Shares, to : Targets \cup {None}]

\* The record after the changes in C.
Applied(C) ==
  \A s \in Shares :
    \/ record'[s] = record[s]
    \/ \E c \in C : c.share = s /\ record'[s] = c.to

Init ==
  /\ record \in [Shares -> Targets \cup {None}]
  /\ open = {} /\ sent = 0

\* A request that changes at most one share arrives; what was open may go with it.
Request(c) ==
  /\ sent' = sent + 1
  /\ record' \in [Shares -> Targets \cup {None}] /\ Applied(open \cup {c})
  /\ open' \subseteq open \cup {c}

\* Open changes take effect or are given up.
Settle ==
  /\ sent' = sent
  /\ record' \in [Shares -> Targets \cup {None}] /\ Applied(open)
  /\ open' \subseteq open

Next == (\E c \in Changes : Request(c)) \/ Settle

Spec == Init /\ [][Next]_ledger
==============================================================================

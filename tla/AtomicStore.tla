----------------------------- MODULE AtomicStore -----------------------------
(***************************************************************************)
(* What Units of Work promise whoever reads the database: a transaction    *)
(* happens at one instant or not at all.  It changes some rows, each over  *)
(* what is stored at that very instant, and appends its audit lines with   *)
(* them; content that is frozen stays as it is.                            *)
(***************************************************************************)
EXTENDS Integers

CONSTANTS Session, Row, NewRow
VARIABLES stored, ledger

Init == stored = [r \in Row |-> NewRow] /\ ledger = {}

(* Row r is written by s: over what is there, or its work would be lost.   *)
Rewritten(s, r) ==
  /\ stored'[r].version > stored[r].version
  /\ stored'[r].by = stored[r].by \cup {s}
  /\ stored[r].frozen => stored'[r].frozen /\ stored'[r].content = stored[r].content
  /\ stored[r].content \subseteq stored'[r].content

Transact(s) ==
  \E rows \in SUBSET Row :
    /\ DOMAIN stored' = Row
    /\ \A r \in rows : Rewritten(s, r)
    /\ \A r \in Row \ rows : stored'[r] = stored[r]
    /\ ledger \subseteq ledger'
    /\ \A line \in ledger' \ ledger : line.session = s

Next == \E s \in Session : Transact(s)

Spec == Init /\ [][Next]_<<stored, ledger>>
=============================================================================

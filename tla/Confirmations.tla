--------------------------- MODULE Confirmations ---------------------------
(***************************************************************************)
(* How many blocks of a chain of length i count as confirmed, in the       *)
(* blockchain_structures.py of the proof-of-work and proof-of-stake        *)
(* ledgers: balances are computed from the confirmed blocks only.          *)
(***************************************************************************)
EXTENDS Integers

\* consensus/pow, consensus/pos and webApp/blockchain/pow.
valid_chain_length(i) == IF i < 250 THEN i - i \div 5 ELSE i - 50
=============================================================================

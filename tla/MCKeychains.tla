---------------------------- MODULE MCKeychains ----------------------------
(* Keychains on two names, one key and two passphrases; a cosigner's public *)
(* keychain and an encrypted backup of the same keychain come from          *)
(* elsewhere.  The cipher texts that come from elsewhere take no wrong key, *)
(* those that are made here take q and the empty key.                       *)
EXTENDS Keychains, TLC

CONSTANTS a, b, i, p, q

MCFiles == {Fresh(i, "nothing", "nothing"), Fresh(i, p, p)}

MCCollisions == {{"clear", q}}

(* A new vault, and those with one encrypted keychain. *)
MCOpenedVaults ==
    {[n \in {a, b} |-> Absent]} \union
    {[n \in {a, b} |-> IF n = m THEN Fresh(i, q, q) ELSE Absent] :
        m \in {a, b}}

MCSymmetry == Permutations({a, b})
=============================================================================

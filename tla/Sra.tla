-------------------------------- MODULE Sra ---------------------------------
(***************************************************************************)
(* The commutative encryption of crypto/sra/sra.go.  To encrypt is to      *)
(* raise to the power of a key modulo a prime, to decrypt is to raise to   *)
(* the power of its inverse, so the order of the powers does not matter.   *)
(* A number is the card it came from and the powers it has been raised to  *)
(* that have not cancelled out.                                            *)
(***************************************************************************)
EXTENDS Integers

(* 0 and 1 are what they are to every power.                               *)
Fixed == {0, 1}

Plain(card) == [card |-> card, powers |-> {}]

Opened(v) == v.powers = {}

Exp(v, key, sign) ==
  [v EXCEPT !.powers =
     IF v.card \in Fixed           THEN @
     ELSE IF <<key, -sign>> \in @  THEN @ \ {<<key, -sign>>}
                                   ELSE @ \cup {<<key, sign>>}]

EncryptInt(key, v) == Exp(v, key, 1)

DecryptInt(key, v) == Exp(v, key, -1)
=============================================================================

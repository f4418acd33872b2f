--------------------------------- MODULE MCAlu ---------------------------------
(* The instance of Alu that MCAlu.cfg describes: all bytes of two decimal   *)
(* digits, and those at which a digit, the sign or the byte overflows.      *)
EXTENDS Alu

MCOperands == Decimals \cup {10, 15, 127, 128, 160, 240, 249, 250, 255}

ASSUME RotationsAgree ==
  \A x \in 0 .. Byte - 1, c \in BOOLEAN : RotationsUndo(x, c)
ASSUME WordsAgree ==
  \A hl, r16 \in {x * Byte + y : x \in MCOperands, y \in {0, 1, 127, 128, 255}} :
    WordsAreBytes(hl, r16, [z |-> FALSE, n |-> FALSE, h |-> FALSE, c |-> FALSE])
ASSUME OffsetsAgree ==
  \A sp \in {x * Byte + y : x \in {0, 1, 127, 255}, y \in MCOperands}, e8 \in 0 .. Byte - 1 :
    SignedOffsetCarries(sp, e8)
==============================================================================

----------------------------- MODULE SegmentFonts -----------------------------
(***************************************************************************)
(* The segments of the characters: FONT_7-seg.h, from 45 ('-') to 90, bit  *)
(* 0 being the point, and FONT_16-seg.h, from 0 to 128, two bytes each.    *)
(***************************************************************************)
EXTENDS Integers, Sequences

FONT_7seg ==
  <<2, 0, 0, 252, 12, 218, 158, 46, 182, 246, 28, 254, 190, 0, 0, 0, 130, 0, 0, 0, 126, 230, 240,
    206, 242, 114, 0, 110, 0, 204, 0, 224, 0, 0, 198, 122, 0, 0, 0, 226, 236, 0, 0, 0, 0, 0>>

FONT_16seg ==
  <<0, 1400, 1400, 33551, 1283, 23175, 3196, 6264, 6279, 18528, 2689, 19558, 23811, 19042, 23166,
    65280, 8640, 33804, 9318, 16908, 6303, 49971, 63608, 9318, 57344, 1792, 10496, 37888, 96, 9318,
    57392, 1795, 0, 4, 516, 23232, 23227, 32409, 35705, 4, 33792, 8448, 65280, 23040, 8192, 6144, 0,
    9216, 9471, 1036, 6263, 6207, 6284, 6331, 6395, 15, 6399, 6335, 33, 8193, 33027, 6192, 9219,
    20487, 18559, 6351, 21055, 243, 16959, 6387, 6339, 4347, 6348, 16896, 8252, 36032, 240, 1484,
    33228, 255, 6343, 33023, 39111, 6331, 16899, 252, 9408, 41164, 42240, 22660, 9267, 225, 33024,
    30, 384, 48, 256, 51296, 18656, 2144, 19040, 10336, 23042, 19105, 18624, 16384, 16928, 50688,
    16896, 22600, 18496, 18528, 2753, 19073, 2112, 36880, 2272, 16480, 8256, 41032, 26112, 9472,
    10272, 18962, 16896, 21025, 1408, 21516, 18512>>

\* The byte of a character on a 7-segment display; those without a glyph are dark.
Seven(c) == IF c \in 45..90 THEN FONT_7seg[c - 44] ELSE 0

\* The two bytes of a character on a 16-segment display.
Sixteen(c) == <<FONT_16seg[c + 1] % 256, FONT_16seg[c + 1] \div 256>>

=============================================================================

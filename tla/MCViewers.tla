------------------------------ MODULE MCViewers ------------------------------
(* Two objects and two contents of the memory that differ in everything    *)
(* the viewers read: the height of the objects, their tiles, flips and     *)
(* palettes, and the map, the addressing mode and the tiles of the         *)
(* background.  A tall object is upside down, a short one upside down and  *)
(* mirrored; both have usual palettes.  OBP1 of the second content is not. *)
EXTENDS Viewers

MCMemory(v, address) ==
  CASE address = LcdControl        -> <<151, 139>>[v]
    [] address = BackgroundPalette -> 228
    [] address = 65352             -> <<228, 108>>[v]   (* OBP0 *)
    [] address = 65353             -> <<228, 176>>[v]   (* OBP1 *)
    [] address \in 65024 .. 65031  ->                   (* OAM *)
         <<<<16, 8, 5, 0, 24, 16, 130, 208>>, <<16, 8, 5, 16, 24, 9, 200, 96>>>>[v][address - 65023]
    [] address \in 38912 .. 40959  -> (address * 37 + 90 * v) % 256   (* the maps *)
    [] OTHER                       -> (address * 7 + (address \div 16) * 29 + v * 53) % 256
==============================================================================

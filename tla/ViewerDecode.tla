------------------------------ MODULE ViewerDecode ------------------------------
(***************************************************************************)
(* How the debug viewers of the Qt interface make pictures of the memory,  *)
(* and how the pixel processing unit reads the same tiles.  The viewers    *)
(* decode on their own: nothing but these definitions makes them agree.    *)
(*                                                                         *)
(* An operator takes the memory as a function of addresses, in so far as   *)
(* it is read.  A shade is 0 (white) to 3 (black); Transparent is none.    *)
(***************************************************************************)
EXTENDS Integers

Transparent == -1

bit(n, byte) == (byte \div 2^n) % 2

(* static_cast<std::int8_t> *)
signed(byte) == IF byte < 128 THEN byte ELSE byte - 256

(* The colour a tile gives a column, from the two bytes of the line; 7 is  *)
(* the lowest bit.                                                         *)
color(low, high, column) == 2 * bit(7 - column, high) + bit(7 - column, low)

(* The shade a palette register gives a colour. *)
shade(palette, index) == (palette \div 4^index) % 4

TileSize == 16
LineSize == 2

-----------------------------------------------------------------------------
(* The sprites viewer. *)

LcdControl == 65344   (* 0xFF40 *)

(* The height of every object, in refreshSpritesCache. *)
sprite_height(lcdc) == IF bit(2, lcdc) = 1 THEN 16 ELSE 8

(* The four bytes of an object as refreshSpritesCache takes them apart. *)
read_sprite(byte, height) ==
  [y |-> byte[0], x |-> byte[1], tile_index |-> byte[2],
   priority |-> bit(7, byte[3]) = 1, y_flip |-> bit(6, byte[3]) = 1,
   x_flip |-> bit(5, byte[3]) = 1, alternate_palette |-> bit(4, byte[3]) = 1,
   height |-> height]

(* The URI of the picture, which is all the image provider knows of it.    *)
image_uri(sprite) ==
  [tile_index |-> sprite.tile_index, double_height |-> sprite.height > 8,
   alternate_palette |-> sprite.alternate_palette]

(* Seeded fault: the second tile is the one after the first. *)
masked_tile_index_next(uri, line) ==
  uri.tile_index + IF line < 8 THEN 0 ELSE 1

(* The tile that has the line: of the two of a tall object, the even one   *)
(* is above the odd one whatever the index says.                           *)
masked_tile_index(uri, line) ==
  IF ~uri.double_height THEN uri.tile_index
  ELSE IF line < 8 THEN uri.tile_index - bit(0, uri.tile_index)
  ELSE uri.tile_index + 1 - bit(0, uri.tile_index)

sprite_line_address(uri, line) ==
  32768 + masked_tile_index(uri, line) * TileSize + (line % 8) * LineSize

sprite_palette_address(uri) == IF uri.alternate_palette THEN 65353 ELSE 65352

(* The pixel of the picture.  It is transparent where the shade is 0, not  *)
(* where the colour is.                                                    *)
sprite_pixel(palette, low, high, column) ==
  LET index == shade(palette, color(low, high, column))
  IN  IF index = 0 THEN Transparent ELSE index

(* The objects of the pixel processing unit.  A row counts from the top of *)
(* the object on the screen: lcd_y - (object.y - 16).                      *)
compute_sprite_tile_line(sprite, row) ==
  IF sprite.y_flip THEN sprite.height - 1 - row ELSE row

compute_sprite_tile_index(sprite, line) ==
  IF sprite.height < 16 THEN sprite.tile_index
  ELSE IF line < 8 THEN (sprite.tile_index \div 2) * 2
  ELSE (sprite.tile_index \div 2) * 2 + 1

(* fetch_tile_address *)
object_line_address(sprite, row) ==
  LET line == compute_sprite_tile_line(sprite, row)
  IN  32768 + compute_sprite_tile_index(sprite, line) * 16 + (line % 8) * 2

(* The pixel at a place of the row, from the left: decode_sprite_tile_row, *)
(* reversed for x_flip.  Colour 0 is not drawn.                            *)
object_pixel(sprite, palette, low, high, place) ==
  LET column == IF sprite.x_flip THEN 7 - place ELSE place
  IN  IF color(low, high, column) = 0 THEN Transparent
      ELSE shade(palette, color(low, high, column))

(* The palettes under which no drawn colour is white and colour 0 is.      *)
UsualPalette(palette) ==
  /\ shade(palette, 0) = 0
  /\ \A index \in 1 .. 3 : shade(palette, index) # 0

-----------------------------------------------------------------------------
(* The background viewer. *)

BackgroundPalette == 65351   (* 0xFF47 *)

tilemap_address(lcdc, tilemap_index) ==
  (IF bit(3, lcdc) = 1 THEN 39936 ELSE 38912) + tilemap_index

(* Seeded fault: the index is not signed. *)
tile_line_address_unsigned(lcdc, tile_index, line) ==
  (IF bit(4, lcdc) = 1 THEN 32768 ELSE 36864) + tile_index * TileSize + line * LineSize

(* Where refresh reads a line of a tile: the index is signed under both    *)
(* addressing modes.                                                       *)
tile_line_address(lcdc, tile_index, line) ==
  (IF bit(4, lcdc) = 1 THEN 32768 ELSE 36864) + signed(tile_index) * TileSize + line * LineSize

(* And where the background fetcher does: compute_tile_address. *)
compute_tile_address(lcdc, tile_index, line) ==
  IF bit(4, lcdc) = 1
  THEN 32768 + tile_index * 16 + line * 2
  ELSE 36864 + signed(tile_index) * 16 + line * 2

(* refresh draws the tile of an entry of the map here, and the background  *)
(* image provider cuts it out there.                                       *)
drawn_at(tilemap_index)  == [x |-> (tilemap_index % 32) * 8, y |-> (tilemap_index \div 32) * 8]
copied_at(tile_index)    == [x |-> (tile_index % 32) * 8, y |-> (tile_index \div 32) * 8]

(* The two places of memory agree but for the second half of the tiles     *)
(* under the unsigned mode.                                                *)
SameTile(lcdc, tile_index) == bit(4, lcdc) = 0 \/ tile_index < 128

=================================================================================

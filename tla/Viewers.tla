-------------------------------- MODULE Viewers --------------------------------
(***************************************************************************)
(* The debug viewers of the Qt interface: the list of objects              *)
(* (emulator_ui_sprites_model), the pictures of their tiles                *)
(* (emulator_ui_sprites_image_provider and the cache of the QML engine in  *)
(* front of it), and the background (emulator_ui_background).  All of them *)
(* read the memory of the engine on the UI thread, byte by byte, while the *)
(* engine thread may be writing it; the session keeps SessionContract.     *)
(*                                                                         *)
(* The memory goes through Versions contents, which the constant gives: an *)
(* engine that is ticked turns one into the next at any moment.            *)
(***************************************************************************)
EXTENDS ViewerDecode, FiniteSets, Sequences

CONSTANTS
  Memory(_, _),   (* The byte of a version at an address.                  *)
  Versions,       (* How many contents the memory goes through.            *)
  RowCount,       (* How many objects the list has: 40.                    *)
  Entries         (* The entries of the tile map that are looked at.       *)

(* What a bus of 16 bits can address. *)
MemorySize == 65536

ASSUME VersionsAssumption == Versions \in Nat \ {0}
ASSUME RowCountAssumption == RowCount \in 1 .. 40
ASSUME EntriesAssumption  == Entries \subseteq 0 .. 1023
ASSUME MemoryAssumption ==
  \A v \in 1 .. Versions, address \in 0 .. MemorySize - 1 : Memory(v, address) \in 0 .. 255

VARIABLES
  mode, engine, ticking,  (* The session; see SessionContract.             *)
  version,     (* The content of the memory; 0 before there is an engine.  *)
  open,        (* A viewer is open.                                        *)
  task,        (* What the UI thread reads: nothing, sprites, background   *)
               (* or picture.                                              *)
  step,        (* How far it has read.                                     *)
  reads,       (* The versions it has read.                                *)
  row,         (* The row a picture is read for.                           *)
  height,      (* The height of the objects, read first.                   *)
  sprites,     (* emulator_ui_sprites_model::sprites                       *)
  picture,     (* The picture that is being read.                          *)
  cache,       (* The pictures the QML engine keeps, by URI.               *)
  shown,       (* The picture each row shows.                              *)
  background   (* emulator_ui_background::current_image                    *)

session_vars == <<mode, engine, ticking>>
task_vars    == <<task, step, reads, row, height, picture>>
view_vars    == <<sprites, cache, shown, background>>
viewers_vars == <<session_vars, version, open, task_vars, view_vars>>

Session == INSTANCE SessionContract

Rows      == 0 .. RowCount - 1
NoPicture == <<>>

UiIsFree == mode \in Session!Statuses /\ task = "none"

(* The four bytes of an object are one after the other in OAM. *)
oam_address(r, i) == 65024 + 4 * r + i

(* The UI thread reads the memory once more, wherever the engine is. *)
Read == reads' = reads \cup {version}

-----------------------------------------------------------------------------
(* The session.  Its operations are events of the UI thread too. *)

Operate ==
  /\ task = "none"
  /\ Session!Operation
  /\ version' = IF engine' /\ ~engine /\ version < Versions THEN version + 1 ELSE version
  /\ UNCHANGED <<open, task_vars, view_vars>>

(* Seeded fault: the engine thread runs on in a paused session. *)
BeginTickPaused(ticker) ==
  /\ engine /\ ticking = {} /\ mode \in Session!Statuses
  /\ ticking' = {ticker}
  /\ UNCHANGED <<mode, engine, version, open, task_vars, view_vars>>

BeginTick(ticker) ==
  /\ Session!BeginTick(ticker)
  /\ UNCHANGED <<version, open, task_vars, view_vars>>

EndTick(ticker) ==
  /\ Session!EndTick(ticker)
  /\ UNCHANGED <<version, open, task_vars, view_vars>>

(* A program that is emulated writes. *)
Poke ==
  /\ ticking # {}
  /\ version < Versions
  /\ version' = version + 1
  /\ UNCHANGED <<session_vars, open, task_vars, view_vars>>

-----------------------------------------------------------------------------
(* The buttons that update a viewer, enabled unless the session runs. *)

OpenViewer ==
  /\ UiIsFree
  /\ mode # "Stopped"
  /\ open' = TRUE
  /\ UNCHANGED <<session_vars, version, task_vars, view_vars>>

(* The delegates of the list go with the window; the cache stays. *)
CloseViewer ==
  /\ UiIsFree
  /\ open' = FALSE
  /\ shown' = [r \in Rows |-> NoPicture]
  /\ UNCHANGED <<session_vars, version, task_vars, sprites, cache, background>>

(* After Stop the buttons are still there and the engine is not. *)
MissEngine ==
  /\ UiIsFree
  /\ open
  /\ Session!MissEngine
  /\ UNCHANGED <<version, open, task_vars, view_vars>>

(* Seeded fault: the button is always enabled. *)
StartAlways(reading) ==
  /\ UiIsFree
  /\ open
  /\ engine
  /\ task' = reading
  /\ step' = 0
  /\ reads' = {version}
  /\ height' = sprite_height(Memory(version, LcdControl))
  /\ UNCHANGED <<session_vars, version, open, row, picture, view_vars>>

(* refreshSpritesCache and refresh begin with LCDC.  What current_image    *)
(* will show is the versions it was read from.                             *)
Start(reading) ==
  /\ UiIsFree
  /\ open
  /\ engine
  /\ mode # "Running"
  /\ task' = reading
  /\ step' = 0
  /\ reads' = {version}
  /\ height' = sprite_height(Memory(version, LcdControl))
  /\ UNCHANGED <<session_vars, version, open, row, picture, view_vars>>

(* The next object; endResetModel makes the delegates of the list anew.    *)
ReadSprite ==
  /\ task = "sprites"
  /\ sprites' = [sprites EXCEPT ![step] =
       read_sprite([i \in 0 .. 3 |-> Memory(version, oam_address(step, i))], height)]
  /\ Read
  /\ step' = step + 1
  /\ IF step' = RowCount
     THEN task' = "none" /\ shown' = [r \in Rows |-> NoPicture]
     ELSE UNCHANGED <<task, shown>>
  /\ UNCHANGED <<session_vars, version, open, row, height, picture, cache, background>>

(* The palette, the map and the tiles of the background; setValue. *)
ReadBackground ==
  /\ task = "background"
  /\ Read
  /\ step' = step + 1
  /\ IF step' = 2
     THEN task' = "none" /\ background' = reads'
     ELSE UNCHANGED <<task, background>>
  /\ UNCHANGED <<session_vars, version, open, row, height, picture, sprites, cache, shown>>

-----------------------------------------------------------------------------
(* The pictures.  A delegate appears when the list is reset or scrolled,   *)
(* in whatever state the session is.                                       *)

(* The QML engine has the picture of the URI. *)
ShowCached(r) ==
  /\ UiIsFree
  /\ open
  /\ shown[r] = NoPicture
  /\ \E p \in cache :
       /\ p.uri = image_uri(sprites[r])
       /\ shown' = [shown EXCEPT ![r] = p]
  /\ UNCHANGED <<session_vars, version, open, task_vars, sprites, cache, background>>

(* Or asks the provider: requestImage reads the palette, ... *)
requestImage(r) ==
  /\ UiIsFree
  /\ open
  /\ engine
  /\ shown[r] = NoPicture
  /\ \A p \in cache : p.uri # image_uri(sprites[r])
  /\ task' = "picture"
  /\ step' = 0
  /\ row' = r
  /\ reads' = {version}
  /\ picture' = [uri |-> image_uri(sprites[r]), palette |-> version, tiles |-> <<>>]
  /\ UNCHANGED <<session_vars, version, open, height, view_vars>>

(* ... then the tiles, the second one of a tall object last. *)
ReadTile ==
  /\ task = "picture"
  /\ step < IF picture.uri.double_height THEN 2 ELSE 1
  /\ Read
  /\ step' = step + 1
  /\ picture' = [picture EXCEPT !.tiles = Append(@, version)]
  /\ UNCHANGED <<session_vars, version, open, task, row, height, view_vars>>

(* It is shown and kept. *)
Deliver ==
  /\ task = "picture"
  /\ step = IF picture.uri.double_height THEN 2 ELSE 1
  /\ shown' = [shown EXCEPT ![row] = picture]
  /\ cache' = cache \cup {picture}
  /\ task' = "none"
  /\ UNCHANGED <<session_vars, version, open, step, reads, row, height, picture, sprites,
                 background>>

(* The QML engine drops a picture that no row shows, when it pleases. *)
Evict(p) ==
  /\ UiIsFree
  /\ p \in cache
  /\ \A r \in Rows : shown[r] # p
  /\ cache' = cache \ {p}
  /\ UNCHANGED <<session_vars, version, open, task_vars, sprites, shown, background>>

-----------------------------------------------------------------------------
(* The array of objects is zero until it is read. *)
ViewersInit ==
  /\ Session!Init
  /\ version = 0
  /\ open = FALSE
  /\ task = "none"
  /\ step = 0
  /\ reads = {}
  /\ row = 0
  /\ height = 8
  /\ sprites = [r \in Rows |-> read_sprite([i \in 0 .. 3 |-> 0], 0)]
  /\ picture = NoPicture
  /\ cache = {}
  /\ shown = [r \in Rows |-> NoPicture]
  /\ background = {}

Ticking == Poke \/ \E ticker \in Session!Tickers : BeginTick(ticker) \/ EndTick(ticker)

Updating ==
  \/ \E reading \in {"sprites", "background"} : Start(reading)
  \/ ReadSprite \/ ReadBackground

Picturing ==
  \/ \E r \in Rows : ShowCached(r) \/ requestImage(r)
  \/ ReadTile \/ Deliver
  \/ \E p \in cache : Evict(p)

ViewersNext ==
  \/ Operate \/ Ticking \/ OpenViewer \/ CloseViewer \/ MissEngine
  \/ Updating \/ Picturing

ViewersSpec == ViewersInit /\ [][ViewersNext]_viewers_vars

-----------------------------------------------------------------------------
(* The object of a row as one version of the memory has it. *)
object_of(v, r, the_height) ==
  read_sprite([i \in 0 .. 3 |-> Memory(v, oam_address(r, i))], the_height)

Whole(p) == \A i \in 1 .. Len(p.tiles) : p.tiles[i] = p.palette

ViewersTypeOK ==
  /\ version \in 0 .. Versions
  /\ open \in BOOLEAN
  /\ task \in {"none", "sprites", "background", "picture"}
  /\ step \in 0 .. RowCount + 2
  /\ reads \subseteq 1 .. Versions
  /\ row \in Rows
  /\ height \in {8, 16}
  /\ \A p \in cache : p.palette \in 1 .. Versions /\ Len(p.tiles) \in {1, 2}
  /\ \A r \in Rows : shown[r] # NoPicture => shown[r] \in cache
  /\ background \subseteq 1 .. Versions

(* A snapshot is of one moment: once it has been read, the list of objects *)
(* and their height is what the memory held at some time, and so is the    *)
(* background, although the engine thread writes the memory they read byte *)
(* by byte.                                                                *)
SnapshotsAreWhole ==
  /\ task # "sprites" =>
       \/ sprites = [r \in Rows |-> read_sprite([i \in 0 .. 3 |-> 0], 0)]
       \/ \E v \in 1 .. Versions :
            sprites = [r \in Rows |-> object_of(v, r, sprite_height(Memory(v, LcdControl)))]
  /\ task # "background" => Cardinality(background) <= 1

(* Where on the screen the pixel processing unit draws a line and a column *)
(* of the picture of an object, from the object's upper left corner.  The  *)
(* URI of a picture has no flips, so a flipped object is drawn mirrored    *)
(* and its picture is not.                                                 *)
drawn_row(sprite, line)     == IF sprite.y_flip THEN sprite.height - 1 - line ELSE line
drawn_place(sprite, column) == IF sprite.x_flip THEN 7 - column ELSE column

(* The picture of a row is made for the object of the row, and if it was   *)
(* read at one moment it has the pixels the pixel processing unit would    *)
(* draw for that object then, with the usual palettes: where it draws them *)
(* if the object is not flipped, and upside down or mirrored if it is.     *)
PicturesAreObjects ==
  task # "sprites" =>
    \A r \in Rows : shown[r] # NoPicture =>
      LET p == shown[r]  sprite == sprites[r]  v == p.palette
          palette == Memory(v, sprite_palette_address(p.uri))
      IN  /\ p.uri = image_uri(sprite)
          /\ Whole(p) /\ UsualPalette(palette) =>
               \A line \in 0 .. 8 * Len(p.tiles) - 1, column \in 0 .. 7 :
                 LET here  == sprite_line_address(p.uri, line)
                     there == object_line_address(sprite, drawn_row(sprite, line))
                 IN  sprite_pixel(palette, Memory(v, here), Memory(v, here + 1), column)
                     = object_pixel(sprite, palette, Memory(v, there), Memory(v, there + 1),
                                    drawn_place(sprite, column))

TileData == 32768   (* 0x8000 *)

(* The picture that is cut out of the background for an entry of the map   *)
(* is where refresh drew it, and of the tile the background fetcher uses,  *)
(* but for the indexes from 128 on under the unsigned mode: there refresh  *)
(* leaves the tile data, below 0x8000.                                     *)
BackgroundIsFetched ==
  \A v \in background, entry \in Entries :
    LET lcdc == Memory(v, LcdControl)
        tile == Memory(v, tilemap_address(lcdc, entry))
    IN  /\ copied_at(entry) = drawn_at(entry)
        /\ \A line \in 0 .. 7 :
             IF SameTile(lcdc, tile)
             THEN tile_line_address(lcdc, tile, line) = compute_tile_address(lcdc, tile, line)
             ELSE tile_line_address(lcdc, tile, line) < TileData
================================================================================

------------------------------ MODULE SessionSound ------------------------------
(***************************************************************************)
(* The volume slider and the mute button of the Qt interface               *)
(* (emulator_ui_controls), composed with the session whose operations      *)
(* open and close the sink they act on.  The volume lives in the sink, a   *)
(* copy of it in audio_device while the sound is muted, and another copy   *)
(* in the property the slider shows.                                       *)
(*                                                                         *)
(* Volumes are members of a small set; the conversions between the linear  *)
(* scale of the sink and the logarithmic one of the slider are taken to be *)
(* exact, and 0 and 1 are the same on both.                                *)
(***************************************************************************)
EXTENDS Session

CONSTANTS
  Volumes,   (* The volumes the slider can be moved to.      *)
  Full       (* The volume of a sink that was just opened.   *)

ASSUME VolumesAssumption == Volumes \subseteq Nat /\ Full \in Volumes /\ 0 \in Volumes

VARIABLES
  current_volume,   (* emulator_ui_controls::current_volume, what is shown *)
  sink_volume,      (* The volume of the sink, or of the last there was.   *)
  is_muted,         (* audio_device::is_muted                              *)
  muted_volume      (* audio_device::muted_volume                          *)

sound_vars == <<current_volume, sink_volume, is_muted, muted_volume>>
all_vars   == <<vars, sound_vars>>

(* audio_device::volume *)
volume(the_sink, the_sink_volume, muted, saved) ==
  IF the_sink = "none" THEN Full ELSE IF muted THEN saved ELSE the_sink_volume

(* Seeded fault: a device that is opened does not look at is_muted. *)
FollowSinkLoud ==
  /\ sink_volume' = IF sink' = "none" \/ sink # "none" THEN sink_volume ELSE Full
  /\ UNCHANGED <<current_volume, is_muted, muted_volume>>

(* What audio_device::open does to the volume when the session opens the   *)
(* sink; nothing else the session does changes it.  The property shown was *)
(* bound to backend.volume(), which depends on no other property: it keeps *)
(* the value it has.                                                       *)
FollowSink ==
  /\ sink_volume' = CASE sink' = "none" \/ sink # "none" -> sink_volume
                      [] is_muted -> 0
                      [] OTHER -> Full
  /\ UNCHANGED <<current_volume, is_muted, muted_volume>>

(* Seeded fault: the slider is heard while the sound is muted. *)
setVolumeAloud(v) ==
  /\ ui = "idle"
  /\ status # "Stopped"
  /\ sink_volume' = IF sink = "none" THEN sink_volume ELSE v
  /\ muted_volume' = IF sink # "none" /\ is_muted THEN v ELSE muted_volume
  /\ current_volume' = volume(sink, sink_volume', is_muted, muted_volume')
  /\ UNCHANGED <<vars, is_muted>>

(* The slider, which a button opens that is enabled while there is a       *)
(* session.  Without a sink audio_device::set_volume does nothing.         *)
setVolume(v) ==
  /\ ui = "idle"
  /\ status # "Stopped"
  /\ sink_volume' = IF sink = "none" \/ is_muted THEN sink_volume ELSE v
  /\ muted_volume' = IF sink # "none" /\ is_muted THEN v ELSE muted_volume
  /\ current_volume' = volume(sink, sink_volume', is_muted, muted_volume')
  /\ UNCHANGED <<vars, is_muted>>

(* The button itself.  The property current_muted always has the value of  *)
(* is_muted.                                                               *)
setMuted ==
  /\ ui = "idle"
  /\ status # "Stopped"
  /\ sink # "none"
  /\ is_muted' = ~is_muted
  /\ IF is_muted
     THEN sink_volume' = muted_volume /\ UNCHANGED muted_volume
     ELSE sink_volume' = 0 /\ muted_volume' = sink_volume
  /\ UNCHANGED <<vars, current_volume>>

-----------------------------------------------------------------------------
(* The members of audio_device, and the constructor of the controls. *)
SoundInit ==
  /\ Init
  /\ current_volume = Full
  /\ sink_volume = Full
  /\ is_muted = FALSE
  /\ muted_volume = 0

SoundNext ==
  \/ Next /\ FollowSink
  \/ \E v \in Volumes : setVolume(v)
  \/ setMuted

SoundSpec ==
  /\ SoundInit /\ [][SoundNext]_all_vars
  /\ WF_all_vars(UiStep /\ FollowSink) /\ WF_all_vars(EngineThread /\ FollowSink)
  /\ WF_all_vars(JoypadThread /\ FollowSink) /\ WF_all_vars(EndCallback /\ FollowSink)

-----------------------------------------------------------------------------
SoundTypeOK ==
  /\ current_volume \in Volumes
  /\ sink_volume \in Volumes
  /\ is_muted \in BOOLEAN
  /\ muted_volume \in Volumes

(* What the slider shows is what is set, or was set in the last sink. *)
ShownIsSet == current_volume = IF is_muted THEN muted_volume ELSE sink_volume

(* Muted is silent whatever is set, loaded or opened meanwhile; and the    *)
(* slider is wrong only from the moment a device is opened unmuted: the    *)
(* volume that was set went with the old sink, and nobody tells the        *)
(* property.                                                               *)
VolumeFollowsControls ==
  /\ [](is_muted /\ sink # "none" => sink_volume = 0)
  /\ [][ShownIsSet /\ ~ShownIsSet' =>
          sink = "none" /\ sink' = "active" /\ ~is_muted]_all_vars
  /\ [][ShownIsSet /\ is_muted /\ ~is_muted' => sink_volume' = current_volume]_all_vars
=================================================================================

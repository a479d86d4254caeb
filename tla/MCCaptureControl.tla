-------------------------- MODULE MCCaptureControl --------------------------
(***************************************************************************)
(* Small instances of CaptureControl for TLC.                              *)
(***************************************************************************)
EXTENDS CaptureControl

MCSettings(mic, spk, text, filter, sync, diarized) ==
  [microphone |-> mic, speaker |-> spk, chatbox |-> text,
   filter |-> filter, mute_sync |-> sync, diarized |-> diarized]

Filtered == MCSettings(TRUE, TRUE, FALSE, TRUE, TRUE, TRUE)
MicrophoneAndText == MCSettings(TRUE, FALSE, TRUE, FALSE, FALSE, FALSE)
TextToo == MCSettings(TRUE, FALSE, TRUE, TRUE, TRUE, TRUE)
Nothing == MCSettings(FALSE, FALSE, FALSE, FALSE, FALSE, FALSE)

MCConfigs == {Filtered, MicrophoneAndText, Nothing}
MCFilter == {Filtered}
=============================================================================

----------------------------- MODULE LiveLimits -----------------------------
(***************************************************************************)
(* How the two limits on a live recording fit together: the settings       *)
(* compare PCM bytes, storing compares the bytes of the WAV file.          *)
(***************************************************************************)
EXTENDS Integers

CONSTANTS
    Minutes,     \* values of live_max_minutes
    Megabytes    \* values of max_upload_mb

ASSUME LimitsAssumption == Minutes \subseteq Nat /\ Megabytes \subseteq Nat

VARIABLES minutes, mb

limits == <<minutes, mb>>

\* 16-bit samples at 16 kHz.
LiveBytes == minutes * 60 * 16000 * 2

UploadBytes == mb * 1024 * 1024

\* _pcm_to_wav writes a header and whole samples.
WavBytes(pcm) == 44 + 2 * (pcm \div 2)

\* Mutant of Accepts: samples are taken for bytes.
AcceptsSamples == minutes >= 1 /\ mb >= 1 /\ LiveBytes \div 2 <= UploadBytes

\* validate_settings.
Accepts == minutes >= 1 /\ mb >= 1 /\ LiveBytes <= UploadBytes

\* A process starts only with settings that are accepted, and keeps them.
Started == minutes \in Minutes /\ mb \in Megabytes /\ Accepts

LimitsSpec == Started /\ [][FALSE]_limits

\* The samples fill the upload limit to its last byte, as those of 1024 minutes
\* do that of 1875 megabytes.
ExactlyFull == LiveBytes = UploadBytes

\* A session that was recorded to its limit can be stored: what the settings
\* let the websocket receive, _upload_wav does not refuse, header and all.  The
\* one exception: validate_settings leaves no room for the 44 bytes of the
\* header, so it accepts settings that are exactly full, and the file is then
\* refused.  That takes a multiple of 1024 minutes.
FullSessionFits ==
    \/ WavBytes(LiveBytes) <= UploadBytes
    \/ ExactlyFull /\ minutes % 1024 = 0
=============================================================================

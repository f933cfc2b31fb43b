---------------------------- MODULE MediaServer -----------------------------
(* The media services of one server: proxies, narration, batch rendering,    *)
(* waveforms and strips, assets, the encoder cache and markers, which share  *)
(* its clients and its life.                                                 *)
EXTENDS ProxyGeneration, TtsSynthesis, BatchRender, VisualGeneration, AssetLibrary,
        EncoderCache, SectionMarkers

libraryVars == <<visualVars, assetVars, encVars, markerVars>>
vars == <<calls, stops, proxyVars, ttsVars, batchVars, libraryVars>>

Init ==
  /\ calls = 0 /\ stops = 0
  /\ ProxyInit /\ TtsInit /\ BatchInit
  /\ VisualInit /\ AssetInit /\ EncInit /\ MarkersInit

(* A shutdown or a crash: nothing is recovered at the next start.            *)
ServerEnds ==
  /\ stops < MaxStops
  /\ stops' = stops + 1 /\ UNCHANGED calls
  /\ ProxyServerEnds /\ TtsServerEnds /\ BatchServerEnds
  /\ VisualServerEnds /\ AssetServerEnds /\ EncServerEnds /\ MarkersServerEnds

Library ==
  \/ VisualNext /\ UNCHANGED <<assetVars, encVars, markerVars>>
  \/ AssetNext /\ UNCHANGED <<visualVars, encVars, markerVars>>
  \/ EncNext /\ UNCHANGED <<visualVars, assetVars, markerVars>>
  \/ MarkersNext /\ UNCHANGED <<visualVars, assetVars, encVars>>

Next ==
  \/ ProxyNext /\ UNCHANGED <<ttsVars, batchVars, libraryVars>>
  \/ TtsNext /\ UNCHANGED <<proxyVars, batchVars, libraryVars>>
  \/ BatchNext /\ UNCHANGED <<proxyVars, ttsVars, libraryVars>>
  \/ Library /\ UNCHANGED <<proxyVars, ttsVars, batchVars>>
  \/ ServerEnds

Spec == Init /\ [][Next]_vars

-----------------------------------------------------------------------------
(* Properties.                                                               *)

(* Every variable keeps its range, and no more batch jobs are at work than   *)
(* the semaphore admits.                                                     *)
TypeOK ==
  /\ calls \in 0 .. MaxCalls /\ stops \in 0 .. MaxStops
  /\ ProxyTypeOK /\ TtsTypeOK /\ BatchTypeOK
  /\ VisualTypeOK /\ AssetTypeOK /\ EncTypeOK /\ MarkersTypeOK

(* A row that says somebody is at work (a proxy PENDING or GENERATING, a cue *)
(* "synthesising", a waveform GENERATING, a batch job queued or running) has *)
(* its task behind it.  Clients wait on these rows, and new work is refused  *)
(* while they say so.  Excepted is what nothing repairs: the handler was     *)
(* timed out, the server ended, a PATCH rewrote the status it had read, a    *)
(* batch job was cancelled between its read and its handler, a waveform's    *)
(* file could not be written.                                                *)
InProgressIsOwned == ProxyOwned /\ CueOwned /\ BatchOwned /\ VisualOwned

(* A proxy that says READY and an asset that can be downloaded have their    *)
(* whole file, whatever writes, deletes, evicts and fails meanwhile, within  *)
(* the exceptions that ProxyHasFile and AssetHasFile name.                   *)
ReadyHasFile == ProxyHasFile /\ AssetHasFile
=============================================================================

------------------------------ MODULE MC_Services ------------------------------
(***************************************************************************)
(* Small instances of ten components that share no state with each other,  *)
(* side by side: a behaviour is one of one component.                      *)
(***************************************************************************)
EXTENDS GeminiStream, WhisperStream, ProviderKey, ModelDownloads, TlsCertificates, AdminEvents,
  SubtitleSegment, SrtSource, ObsCaptions, AdminLogin

\* Short words and one that is longer than a line of five characters.
Word(len, mark) == [len |-> len, mark |-> mark]
FiveWords ==
  {Word(1, "none"), Word(3, "none"), Word(2, "clause"), Word(1, "sentence"), Word(6, "none")}

\* A caption with a span, one of a moment, one an operator hid and one that is
\* on screen for longer than a cue may be.
Times(gap, span, hidden) == [gap |-> gap, span |-> span, hidden |-> hidden]
FourCaptionTimes ==
  {Times(0, 4000, FALSE), Times(500, 0, FALSE), Times(0, 1000, TRUE), Times(0, 20000, FALSE)}

VARIABLE service

Init ==
  /\ AsrInit /\ WhisperInit /\ KeyInit /\ ModelInit /\ LocalInit /\ ProvidedInit /\ AdminInit
  /\ SegmentInit /\ SrtInit /\ ObsInit /\ AuthInit
  /\ service \in {"gemini", "whisper", "key", "models", "local ca", "provided", "admin",
                 "subtitles", "srt", "obs", "login"}
  /\ service = "key" \/ file = NoKey
  /\ service = "models" \/ part = EmptyFile
  /\ service = "obs" \/ \A s \in ObsSenders : sender[s].step = Min(CueSteps)

aiVars == <<asr, whisperVars, keyVars, modelVars>>
serverVars == <<localVars, providedVars, adminVars, captions, srtVars, obsVars, authVars>>

Gemini ==
  /\ service = "gemini" /\ AsrNext
  /\ UNCHANGED <<whisperVars, keyVars, modelVars, serverVars, service>>
Whisper ==
  /\ service = "whisper" /\ WhisperNext
  /\ UNCHANGED <<asr, keyVars, modelVars, serverVars, service>>
Key ==
  /\ service = "key" /\ KeyNext
  /\ UNCHANGED <<asr, whisperVars, modelVars, serverVars, service>>
Models ==
  /\ service = "models" /\ ModelNext
  /\ UNCHANGED <<asr, whisperVars, keyVars, serverVars, service>>
LocalCA ==
  /\ service = "local ca" /\ LocalNext
  /\ UNCHANGED <<aiVars, providedVars, adminVars, captions, srtVars, obsVars, authVars, service>>
Provided ==
  /\ service = "provided" /\ ProvidedNext
  /\ UNCHANGED <<aiVars, localVars, adminVars, captions, srtVars, obsVars, authVars, service>>
Admin ==
  /\ service = "admin" /\ AdminNext
  /\ UNCHANGED <<aiVars, localVars, providedVars, captions, srtVars, obsVars, authVars, service>>
Subtitles ==
  /\ service = "subtitles" /\ SegmentNextList
  /\ UNCHANGED <<aiVars, localVars, providedVars, adminVars, srtVars, obsVars, authVars, service>>
Srt ==
  /\ service = "srt" /\ SrtNext
  /\ UNCHANGED <<aiVars, localVars, providedVars, adminVars, captions, obsVars, authVars, service>>
Obs ==
  /\ service = "obs" /\ ObsNext
  /\ UNCHANGED <<aiVars, localVars, providedVars, adminVars, captions, srtVars, authVars, service>>
Login ==
  /\ service = "login" /\ AuthNext
  /\ UNCHANGED <<aiVars, localVars, providedVars, adminVars, captions, srtVars, obsVars, service>>

Next ==
  \/ Gemini \/ Whisper \/ Key \/ Models \/ LocalCA \/ Provided \/ Admin \/ Subtitles
  \/ Srt \/ Obs \/ Login
=============================================================================

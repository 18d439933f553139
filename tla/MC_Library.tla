------------------------------ MODULE MC_Library ------------------------------
(***************************************************************************)
(* Small instances of components that share no state with each other, side *)
(* by side: a behaviour is one of one component, the service.               *)
(***************************************************************************)
EXTENDS CaptionEdits, CaptionPages, SecretsFile, Translators, GeminiSegments, ServerParts

VARIABLE service

CONSTANTS t1, t2, o1, o2
TwoTexts == {t1, t2}
FourSegments == 1 .. 4
ThreeSegments == 1 .. 3
ThreeStarts == 1 .. 3

Word(len, mark, says) == [len |-> len, mark |-> mark, says |-> says]
TwoSentences == <<Word(2, "", "en"), Word(2, ".", "es"), Word(3, ".", "en")>>
LongClauses  == <<Word(2, "", ""), Word(2, ",", "es"), Word(2, "", ""), Word(2, "", "en")>>
TwoHeard     == {TwoSentences, LongClauses}
Boxes        == {<<"classic">>, <<"!", "box">>, <<"box", "-", "2", "x">>, <<"box", "y", "!", "z">>}
SixNumerals  == <<"1", "2", "3", "4", "5", "6">>
FourFamilies == <<AllFamilies[1], AllFamilies[3], AllFamilies[5], AllFamilies[10]>>
TwoBounds    == <<1, 2>>
TwoReleases  == [o \in {o1, o2} |-> IF o = o1 THEN 1 .. 2 ELSE 1 .. 3]

\* Sessions are alike: which one was told which port does not matter.
OnePort == CHOOSE f \in [AdminSessions -> 0 .. MaxPorts - 1] : IsInjective(f)

Init ==
  /\ service \in {"edits", "pages", "admin", "secrets", "gemma", "gemini", "benchmark", "runtimes", "app",
                  "segments", "metrics", "presets", "store"}
  /\ EditsInit /\ SecretsInit /\ HardwareInit /\ AppInit
  /\ SegmentsInit /\ MetricsInit /\ PresetsInit /\ OpenInit
  /\ PagesInit
  /\ service = "pages" \/ (stored = <<>> /\ reader.kind = "export" /\ reader.from = 1 /\ reader.to = 0)
  /\ SessionAdminInit
  /\ service = "admin" \/ (offsets = <<>> /\ library = {})
  /\ offsets \in {<<>>, OnePort} /\ srtPort = DefaultPort
  /\ offsets = <<>> \/ library = {}
  /\ TranslatorsInit
  /\ service = "gemma" \/ gemmaModel = CHOOSE m \in GemmaModels : TRUE
  /\ service = "gemini" \/ googleKey = NoKey

localVars == <<translatorVars, hardwareVars, segmentVars>>
serverVars == <<appVars, metricsVars>>
savedVars == <<secretVars, sessionAdminVars, presetVars, openVars>>
captionVars == <<editsVars, pageVars>>

Edits ==
  /\ service = "edits" /\ EditsNext
  /\ UNCHANGED <<pageVars, savedVars, localVars, serverVars, service>>
Pages ==
  /\ service = "pages" /\ PagesNext
  /\ UNCHANGED <<editsVars, savedVars, localVars, serverVars, service>>
Admin ==
  /\ service = "admin" /\ SessionAdminNext
  /\ UNCHANGED <<captionVars, secretVars, presetVars, openVars, localVars, serverVars, service>>
Secrets ==
  /\ service = "secrets" /\ SecretsNext
  /\ UNCHANGED <<captionVars, sessionAdminVars, presetVars, openVars, localVars, serverVars, service>>
Gemma ==
  /\ service = "gemma" /\ (GemmaNext \/ TranslateTick)
  /\ UNCHANGED <<captionVars, savedVars, hardwareVars, segmentVars, serverVars, service>>
Gemini ==
  /\ service = "gemini" /\ (GeminiNext \/ TranslateTick)
  /\ UNCHANGED <<captionVars, savedVars, hardwareVars, segmentVars, serverVars, service>>
Benchmark ==
  /\ service = "benchmark" /\ BenchNext
  /\ UNCHANGED <<captionVars, savedVars, translatorVars, segmentVars, serverVars, service>>
RuntimeChecks ==
  /\ service = "runtimes" /\ RuntimesNext
  /\ UNCHANGED <<captionVars, savedVars, translatorVars, segmentVars, serverVars, service>>
App ==
  /\ service = "app" /\ AppNext
  /\ UNCHANGED <<captionVars, savedVars, localVars, metricsVars, service>>
AsrSegments ==
  /\ service = "segments" /\ SegmentsNext
  /\ UNCHANGED <<captionVars, savedVars, translatorVars, hardwareVars, serverVars, service>>
Metrics ==
  /\ service = "metrics" /\ MetricsNext
  /\ UNCHANGED <<captionVars, savedVars, localVars, appVars, service>>
Presets ==
  /\ service = "presets" /\ PresetsNext
  /\ UNCHANGED <<captionVars, secretVars, sessionAdminVars, openVars, localVars, serverVars, service>>
Store ==
  /\ service = "store" /\ OpenNext
  /\ UNCHANGED <<captionVars, secretVars, sessionAdminVars, presetVars, localVars, serverVars, service>>

Next ==
  \/ Edits \/ Pages \/ Admin \/ Secrets \/ Gemma \/ Gemini \/ Benchmark \/ RuntimeChecks \/ App
  \/ AsrSegments \/ Metrics \/ Presets \/ Store
=============================================================================

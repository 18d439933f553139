---------------------------- MODULE ServerParts -----------------------------
(***************************************************************************)
(* The parts of the server that share no state with each other and keep     *)
(* something for all sessions: the rows of sessions, ports and glossaries,  *)
(* the overlay presets and the schema, which are saved; the hardware check, *)
(* the start and the end of the server and its metrics, which are not.      *)
(***************************************************************************)
EXTENDS SessionAdmin, OverlayPresets, StoreOpen, HardwareCheck, AppServer, ServerMetrics

\* What is saved: ports that no two sessions share, and references to removed
\* glossaries only from requests under way (SessionsKept); saved presets under ids of their own, apart
\* from the built-ins (PresetsApart); and a schema applied once, in order,
\* whoever opens the database (SchemaWhole).
SavedSound == SessionsKept /\ PresetsApart /\ SchemaWhole

\* What the process itself promises: one benchmark at a time and its result
\* kept (HardwareSound), a start and an end that leave nothing behind
\* (ServeEnds), and metrics that say what happened (MetricsTrue).
ProcessSound == HardwareSound /\ ServeEnds /\ MetricsTrue
=============================================================================

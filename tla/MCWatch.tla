----------------------------- MODULE MCWatch -----------------------------
(* Small instances of Watch.                                               *)
EXTENDS Watch, TLC

\* What each stage lets out: FetchStage, ExtractStage and EmbedStage wrap
\* into PipelineError, an adapter that cannot be built raises ConfigError,
\* and index backends over HTTP raise SourceError.
HttpIndex == [fetch |-> {"PipelineError", "ConfigError"}, index |-> {"SourceError"}, commit |-> {}]

\* except (PipelineError, SourceError, ConfigError) of watch_async, and
\* except (PipelineError, ConfigError) of alvis run.
WatchAsync == {"PipelineError", "SourceError", "ConfigError"}
AlvisRun == {"PipelineError", "ConfigError"}
=============================================================================

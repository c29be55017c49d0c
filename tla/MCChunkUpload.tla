---- MODULE MCChunkUpload ----
EXTENDS ChunkUpload

\* A patient client: chunks in parallel, a merge repeated while the first is still at
\* work, progress polled meanwhile, cancel alone.  When the upload is late, polls and
\* the clean-up are not at it before earlier requests have ended.
MC_Patient == {{"chunk"}, {"merge"}, {"progress"}, {"chunk", "progress"}, {"merge", "progress"},
               {"chunk", "lapse"}, {"merge", "lapse"}, {"cancel", "lapse"},
               {"mark"}, {"mark", "beat"}}
====

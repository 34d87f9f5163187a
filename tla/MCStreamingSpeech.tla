-------------------------- MODULE MCStreamingSpeech --------------------------
\* Small instances of StreamingSpeech for TLC, and the algorithms of TextChunks,
\* which depend on no state: they are checked where a behaviour begins.
EXTENDS StreamingSpeech, TextChunks

\* What a synthesis says is its text, cut at breaks, the last chunk one that is said
\* (get_text_chunks and the index that marks a chunk isFinal).
StreamsCutRight == stage = "new" => StreamChunksRight

\* What a request says is its words, in chunks that are full but the last (chunk_text).
RequestsCutRight == stage = "new" => RequestChunksRight
=============================================================================

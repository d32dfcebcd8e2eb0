--------------------------- MODULE MCChatStream ---------------------------
\* ChatStream on a provider that sends a few lines.
EXTENDS ChatStream
=============================================================================

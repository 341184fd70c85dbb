-------------------------- MODULE MCSocketReadline --------------------------
EXTENDS SocketReadline

\* The peer sends ordinary bytes and LF only.
LFBytes == {"a", "LF"}
\* The peer also sends CR, as CRLF-speaking clients do.
CRLFBytes == {"a", "CR", "LF"}
=============================================================================

--------------------------- MODULE MCReplyContext ---------------------------
EXTENDS ReplyContext, TLC

MCMethods == {"GET", "HEAD", "PURGE"}
=============================================================================

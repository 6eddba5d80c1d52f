--------------------------- MODULE MCChatService ---------------------------
EXTENDS ChatService
=============================================================================

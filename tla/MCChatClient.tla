---------------------------- MODULE MCChatClient ----------------------------
\* Two turns, of this client or another operator's, in one session and a draft.
EXTENDS ChatClient
=============================================================================

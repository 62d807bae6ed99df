---------------------------- MODULE MCLspServer ----------------------------
EXTENDS LspServer
=============================================================================

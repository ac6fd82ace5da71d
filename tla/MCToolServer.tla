---------------------------- MODULE MCToolServer ----------------------------
EXTENDS ToolServer
=============================================================================

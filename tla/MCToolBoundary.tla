--------------------------- MODULE MCToolBoundary ---------------------------
EXTENDS ToolBoundary
=============================================================================

----------------------------- MODULE MCFdevent -----------------------------
EXTENDS FdeventProps

CONSTANTS fd1, fd2
=============================================================================
